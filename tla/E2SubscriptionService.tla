------------------------ MODULE E2SubscriptionService ------------------------
(***************************************************************************)
(* What the E2 agent promises a RIC that keeps to E2AP, as the RIC sees    *)
(* it: a request is granted or rejected, indications arrive only while the *)
(* subscription exists, and a delete request ends it.  status is the RIC's *)
(* view of each request id, heard the last message it took from the link.  *)
(***************************************************************************)
CONSTANT Keys

VARIABLES status, heard

svars == <<status, heard>>

Nothing == [type |-> "none"]
Hears(t, k) == heard' = [type |-> t, key |-> k]

Init ==
  /\ status = [k \in Keys |-> "idle"]
  /\ heard = Nothing

Request(k) ==
  /\ status[k] = "idle"
  /\ status' = [status EXCEPT ![k] = "requested"]
  /\ heard' = Nothing

Grant(k) ==
  /\ status[k] = "requested"
  /\ status' = [status EXCEPT ![k] = "active"]
  /\ Hears("response", k)

Reject(k) ==
  /\ status[k] = "requested"
  /\ status' = [status EXCEPT ![k] = "idle"]
  /\ Hears("failure", k)

(* Indications may still be on their way when the delete request is sent.  *)
Indicate(k) ==
  /\ status[k] \in {"active", "deleting"}
  /\ Hears("indication", k)
  /\ UNCHANGED status

Delete(k) ==
  /\ status[k] = "active"
  /\ status' = [status EXCEPT ![k] = "deleting"]
  /\ heard' = Nothing

Deleted(k) ==
  /\ status[k] = "deleting"
  /\ status' = [status EXCEPT ![k] = "idle"]
  /\ Hears("delete_response", k)

Next ==
  \E k \in Keys : Request(k) \/ Grant(k) \/ Reject(k) \/ Indicate(k) \/ Delete(k) \/ Deleted(k)

(* Every delete request is answered.  A request that is rejected may get   *)
(* no answer at all.                                                       *)
Fairness == \A k \in Keys : WF_svars(Deleted(k))

Spec == Init /\ [][Next]_svars /\ Fairness
=============================================================================
