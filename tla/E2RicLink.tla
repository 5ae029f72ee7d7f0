------------------------------ MODULE E2RicLink ------------------------------
(***************************************************************************)
(* The subscription manager of the E2 agent composed with a RIC over one   *)
(* SCTP association: two FIFO channels that lose nothing while the         *)
(* association is up.  The RIC is not part of the repository; it is        *)
(* modelled as the peer the E2AP handlers are written for.  Handlers of    *)
(* the agent are those of E2SubscriptionManager: AgentReceive runs the     *)
(* whole handler of the oldest message and appends what it sent.           *)
(***************************************************************************)
EXTENDS E2SubscriptionManager, SequencesExt

CONSTANT MaxInFlight  \* bound: indications start only if to_ric is shorter

ASSUME LinkAssumption == MaxInFlight \in Nat \ {0}

VARIABLES
  to_e2,     \* messages on their way to the agent
  to_ric,    \* messages on their way to the RIC
  accepted,  \* RAN functions of the E2 SETUP RESPONSE the RIC sent
  status,    \* [Keys -> ...]: the RIC's view of each request id
  heard      \* last message the RIC took

link == <<to_e2, to_ric, accepted, status, heard>>
allVars == <<vars, link>>

Nothing == [type |-> "none"]

LinkInit ==
  /\ Init
  /\ to_e2 = << >>
  /\ to_ric = << >>
  /\ accepted = {}
  /\ status = [k \in Keys |-> "idle"]
  /\ heard = Nothing

-----------------------------------------------------------------------------
(* The RIC.                                                                *)

(* One E2 SETUP RESPONSE, naming the RAN functions the RIC accepts (with   *)
(* none it could never subscribe).                                         *)
RicSetupResponse(F) ==
  /\ accepted = {}
  /\ F \cap Candidates # {}
  /\ accepted' = F \cap Candidates
  /\ to_e2' = Append(to_e2, [type |-> "setup_response", fns |-> F])
  /\ UNCHANGED <<vars, to_ric, status, heard>>

RicSubscribe(k, fn, acts) ==
  /\ status[k] = "idle"
  /\ fn \in accepted
  /\ status' = [status EXCEPT ![k] = "requested"]
  /\ to_e2' = Append(to_e2, [type |-> "subscribe", key |-> k, fn |-> fn, acts |-> acts])
  /\ heard' = Nothing
  /\ UNCHANGED <<vars, to_ric, accepted>>

RicDelete(k) ==
  /\ status[k] = "active"
  /\ status' = [status EXCEPT ![k] = "deleting"]
  /\ to_e2' = Append(to_e2, [type |-> "delete", key |-> k])
  /\ heard' = Nothing
  /\ UNCHANGED <<vars, to_ric, accepted>>

(* The state the RIC enters when it takes message m.                       *)
RicStatus(m) ==
  CASE m.type = "response" -> "active"
    [] m.type = "indication" -> status[m.key]
    [] OTHER -> "idle"

RicReceive ==
  /\ to_ric # << >>
  /\ LET m == Head(to_ric)
     IN  /\ status' = [status EXCEPT ![m.key] = RicStatus(m)]
         /\ heard' = [type |-> m.type, key |-> m.key]
  /\ to_ric' = Tail(to_ric)
  /\ UNCHANGED <<vars, to_e2, accepted>>

-----------------------------------------------------------------------------
(* The agent.                                                              *)

(* Mutant of Transmitted: messages leave in the opposite order.            *)
TransmittedBackwards(s, ok) == Reverse(s)

(* e2_to_sctp_pdu_notifier::on_new_message drops what the ASN.1 packer     *)
(* refuses: a failure without cause always, a failure whose cause was only *)
(* given a type if the uninitialised value of that cause is out of range.  *)
Packed(m, ok) ==
  /\ m.type # "failure_no_cause"
  /\ m.type \in {"failure", "delete_failure"} => ok

(* What a handler sent, without its failure if that is dropped.  Only the  *)
(* last message of a handler can be a failure.                             *)
Transmitted(s, ok) ==
  IF s = << >> \/ Packed(s[Len(s)], ok) THEN s ELSE SubSeq(s, 1, Len(s) - 1)

(* e2_entity::handle_message and e2_impl::handle_message: the oldest       *)
(* message is dispatched to its handler.                                   *)
AgentReceive ==
  /\ to_e2 # << >>
  /\ LET m == Head(to_e2)
     IN  \/ m.type = "setup_response" /\ HandleSetupResponse(m.fns)
         \/ m.type = "subscribe" /\ HandleSubscriptionRequest(m.key, m.fn, m.acts)
         \/ m.type = "delete" /\ HandleDeleteRequest(m.key)
  /\ to_e2' = Tail(to_e2)
  /\ \E ok \in BOOLEAN : to_ric' = to_ric \o Transmitted(sent', ok)
  /\ UNCHANGED <<accepted, status, heard>>

AgentPeriod(k) ==
  /\ Len(to_ric) < MaxInFlight
  /\ \E ready \in SUBSET ReportActions : ReportPeriod(k, ready)
  /\ to_ric' = to_ric \o Transmitted(sent', TRUE)
  /\ UNCHANGED <<to_e2, accepted, status, heard>>

LinkNext ==
  \/ \E F \in SUBSET RanFunctions : RicSetupResponse(F)
  \/ \E k \in Keys, fn \in RanFunctions, acts \in SUBSET Actions : RicSubscribe(k, fn, acts)
  \/ \E k \in Keys : RicDelete(k)
  \/ RicReceive
  \/ AgentReceive
  \/ \E k \in Keys : AgentPeriod(k)

(* The executor of the agent runs every task that was queued, SCTP         *)
(* delivers what it accepted and the RIC reads its socket.                 *)
LinkFairness ==
  /\ WF_allVars(AgentReceive)
  /\ WF_allVars(RicReceive)

LinkSpec == LinkInit /\ [][LinkNext]_allVars /\ LinkFairness

-----------------------------------------------------------------------------
(* Properties.                                                             *)

(* The RIC's view, with every message in flight taken into account, and    *)
(* the agent's table agree: with no message in flight about k, the         *)
(* subscription is active for the RIC exactly when the agent serves it,    *)
(* and no delete request is left without its answer.                       *)
Quiet(k) ==
  /\ \A i \in DOMAIN to_e2 : to_e2[i].type # "setup_response" => to_e2[i].key # k
  /\ \A i \in DOMAIN to_ric : to_ric[i].key = k => to_ric[i].type = "indication"

ViewsAgree ==
  \A k \in Keys : Quiet(k) => /\ status[k] = "active" <=> k \in observer
                              /\ status[k] # "deleting"

(* e2_subscription_setup_procedure.h declares "results senders" for the    *)
(* response and for the failure: every subscription request of the RIC is  *)
(* answered with one of them.                                              *)
RequestIsAnswered ==
  \A k \in Keys : status[k] = "requested" ~> status[k] # "requested"

(* The composition implements the service the RIC is promised.             *)
Service == INSTANCE E2SubscriptionService
  WITH Keys <- Keys, status <- status, heard <- heard
ServiceSpec == Service!Spec
=============================================================================
