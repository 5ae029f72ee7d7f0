-------------------------- MODULE E2RicLinkProofs ---------------------------
(***************************************************************************)
(* Proofs about E2RicLink, for any sets of request ids, RAN functions and  *)
(* actions and any number of messages in flight.  The inductive invariant  *)
(* LinkInv says, for each request id, which messages about it can be in    *)
(* the two channels given what the RIC believes and what the agent has     *)
(* registered; the actions of E2SubscriptionManager enter through what     *)
(* they do to a RIC that keeps to E2AP (the lemmas named ...Outcome).      *)
(***************************************************************************)
EXTENDS E2RicLink, E2SubscriptionManagerProofs

(* The messages of the two channels.                                       *)
Setups == [type : {"setup_response"}, fns : SUBSET RanFunctions]
Subscribes == [type : {"subscribe"}, key : Keys, fn : RanFunctions,
               acts : SUBSET Actions]
Deletes == [type : {"delete"}, key : Keys]
ToE2 == Setups \cup Subscribes \cup Deletes
ToRic == [type : {"response", "failure", "delete_response", "indication"},
          key : Keys, acts : SUBSET Actions]
Statuses == {"idle", "requested", "active", "deleting"}

LinkTypes ==
  /\ to_e2 \in Seq(ToE2) /\ to_ric \in Seq(ToRic)
  /\ accepted \subseteq RanFunctions /\ status \in [Keys -> Statuses]

(* The agent serves what it has registered and has not failed.             *)
AgentInv == IInv /\ ~fault /\ registered = observer

(* A RAN function the RIC has accepted is allowed at the agent by the time *)
(* a subscription request that names it arrives.                           *)
Announced(fn, i) ==
  \/ fn \in allowed
  \/ \E j \in DOMAIN to_e2 : /\ j < i /\ to_e2[j].type = "setup_response"
                             /\ fn \in to_e2[j].fns \cap Candidates

SetupInv ==
  /\ \A fn \in accepted : Announced(fn, Len(to_e2) + 1)
  /\ \A i \in DOMAIN to_e2 : to_e2[i].type = "subscribe" => Announced(to_e2[i].fn, i)

(* Is to_e2[i] a request about k?                                          *)
Asks(i, k) == to_e2[i].type # "setup_response" /\ to_e2[i].key = k

(* One request per request id is on its way, and it finds the table of the *)
(* agent as the RIC believes it to be.                                     *)
RequestInv ==
  \A k \in Keys : \A i \in DOMAIN to_e2 : Asks(i, k) =>
    /\ \A j \in DOMAIN to_e2 : Asks(j, k) => i = j
    /\ \/ /\ to_e2[i].type = "subscribe" /\ status[k] = "requested"
          /\ k \notin registered
          /\ \A j \in DOMAIN to_ric : to_ric[j].key # k
       \/ /\ to_e2[i].type = "delete" /\ status[k] = "deleting"
          /\ k \in registered
          /\ \A j \in DOMAIN to_ric : to_ric[j].key = k => to_ric[j].type = "indication"

(* Does to_ric[i] answer a request about k?                                *)
Answers(i, k, type) == to_ric[i].key = k /\ to_ric[i].type = type

(* The answer the RIC waits for is the only one about its request id; the  *)
(* indications follow a response and precede a delete response.            *)
AnswerInv ==
  \A k \in Keys : \A i \in DOMAIN to_ric :
    /\ Answers(i, k, "response") =>
         /\ status[k] = "requested" /\ k \in registered
         /\ \A j \in DOMAIN to_ric : to_ric[j].key = k /\ j # i =>
              i < j /\ to_ric[j].type = "indication"
    /\ Answers(i, k, "failure") =>
         /\ status[k] = "requested" /\ k \notin registered
         /\ \A j \in DOMAIN to_ric : to_ric[j].key = k => i = j
    /\ Answers(i, k, "delete_response") =>
         /\ status[k] = "deleting" /\ k \notin registered
         /\ \A j \in DOMAIN to_ric : to_ric[j].key = k /\ j # i =>
              j < i /\ to_ric[j].type = "indication"
    /\ Answers(i, k, "indication") =>
         \/ status[k] \in {"active", "deleting"}
         \/ \E j \in DOMAIN to_ric : j < i /\ Answers(j, k, "response")

(* What the RIC believes is what the agent has, or the message that will   *)
(* say so is on its way.                                                   *)
StatusInv ==
  \A k \in Keys :
    /\ status[k] = "idle" => k \notin registered
    /\ status[k] = "active" => k \in registered
    /\ status[k] = "requested" /\ k \in registered =>
         \E i \in DOMAIN to_ric : Answers(i, k, "response")
    /\ status[k] = "deleting" =>
         \/ \E i \in DOMAIN to_e2 : Asks(i, k)
         \/ \E i \in DOMAIN to_ric : Answers(i, k, "delete_response")

LinkInv ==
  /\ LinkTypes /\ AgentInv /\ SetupInv /\ RequestInv /\ AnswerInv /\ StatusInv
-----------------------------------------------------------------------------
(* Facts about sequences.                                                  *)

(* One element more.                                                       *)
LEMMA Appended ==
  ASSUME NEW S, NEW s \in Seq(S), NEW e \in S, NEW t, t = Append(s, e)
  PROVE  /\ t \in Seq(S) /\ Len(s) \in Nat /\ Len(t) = Len(s) + 1
         /\ DOMAIN t = DOMAIN s \cup {Len(s) + 1}
         /\ \A i \in DOMAIN s : i \in Int /\ i < Len(s) + 1 /\ t[i] = s[i]
         /\ t[Len(s) + 1] = e
  OBVIOUS

(* The first element goes.                                                 *)
LEMMA Shortened ==
  ASSUME NEW S, NEW s \in Seq(S), s # << >>, NEW t, t = Tail(s)
  PROVE  /\ t \in Seq(S) /\ 1 \in DOMAIN s /\ Head(s) = s[1] /\ Head(s) \in S
         /\ Len(s) \in Nat /\ Len(t) = Len(s) - 1
         /\ \A i \in DOMAIN s : i \in Int /\ i >= 1
         /\ \A i \in DOMAIN t : i \in Int /\ i + 1 \in DOMAIN s /\ t[i] = s[i + 1]
                                /\ 1 < i + 1
         /\ \A i \in DOMAIN s : i # 1 => i - 1 \in DOMAIN t /\ t[i - 1] = s[i]
  OBVIOUS

(* Several elements more.                                                  *)
LEMMA Extended ==
  ASSUME NEW S, NEW s \in Seq(S), NEW more \in Seq(S), NEW t, t = s \o more
  PROVE  /\ t \in Seq(S) /\ Len(s) \in Nat
         /\ \A i \in DOMAIN s : i \in DOMAIN t /\ i \in Int /\ i <= Len(s) /\ t[i] = s[i]
         /\ \A i \in DOMAIN more : i \in Int /\ i >= 1 /\ Len(s) + i \in DOMAIN t
                                   /\ t[Len(s) + i] = more[i]
         /\ \A i \in DOMAIN t : i \in DOMAIN s \/ i - Len(s) \in DOMAIN more
<1>1. /\ Len(s) \in Nat /\ Len(more) \in Nat /\ DOMAIN s = 1..Len(s)
      /\ DOMAIN more = 1..Len(more)
  OBVIOUS
<1>2. /\ t \in Seq(S) /\ DOMAIN t = 1..(Len(s) + Len(more))
      /\ \A i \in 1..Len(s) : t[i] = s[i]
      /\ \A i \in 1..(Len(s) + Len(more)) : i > Len(s) => t[i] = more[i - Len(s)]
  BY <1>1
<1>3. \A i \in DOMAIN s : i \in DOMAIN t /\ i \in Int /\ i <= Len(s)
  BY <1>1, <1>2
<1>4. \A i \in DOMAIN more : /\ i \in Int /\ i >= 1 /\ Len(s) + i \in DOMAIN t
                             /\ (Len(s) + i) - Len(s) = i /\ Len(s) + i > Len(s)
  BY <1>1, <1>2
<1>5. \A i \in DOMAIN t : i \in DOMAIN s \/ i - Len(s) \in DOMAIN more
  BY <1>1, <1>2
<1>6. \A i \in DOMAIN more : t[Len(s) + i] = more[i]
  BY <1>1, <1>2, <1>4
<1>7. QED
  BY <1>1, <1>2, <1>3, <1>4, <1>5, <1>6

-----------------------------------------------------------------------------
(* What the agent does with the messages of a RIC that keeps to E2AP.      *)

(* An agreement with the RIC about the RAN functions.                      *)
LEMMA SetupOutcome ==
  ASSUME LinkInv, NEW F \in SUBSET RanFunctions, HandleSetupResponse(F)
  PROVE  /\ AgentInv' /\ UNCHANGED registered /\ sent' = << >>
         /\ allowed' = allowed \cup (F \cap Candidates)
<1>1. IInv /\ ~fault /\ registered = observer
  BY DEF LinkInv, AgentInv
<1>2. Next
  BY DEF Next
<1>3. IInv'
  BY <1>1, <1>2, StepIInv
<1>4. QED
  BY <1>1, <1>3 DEF HandleSetupResponse, AgentInv

(* A subscription request under a fresh request id for an allowed RAN      *)
(* function.                                                               *)
LEMMA SubscribeOutcome ==
  ASSUME LinkInv, NEW k \in Keys, NEW fn \in RanFunctions, NEW acts \in SUBSET Actions,
         k \notin registered, fn \in allowed, HandleSubscriptionRequest(k, fn, acts)
  PROVE  /\ AgentInv' /\ UNCHANGED allowed
         /\ \/ /\ UNCHANGED registered
               /\ sent' = << Failure(k) >> \/ sent' = << FailureNoCause(k) >>
            \/ /\ registered' = registered \cup {k}
               /\ sent' = << Response(k) >>
<1>1. IInv /\ ~fault /\ registered = observer /\ TypeOK
  BY DEF LinkInv, AgentInv, IInv
<1>2. RicMaySubscribe(k, fn)
  BY DEF RicMaySubscribe
<1>3. Next
  BY <1>2 DEF Next
<1>4. IInv'
  BY <1>1, <1>3, StepIInv
<1>5. CASE SubscribeUnsupported(k, fn)
  BY <1>1, <1>4, <1>5 DEF SubscribeUnsupported, AgentInv
<1>6. CASE SubscribeRejected(k, fn)
  <2>1. registered' = registered /\ observer' = observer
    BY <1>1, <1>6 DEF SubscribeRejected
  <2>2. QED
    BY <1>1, <1>4, <1>6, <2>1 DEF SubscribeRejected, AgentInv
<1>7. CASE \E A \in SUBSET (acts \cap SupportedActions), ready \in SUBSET ReportActions :
              A # {} /\ SubscribeAdmitted(k, fn, A, ready)
  <2>1. PICK A \in SUBSET (acts \cap SupportedActions), ready \in SUBSET ReportActions :
          SubscribeAdmitted(k, fn, A, ready)
    BY <1>7
  <2>2. k \notin observer
    BY <1>1
  <2>3. /\ registered' = registered \cup {k} /\ observer' = observer \cup {k}
        /\ \E list : sent' = LastRound(k, list, ready) \o << Response(k) >>
        /\ UNCHANGED <<allowed, fault>>
    BY <2>1, <2>2 DEF SubscribeAdmitted
  <2>4. << >> \o << Response(k) >> = << Response(k) >>
    OBVIOUS
  <2>5. sent' = << Response(k) >>
    BY <2>2, <2>3, <2>4 DEF LastRound
  <2>6. QED
    BY <1>1, <1>4, <2>3, <2>5 DEF AgentInv
<1>8. QED
  BY <1>5, <1>6, <1>7 DEF HandleSubscriptionRequest, SubscribeNotAllowedFailure,
     SubscribeNotAllowedSuccess, HasInterface

(* The indications of a round.                                             *)
LEMMA RoundSends ==
  ASSUME NEW k \in Keys, NEW c, NEW ready, NEW s, s = Round(k, c, ready)
  PROVE  s = << >> \/ \E m \in ToRic : s = << m >> /\ m.key = k /\ m.type = "indication"
<1> DEFINE A == {a \in Listed(c) : a \in ReportActions => a \in ready}
<1>1. A \in SUBSET Actions
  BY DEF Listed
<1>2. s = << >> \/ s = << Indication(k, A) >>
  BY DEF Round
<1> HIDE DEF A
<1>3. /\ Indication(k, A) \in ToRic /\ Indication(k, A).key = k
      /\ Indication(k, A).type = "indication"
  BY <1>1 DEF Indication, ToRic
<1>4. QED
  BY <1>2, <1>3

(* A delete request for a registered subscription.                         *)
LEMMA DeleteOutcome ==
  ASSUME LinkInv, NEW k \in Keys, k \in registered, HandleDeleteRequest(k)
  PROVE  /\ AgentInv' /\ UNCHANGED allowed /\ registered' = registered \ {k}
         /\ \/ sent' = << DeleteResponse(k) >>
            \/ \E m \in ToRic : /\ sent' = << m >> \o << DeleteResponse(k) >>
                                /\ m.key = k /\ m.type = "indication"
<1>1. IInv /\ ~fault /\ registered = observer /\ TypeOK
  BY DEF LinkInv, AgentInv, IInv
<1>2. Next
  BY DEF Next
<1>3. IInv'
  BY <1>1, <1>2, StepIInv
<1>4. PICK ready \in SUBSET ReportActions : DeleteRegistered(k, ready)
  BY DEF HandleDeleteRequest, DeleteUnknown
<1>5. k \in observer /\ k \in source
  BY <1>1 DEF IInv, SuspendedIsObserved
<1>6. /\ registered' = registered \ {k} /\ observer' = observer \ {k}
      /\ sent' = Round(k, copies[k], ready) \o << DeleteResponse(k) >>
      /\ UNCHANGED <<allowed, fault>>
  BY <1>4, <1>5 DEF DeleteRegistered, LastRound
<1> DEFINE s == Round(k, copies[k], ready)
<1>7. s = << >> \/ \E m \in ToRic : s = << m >> /\ m.key = k /\ m.type = "indication"
  BY RoundSends
<1> HIDE DEF s
<1>8. << >> \o << DeleteResponse(k) >> = << DeleteResponse(k) >>
  OBVIOUS
<1>9. sent' = s \o << DeleteResponse(k) >>
  BY <1>6 DEF s
<1>10. QED
  BY <1>1, <1>3, <1>6, <1>7, <1>8, <1>9 DEF AgentInv

(* The end of a report period.                                             *)
LEMMA PeriodOutcome ==
  ASSUME LinkInv, NEW k \in Keys, NEW ready \in SUBSET ReportActions, ReportPeriod(k, ready)
  PROVE  /\ AgentInv' /\ UNCHANGED <<allowed, registered>>
         /\ \/ sent' = << >>
            \/ \E m \in ToRic : /\ sent' = << m >> /\ m.key = k /\ m.type = "indication"
                                /\ k \in registered
<1>1. IInv /\ ~fault /\ registered = observer
  BY DEF LinkInv, AgentInv
<1>2. Next
  BY DEF Next
<1>3. IInv'
  BY <1>1, <1>2, StepIInv
<1>4. UNCHANGED <<allowed, registered, observer, fault>>
  BY DEF ReportPeriod
<1>5. sent' = << >> \/ (sent' = Round(k, copies[k], ready) /\ k \in registered)
  BY <1>1 DEF ReportPeriod
<1>6. QED
  BY <1>1, <1>3, <1>4, <1>5, RoundSends DEF AgentInv
-----------------------------------------------------------------------------
(* The types, as the other proofs use them.                                *)
LEMMA Types ==
  ASSUME LinkInv
  PROVE  /\ to_e2 \in Seq(ToE2) /\ to_ric \in Seq(ToRic)
         /\ status \in [Keys -> Statuses]
         /\ accepted \subseteq RanFunctions
         /\ \A i \in DOMAIN to_ric :
              /\ to_ric[i] \in ToRic /\ to_ric[i].key \in Keys
              /\ to_ric[i].type \in {"response", "failure", "delete_response", "indication"}
         /\ \A i \in DOMAIN to_e2 :
              /\ to_e2[i].type \in {"setup_response", "subscribe", "delete"}
              /\ to_e2[i].type = "setup_response" => to_e2[i].fns \in SUBSET RanFunctions
              /\ to_e2[i].type # "setup_response" => to_e2[i].key \in Keys
              /\ to_e2[i].type = "subscribe" =>
                   to_e2[i].fn \in RanFunctions /\ to_e2[i].acts \in SUBSET Actions
<1>1. /\ to_e2 \in Seq(ToE2) /\ to_ric \in Seq(ToRic) /\ status \in [Keys -> Statuses]
      /\ accepted \subseteq RanFunctions
  BY DEF LinkInv, LinkTypes
<1>2. \A i \in DOMAIN to_ric : to_ric[i] \in ToRic
  BY <1>1
<1>3. \A m \in ToRic :
        m.key \in Keys /\ m.type \in {"response", "failure", "delete_response", "indication"}
  BY DEF ToRic
<1>4. \A i \in DOMAIN to_e2 : to_e2[i] \in ToE2
  BY <1>1
<1>5. \A m \in ToE2 :
        /\ m.type \in {"setup_response", "subscribe", "delete"}
        /\ m.type = "setup_response" => m.fns \in SUBSET RanFunctions
        /\ m.type # "setup_response" => m.key \in Keys
        /\ m.type = "subscribe" => m.fn \in RanFunctions /\ m.acts \in SUBSET Actions
  BY DEF ToE2, Setups, Subscribes, Deletes
<1>6. QED
  BY <1>1, <1>2, <1>3, <1>4, <1>5

(* Nothing is on its way about an idle request id, and nothing but         *)
(* indications about an active one.                                        *)
LEMMA AtRest ==
  ASSUME LinkInv, NEW k \in Keys
  PROVE  /\ status[k] \in {"idle", "active"} => \A i \in DOMAIN to_e2 : ~Asks(i, k)
         /\ status[k] = "idle" => \A i \in DOMAIN to_ric : to_ric[i].key # k
         /\ status[k] = "active" =>
              \A i \in DOMAIN to_ric : to_ric[i].key = k => to_ric[i].type = "indication"
<1>1. \A i \in DOMAIN to_e2 : Asks(i, k) => status[k] \in {"requested", "deleting"}
  BY DEF LinkInv, RequestInv
<1>2. \A i \in DOMAIN to_ric : to_ric[i].key = k /\ to_ric[i].type # "indication" =>
        status[k] \in {"requested", "deleting"}
  BY Types DEF LinkInv, AnswerInv, Answers
<1>3. \A i \in DOMAIN to_ric : to_ric[i].key = k /\ to_ric[i].type = "indication" =>
        status[k] \in {"active", "deleting", "requested"}
  BY DEF LinkInv, AnswerInv, Answers
<1>4. QED
  BY <1>1, <1>2, <1>3

(* Announced, Asks and Answers in the next state.                          *)
AnnouncedNext(fn, i) ==
  \/ fn \in allowed'
  \/ \E j \in DOMAIN to_e2' : /\ j < i /\ to_e2'[j].type = "setup_response"
                              /\ fn \in to_e2'[j].fns \cap Candidates

AsksNext(i, k) == to_e2'[i].type # "setup_response" /\ to_e2'[i].key = k

AnswersNext(i, k, type) == to_ric'[i].key = k /\ to_ric'[i].type = type

(* A message more on its way to the agent: the others stay where they are, *)
(* and the RAN functions that were announced before.                       *)
LEMMA RicSends ==
  ASSUME LinkInv, NEW m \in ToE2, to_e2' = Append(to_e2, m), UNCHANGED allowed
  PROVE  /\ to_e2' \in Seq(ToE2)
         /\ \E n \in Int :
              /\ n = Len(to_e2) + 1 /\ Len(to_e2') = n
              /\ DOMAIN to_e2' = DOMAIN to_e2 \cup {n} /\ n \notin DOMAIN to_e2
              /\ to_e2'[n] = m
              /\ \A fn : Announced(fn, n) => AnnouncedNext(fn, n)
         /\ \A i \in DOMAIN to_e2 : to_e2'[i] = to_e2[i]
         /\ \A i \in DOMAIN to_e2 : to_e2[i].type = "subscribe" =>
              AnnouncedNext(to_e2'[i].fn, i)
<1> DEFINE n == Len(to_e2) + 1
<1>1. /\ to_e2' \in Seq(ToE2) /\ n \in Int /\ Len(to_e2') = n
      /\ DOMAIN to_e2' = DOMAIN to_e2 \cup {n}
      /\ \A i \in DOMAIN to_e2 : i \in Int /\ i < n /\ to_e2'[i] = to_e2[i]
      /\ to_e2'[n] = m
  BY Types, Appended
<1> HIDE DEF n
<1>2. n \notin DOMAIN to_e2
  BY <1>1
<1>3. ASSUME NEW fn, NEW i, i \in DOMAIN to_e2 \/ i = n, Announced(fn, i)
      PROVE  AnnouncedNext(fn, i)
  BY <1>1, <1>3 DEF Announced, AnnouncedNext
<1>4. \A i \in DOMAIN to_e2 : to_e2[i].type = "subscribe" => Announced(to_e2[i].fn, i)
  BY DEF LinkInv, SetupInv
<1>5. \A i \in DOMAIN to_e2 : to_e2[i].type = "subscribe" => AnnouncedNext(to_e2'[i].fn, i)
  BY <1>1, <1>3, <1>4
<1>6. QED
  BY <1>1, <1>2, <1>3, <1>5 DEF n

(* A step of the RIC leaves the agent as it was.                           *)
LEMMA AgentKept ==
  ASSUME LinkInv, UNCHANGED vars
  PROVE  AgentInv' /\ UNCHANGED <<allowed, registered>>
<1>1. IInv'
  BY StepIInv DEF LinkInv, AgentInv
<1>2. QED
  BY <1>1 DEF LinkInv, AgentInv, vars

(* The E2 SETUP RESPONSE announces the RAN functions it names.             *)
LEMMA SetupKeeps ==
  ASSUME LinkInv, NEW F \in SUBSET RanFunctions, RicSetupResponse(F)
  PROVE  LinkInv'
<1> DEFINE m == [type |-> "setup_response", fns |-> F]
<1>1. /\ accepted = {} /\ accepted' = F \cap Candidates /\ to_e2' = Append(to_e2, m)
      /\ UNCHANGED <<vars, to_ric, status>>
  BY DEF RicSetupResponse
<1>2. m \in ToE2 /\ m.type = "setup_response" /\ m.fns = F
  BY DEF ToE2, Setups
<1> HIDE DEF m
<1>3. AgentInv' /\ UNCHANGED <<allowed, registered>>
  BY <1>1, AgentKept
<1>4. /\ to_e2' \in Seq(ToE2)
      /\ \A i \in DOMAIN to_e2 : to_e2'[i] = to_e2[i]
      /\ \A i \in DOMAIN to_e2 : to_e2[i].type = "subscribe" => AnnouncedNext(to_e2'[i].fn, i)
  BY <1>1, <1>2, <1>3, RicSends
<1>5. PICK n \in Int : /\ n = Len(to_e2) + 1 /\ Len(to_e2') = n
                       /\ DOMAIN to_e2' = DOMAIN to_e2 \cup {n} /\ to_e2'[n] = m
  BY <1>1, <1>2, <1>3, RicSends
<1>6. LinkTypes'
  BY <1>1, <1>4 DEF LinkInv, LinkTypes
<1>7. SetupInv'
  <2>1. n < n + 1
    BY <1>5
  <2>2. \A fn \in accepted' : AnnouncedNext(fn, n + 1)
    BY <1>1, <1>2, <1>5, <2>1 DEF AnnouncedNext
  <2>3. \A i \in DOMAIN to_e2' : to_e2'[i].type = "subscribe" => AnnouncedNext(to_e2'[i].fn, i)
    BY <1>2, <1>4, <1>5
  <2>4. QED
    BY <1>5, <2>2, <2>3 DEF SetupInv, Announced, AnnouncedNext
<1>8. /\ \A k : \A i \in DOMAIN to_e2 : Asks(i, k) => i \in DOMAIN to_e2' /\ AsksNext(i, k)
      /\ \A k : \A i \in DOMAIN to_e2' : AsksNext(i, k) => i \in DOMAIN to_e2 /\ Asks(i, k)
  BY <1>2, <1>4, <1>5 DEF Asks, AsksNext
<1>9. RequestInv'
  <2>1. ASSUME NEW k \in Keys, NEW i \in DOMAIN to_e2', AsksNext(i, k)
        PROVE  /\ \A j \in DOMAIN to_e2' : AsksNext(j, k) => i = j
               /\ \/ /\ to_e2'[i].type = "subscribe" /\ status[k] = "requested"
                     /\ k \notin registered
                     /\ \A j \in DOMAIN to_ric : to_ric[j].key # k
                  \/ /\ to_e2'[i].type = "delete" /\ status[k] = "deleting"
                     /\ k \in registered
                     /\ \A j \in DOMAIN to_ric :
                          to_ric[j].key = k => to_ric[j].type = "indication"
    <3>1. i \in DOMAIN to_e2 /\ Asks(i, k) /\ to_e2'[i] = to_e2[i]
      BY <1>4, <1>8, <2>1
    <3>2. QED
      BY <1>8, <3>1 DEF LinkInv, RequestInv
  <2>2. QED
    BY <1>1, <1>3, <2>1 DEF RequestInv, Asks, AsksNext
<1>10. AnswerInv'
  BY <1>1, <1>3 DEF LinkInv, AnswerInv, Answers
<1>11. StatusInv'
  <2>1. \A k \in Keys :
          /\ status[k] = "idle" => k \notin registered
          /\ status[k] = "active" => k \in registered
          /\ status[k] = "requested" /\ k \in registered =>
               \E i \in DOMAIN to_ric : Answers(i, k, "response")
          /\ status[k] = "deleting" =>
               \/ \E i \in DOMAIN to_e2' : AsksNext(i, k)
               \/ \E i \in DOMAIN to_ric : Answers(i, k, "delete_response")
    BY <1>8 DEF LinkInv, StatusInv
  <2>2. QED
    BY <1>1, <1>3, <2>1 DEF StatusInv, Asks, AsksNext, Answers
<1>12. QED
  BY <1>3, <1>6, <1>7, <1>9, <1>10, <1>11 DEF LinkInv

(* The RIC asks for a subscription under a request id that is idle, or for *)
(* the end of one that is active.                                          *)
LEMMA RequestKeeps ==
  ASSUME LinkInv, NEW q \in Keys, NEW m \in ToE2, m.key = q,
         \/ /\ status[q] = "idle" /\ m.type = "subscribe" /\ m.fn \in accepted
            /\ status' = [status EXCEPT ![q] = "requested"]
         \/ /\ status[q] = "active" /\ m.type = "delete"
            /\ status' = [status EXCEPT ![q] = "deleting"],
         to_e2' = Append(to_e2, m), UNCHANGED <<vars, to_ric, accepted>>
  PROVE  LinkInv'
<1>1. AgentInv' /\ UNCHANGED <<allowed, registered>>
  BY AgentKept
<1>2. /\ status \in [Keys -> Statuses] /\ m.type # "setup_response"
      /\ \A k \in Keys : k # q => status'[k] = status[k]
      /\ \/ status[q] = "idle" /\ m.type = "subscribe" /\ status'[q] = "requested"
         \/ status[q] = "active" /\ m.type = "delete" /\ status'[q] = "deleting"
  BY Types
<1>3. /\ to_e2' \in Seq(ToE2)
      /\ \A i \in DOMAIN to_e2 : to_e2'[i] = to_e2[i]
      /\ \A i \in DOMAIN to_e2 : to_e2[i].type = "subscribe" => AnnouncedNext(to_e2'[i].fn, i)
  BY <1>1, RicSends
<1>4. PICK n \in Int : /\ n = Len(to_e2) + 1 /\ Len(to_e2') = n /\ n \notin DOMAIN to_e2
                       /\ DOMAIN to_e2' = DOMAIN to_e2 \cup {n} /\ to_e2'[n] = m
                       /\ \A fn : Announced(fn, n) => AnnouncedNext(fn, n)
  BY <1>1, RicSends
<1>5. LinkTypes'
  <2>1. status' \in [Keys -> Statuses]
    BY <1>2 DEF Statuses
  <2>2. QED
    BY <1>3, <2>1 DEF LinkInv, LinkTypes
<1>6. SetupInv'
  <2>1. \A fn \in accepted : AnnouncedNext(fn, n)
    BY <1>4 DEF LinkInv, SetupInv
  <2>2. n \in Int /\ \A j \in Int : j < n => j < n + 1
    BY <1>4
  <2>3. DOMAIN to_e2' \subseteq Int
    BY <1>3
  <2>4. \A fn \in accepted : AnnouncedNext(fn, n + 1)
    BY <2>1, <2>2, <2>3 DEF AnnouncedNext
  <2>5. \A i \in DOMAIN to_e2' : to_e2'[i].type = "subscribe" => AnnouncedNext(to_e2'[i].fn, i)
    BY <1>2, <1>3, <1>4, <2>1
  <2>6. QED
    BY <1>4, <2>4, <2>5 DEF SetupInv, Announced, AnnouncedNext
<1>7. /\ \A k : \A i \in DOMAIN to_e2 : Asks(i, k) => i \in DOMAIN to_e2' /\ AsksNext(i, k)
      /\ \A k : \A i \in DOMAIN to_e2' : AsksNext(i, k) =>
           (i \in DOMAIN to_e2 /\ Asks(i, k)) \/ (i = n /\ k = q)
      /\ AsksNext(n, q) /\ n \in DOMAIN to_e2'
  BY <1>2, <1>3, <1>4 DEF Asks, AsksNext
<1>8. /\ \A i \in DOMAIN to_e2 : ~Asks(i, q)
      /\ status[q] = "idle" => \A i \in DOMAIN to_ric : to_ric[i].key # q
      /\ \A i \in DOMAIN to_ric : to_ric[i].key = q => to_ric[i].type = "indication"
      /\ status[q] = "idle" => q \notin registered
      /\ status[q] = "active" => q \in registered
  BY <1>2, AtRest DEF LinkInv, StatusInv
<1>9. RequestInv'
  <2>1. ASSUME NEW k \in Keys, NEW i \in DOMAIN to_e2', AsksNext(i, k)
        PROVE  /\ \A j \in DOMAIN to_e2' : AsksNext(j, k) => i = j
               /\ \/ /\ to_e2'[i].type = "subscribe" /\ status'[k] = "requested"
                     /\ k \notin registered
                     /\ \A j \in DOMAIN to_ric : to_ric[j].key # k
                  \/ /\ to_e2'[i].type = "delete" /\ status'[k] = "deleting"
                     /\ k \in registered
                     /\ \A j \in DOMAIN to_ric :
                          to_ric[j].key = k => to_ric[j].type = "indication"
    <3>1. CASE k = q
      <4>1. \A j \in DOMAIN to_e2' : AsksNext(j, k) => j = n
        BY <1>7, <1>8, <3>1
      <4>2. QED
        BY <1>2, <1>4, <1>8, <2>1, <3>1, <4>1
    <3>2. CASE k # q
      <4>1. i \in DOMAIN to_e2 /\ Asks(i, k) /\ to_e2'[i] = to_e2[i]
        BY <1>3, <1>7, <2>1, <3>2
      <4>2. \A j \in DOMAIN to_e2' : AsksNext(j, k) => j \in DOMAIN to_e2 /\ Asks(j, k)
        BY <1>7, <3>2
      <4>3. QED
        BY <1>2, <3>2, <4>1, <4>2 DEF LinkInv, RequestInv
    <3>3. QED
      BY <3>1, <3>2
  <2>2. QED
    BY <1>1, <2>1 DEF RequestInv, Asks, AsksNext
<1>10. AnswerInv'
  <2>1. ASSUME NEW k \in Keys, NEW i \in DOMAIN to_ric
        PROVE  /\ Answers(i, k, "response") =>
                    /\ status'[k] = "requested" /\ k \in registered
                    /\ \A j \in DOMAIN to_ric : to_ric[j].key = k /\ j # i =>
                         i < j /\ to_ric[j].type = "indication"
               /\ Answers(i, k, "failure") =>
                    /\ status'[k] = "requested" /\ k \notin registered
                    /\ \A j \in DOMAIN to_ric : to_ric[j].key = k => i = j
               /\ Answers(i, k, "delete_response") =>
                    /\ status'[k] = "deleting" /\ k \notin registered
                    /\ \A j \in DOMAIN to_ric : to_ric[j].key = k /\ j # i =>
                         j < i /\ to_ric[j].type = "indication"
               /\ Answers(i, k, "indication") =>
                    \/ status'[k] \in {"active", "deleting"}
                    \/ \E j \in DOMAIN to_ric : j < i /\ Answers(j, k, "response")
    <3>1. CASE k = q
      BY <1>2, <1>8, <3>1 DEF Answers
    <3>2. CASE k # q
      BY <1>2, <3>2 DEF LinkInv, AnswerInv
    <3>3. QED
      BY <3>1, <3>2
  <2>2. QED
    BY <1>1, <2>1 DEF AnswerInv, Answers
<1>11. StatusInv'
  <2>1. ASSUME NEW k \in Keys
        PROVE  /\ status'[k] = "idle" => k \notin registered
               /\ status'[k] = "active" => k \in registered
               /\ status'[k] = "requested" /\ k \in registered =>
                    \E i \in DOMAIN to_ric : Answers(i, k, "response")
               /\ status'[k] = "deleting" =>
                    \/ \E i \in DOMAIN to_e2' : AsksNext(i, k)
                    \/ \E i \in DOMAIN to_ric : Answers(i, k, "delete_response")
    <3>1. CASE k = q
      BY <1>2, <1>7, <1>8, <3>1
    <3>2. CASE k # q
      BY <1>2, <1>7, <3>2 DEF LinkInv, StatusInv
    <3>3. QED
      BY <3>1, <3>2
  <2>2. QED
    BY <1>1, <2>1 DEF StatusInv, Asks, AsksNext, Answers
<1>12. QED
  BY <1>1, <1>5, <1>6, <1>9, <1>10, <1>11 DEF LinkInv

(* The RIC takes a message: its view becomes what the message says.        *)
LEMMA ReceiveKeeps ==
  ASSUME LinkInv, RicReceive
  PROVE  LinkInv'
<1> DEFINE m == Head(to_ric)
           q == m.key
<1>1. /\ to_ric # << >> /\ to_ric' = Tail(to_ric)
      /\ status' = [status EXCEPT ![q] = RicStatus(m)]
      /\ UNCHANGED <<vars, to_e2, accepted>>
  BY DEF RicReceive
<1>2. AgentInv' /\ UNCHANGED <<allowed, registered>>
  BY <1>1, AgentKept
<1>3. /\ to_ric' \in Seq(ToRic) /\ 1 \in DOMAIN to_ric /\ m = to_ric[1]
      /\ \A i \in DOMAIN to_ric : i \in Int /\ i >= 1
      /\ \A i \in DOMAIN to_ric' : /\ i \in Int /\ i + 1 \in DOMAIN to_ric
                                   /\ to_ric'[i] = to_ric[i + 1] /\ 1 < i + 1
      /\ \A i \in DOMAIN to_ric : i # 1 => i - 1 \in DOMAIN to_ric' /\ to_ric'[i - 1] = to_ric[i]
  BY <1>1, Types, Shortened
<1>4. /\ q \in Keys /\ m.type \in {"response", "failure", "delete_response", "indication"}
      /\ to_ric[1].key = q /\ to_ric[1].type = m.type
  BY <1>3, Types
<1> HIDE DEF m, q
<1>5. /\ status \in [Keys -> Statuses]
      /\ \A k \in Keys : k # q => status'[k] = status[k]
      /\ status'[q] = RicStatus(m)
  BY <1>1, <1>4, Types
<1>6. /\ m.type = "response" => /\ status[q] = "requested" /\ status'[q] = "active"
                                /\ q \in registered
                                /\ \A j \in DOMAIN to_ric : to_ric[j].key = q /\ j # 1 =>
                                     to_ric[j].type = "indication"
      /\ m.type = "failure" => /\ status[q] = "requested" /\ status'[q] = "idle"
                               /\ q \notin registered
                               /\ \A j \in DOMAIN to_ric : to_ric[j].key = q => j = 1
      /\ m.type = "delete_response" =>
           /\ status[q] = "deleting" /\ status'[q] = "idle"
           /\ q \notin registered
           /\ \A j \in DOMAIN to_ric : to_ric[j].key = q => j = 1
      /\ m.type = "indication" =>
           /\ status[q] \in {"active", "deleting"} /\ status'[q] = status[q]
  <2>1. /\ m.type = "response" => Answers(1, q, "response") /\ RicStatus(m) = "active"
        /\ m.type = "failure" => Answers(1, q, "failure") /\ RicStatus(m) = "idle"
        /\ m.type = "delete_response" => Answers(1, q, "delete_response") /\ RicStatus(m) = "idle"
        /\ m.type = "indication" => Answers(1, q, "indication") /\ RicStatus(m) = status[q]
    BY <1>4 DEF Answers, RicStatus, q
  <2>2. \A j \in DOMAIN to_ric : ~(j < 1)
    BY <1>3
  <2>3. QED
    BY <1>3, <1>4, <1>5, <2>1, <2>2 DEF LinkInv, AnswerInv
<1>7. LinkTypes'
  <2>1. status'[q] \in Statuses
    BY <1>4, <1>5, <1>6 DEF Statuses
  <2>2. status' \in [Keys -> Statuses]
    BY <1>1, <1>5, <2>1
  <2>3. QED
    BY <1>1, <1>3, <2>2 DEF LinkInv, LinkTypes
<1>8. SetupInv'
  BY <1>1, <1>2 DEF LinkInv, SetupInv, Announced
<1>9. /\ \A k, t : \A i \in DOMAIN to_ric' : AnswersNext(i, k, t) =>
           i + 1 \in DOMAIN to_ric /\ Answers(i + 1, k, t)
      /\ \A k, t : \A i \in DOMAIN to_ric : Answers(i, k, t) /\ i # 1 =>
           i - 1 \in DOMAIN to_ric' /\ AnswersNext(i - 1, k, t)
  BY <1>3 DEF Answers, AnswersNext
<1>10. RequestInv'
  <2>1. ASSUME NEW k \in Keys, NEW i \in DOMAIN to_e2, Asks(i, k)
        PROVE  /\ \A j \in DOMAIN to_e2 : Asks(j, k) => i = j
               /\ \/ /\ to_e2[i].type = "subscribe" /\ status'[k] = "requested"
                     /\ k \notin registered
                     /\ \A j \in DOMAIN to_ric' : to_ric'[j].key # k
                  \/ /\ to_e2[i].type = "delete" /\ status'[k] = "deleting"
                     /\ k \in registered
                     /\ \A j \in DOMAIN to_ric' :
                          to_ric'[j].key = k => to_ric'[j].type = "indication"
    <3>1. /\ \A j \in DOMAIN to_e2 : Asks(j, k) => i = j
          /\ \/ /\ to_e2[i].type = "subscribe" /\ status[k] = "requested"
                /\ k \notin registered
                /\ \A j \in DOMAIN to_ric : to_ric[j].key # k
             \/ /\ to_e2[i].type = "delete" /\ status[k] = "deleting"
                /\ k \in registered
                /\ \A j \in DOMAIN to_ric : to_ric[j].key = k => to_ric[j].type = "indication"
      BY <2>1 DEF LinkInv, RequestInv
    <3>2. status'[k] = status[k]
      BY <1>3, <1>4, <1>5, <1>6, <3>1
    <3>3. QED
      BY <1>3, <3>1, <3>2
  <2>2. QED
    BY <1>1, <1>2, <2>1 DEF RequestInv, Asks
<1>11. AnswerInv'
  <2>1. ASSUME NEW k \in Keys, NEW i \in DOMAIN to_ric'
        PROVE  /\ AnswersNext(i, k, "response") =>
                    /\ status'[k] = "requested" /\ k \in registered
                    /\ \A j \in DOMAIN to_ric' : to_ric'[j].key = k /\ j # i =>
                         i < j /\ to_ric'[j].type = "indication"
               /\ AnswersNext(i, k, "failure") =>
                    /\ status'[k] = "requested" /\ k \notin registered
                    /\ \A j \in DOMAIN to_ric' : to_ric'[j].key = k => i = j
               /\ AnswersNext(i, k, "delete_response") =>
                    /\ status'[k] = "deleting" /\ k \notin registered
                    /\ \A j \in DOMAIN to_ric' : to_ric'[j].key = k /\ j # i =>
                         j < i /\ to_ric'[j].type = "indication"
               /\ AnswersNext(i, k, "indication") =>
                    \/ status'[k] \in {"active", "deleting"}
                    \/ \E j \in DOMAIN to_ric' : j < i /\ AnswersNext(j, k, "response")
    <3>1. /\ i \in Int /\ i + 1 \in DOMAIN to_ric /\ to_ric'[i] = to_ric[i + 1]
          /\ 1 < i + 1 /\ i + 1 # 1
      BY <1>3
    <3>2. \A j \in DOMAIN to_ric' :
            /\ j \in Int /\ j + 1 \in DOMAIN to_ric /\ to_ric'[j] = to_ric[j + 1]
            /\ (i < j) = (i + 1 < j + 1) /\ (j < i) = (j + 1 < i + 1)
            /\ (i = j) = (i + 1 = j + 1)
      BY <1>3, <3>1
    <3>3. /\ Answers(i + 1, k, "response") =>
               /\ status[k] = "requested" /\ k \in registered
               /\ \A j \in DOMAIN to_ric : to_ric[j].key = k /\ j # i + 1 =>
                    i + 1 < j /\ to_ric[j].type = "indication"
          /\ Answers(i + 1, k, "failure") =>
               /\ status[k] = "requested" /\ k \notin registered
               /\ \A j \in DOMAIN to_ric : to_ric[j].key = k => i + 1 = j
          /\ Answers(i + 1, k, "delete_response") =>
               /\ status[k] = "deleting" /\ k \notin registered
               /\ \A j \in DOMAIN to_ric : to_ric[j].key = k /\ j # i + 1 =>
                    j < i + 1 /\ to_ric[j].type = "indication"
          /\ Answers(i + 1, k, "indication") =>
               \/ status[k] \in {"active", "deleting"}
               \/ \E j \in DOMAIN to_ric : j < i + 1 /\ Answers(j, k, "response")
      BY <3>1 DEF LinkInv, AnswerInv
    <3>4. \A t : AnswersNext(i, k, t) => Answers(i + 1, k, t)
      BY <1>9
    <3>5. k # q \/ m.type = "indication" => status'[k] = status[k]
      BY <1>5, <1>6
    <3>6. CASE AnswersNext(i, k, "response")
      <4>1. k # q \/ m.type = "indication"
        <5>1. k = q => i + 1 < 1
          BY <1>3, <1>4, <3>1, <3>3, <3>4, <3>6
        <5>2. QED
          BY <3>1, <5>1
      <4>2. QED
        BY <3>2, <3>3, <3>4, <3>5, <3>6, <4>1 DEF AnswersNext
    <3>7. CASE AnswersNext(i, k, "failure")
      <4>1. k # q
        BY <1>3, <1>4, <3>1, <3>3, <3>4, <3>7
      <4>2. QED
        BY <3>2, <3>3, <3>4, <3>5, <3>7, <4>1 DEF AnswersNext
    <3>8. CASE AnswersNext(i, k, "delete_response")
      <4>1. k # q \/ m.type = "indication"
        BY <1>3, <1>4, <3>1, <3>3, <3>4, <3>8
      <4>2. QED
        BY <3>2, <3>3, <3>4, <3>5, <3>8, <4>1 DEF AnswersNext
    <3>9. CASE AnswersNext(i, k, "indication")
      <4>1. to_ric[i + 1].key = k
        BY <3>4, <3>9 DEF Answers
      <4>2. CASE k = q
        <5>1. m.type # "failure" /\ m.type # "delete_response"
          BY <1>6, <3>1, <4>1, <4>2
        <5>2. status'[k] \in {"active", "deleting"}
          BY <1>4, <1>6, <4>2, <5>1
        <5>3. QED
          BY <3>9, <5>2 DEF AnswersNext
      <4>3. CASE k # q
        <5>1. CASE status[k] \in {"active", "deleting"}
          BY <3>5, <3>9, <4>3, <5>1 DEF AnswersNext
        <5>2. CASE \E j \in DOMAIN to_ric : j < i + 1 /\ Answers(j, k, "response")
          <6>1. PICK j \in DOMAIN to_ric : j < i + 1 /\ Answers(j, k, "response")
            BY <5>2
          <6>2. j # 1
            BY <1>4, <4>3, <6>1 DEF Answers
          <6>3. j - 1 \in DOMAIN to_ric' /\ AnswersNext(j - 1, k, "response")
            BY <1>9, <6>1, <6>2
          <6>4. j - 1 < i
            BY <1>3, <3>1, <6>1
          <6>5. QED
            BY <3>9, <6>3, <6>4 DEF AnswersNext
        <5>3. QED
          BY <3>3, <3>4, <3>9, <5>1, <5>2
      <4>4. QED
        BY <4>2, <4>3
    <3>10. QED
      BY <3>6, <3>7, <3>8, <3>9
  <2>2. QED
    BY <1>2, <2>1 DEF AnswerInv, Answers, AnswersNext
<1>12. StatusInv'
  <2>1. ASSUME NEW k \in Keys
        PROVE  /\ status'[k] = "idle" => k \notin registered
               /\ status'[k] = "active" => k \in registered
               /\ status'[k] = "requested" /\ k \in registered =>
                    \E i \in DOMAIN to_ric' : AnswersNext(i, k, "response")
               /\ status'[k] = "deleting" =>
                    \/ \E i \in DOMAIN to_e2 : Asks(i, k)
                    \/ \E i \in DOMAIN to_ric' : AnswersNext(i, k, "delete_response")
    <3>1. /\ status[k] = "idle" => k \notin registered
          /\ status[k] = "active" => k \in registered
          /\ status[k] = "requested" /\ k \in registered =>
               \E i \in DOMAIN to_ric : Answers(i, k, "response")
          /\ status[k] = "deleting" =>
               \/ \E i \in DOMAIN to_e2 : Asks(i, k)
               \/ \E i \in DOMAIN to_ric : Answers(i, k, "delete_response")
      BY DEF LinkInv, StatusInv
    <3>2. CASE k # q
      <4>1. \A t : ~Answers(1, k, t)
        BY <1>4, <3>2 DEF Answers
      <4>2. QED
        BY <1>5, <1>9, <3>1, <3>2, <4>1
    <3>3. CASE k = q /\ m.type # "indication"
      BY <1>4, <1>6, <3>3
    <3>4. CASE k = q /\ m.type = "indication"
      <4>1. ~Answers(1, k, "delete_response") /\ status'[k] = status[k]
            /\ status[k] \in {"active", "deleting"}
        BY <1>4, <1>6, <3>4 DEF Answers
      <4>2. QED
        BY <1>9, <3>1, <4>1
    <3>5. QED
      BY <3>2, <3>3, <3>4
  <2>2. QED
    BY <1>1, <1>2, <2>1 DEF StatusInv, Asks, Answers, AnswersNext
<1>13. QED
  BY <1>2, <1>7, <1>8, <1>10, <1>11, <1>12 DEF LinkInv

-----------------------------------------------------------------------------
(* What RequestInv, AnswerInv and StatusInv say of one request id in the   *)
(* next state.                                                             *)
RequestNext(k) ==
  \A i \in DOMAIN to_e2' : AsksNext(i, k) =>
    /\ \A j \in DOMAIN to_e2' : AsksNext(j, k) => i = j
    /\ \/ /\ to_e2'[i].type = "subscribe" /\ status'[k] = "requested"
          /\ k \notin registered'
          /\ \A j \in DOMAIN to_ric' : to_ric'[j].key # k
       \/ /\ to_e2'[i].type = "delete" /\ status'[k] = "deleting"
          /\ k \in registered'
          /\ \A j \in DOMAIN to_ric' : to_ric'[j].key = k => to_ric'[j].type = "indication"

AnswerNext(k) ==
  \A i \in DOMAIN to_ric' :
    /\ AnswersNext(i, k, "response") =>
         /\ status'[k] = "requested" /\ k \in registered'
         /\ \A j \in DOMAIN to_ric' : to_ric'[j].key = k /\ j # i =>
              i < j /\ to_ric'[j].type = "indication"
    /\ AnswersNext(i, k, "failure") =>
         /\ status'[k] = "requested" /\ k \notin registered'
         /\ \A j \in DOMAIN to_ric' : to_ric'[j].key = k => i = j
    /\ AnswersNext(i, k, "delete_response") =>
         /\ status'[k] = "deleting" /\ k \notin registered'
         /\ \A j \in DOMAIN to_ric' : to_ric'[j].key = k /\ j # i =>
              j < i /\ to_ric'[j].type = "indication"
    /\ AnswersNext(i, k, "indication") =>
         \/ status'[k] \in {"active", "deleting"}
         \/ \E j \in DOMAIN to_ric' : j < i /\ AnswersNext(j, k, "response")

StatusNext(k) ==
  /\ status'[k] = "idle" => k \notin registered'
  /\ status'[k] = "active" => k \in registered'
  /\ status'[k] = "requested" /\ k \in registered' =>
       \E i \in DOMAIN to_ric' : AnswersNext(i, k, "response")
  /\ status'[k] = "deleting" =>
       \/ \E i \in DOMAIN to_e2' : AsksNext(i, k)
       \/ \E i \in DOMAIN to_ric' : AnswersNext(i, k, "delete_response")

(* The agent sends nothing about k, takes no request about it and leaves   *)
(* its entry alone.                                                        *)
LEMMA KeyUntouched ==
  ASSUME LinkInv, NEW k \in Keys, NEW more \in Seq(ToRic), to_ric' = to_ric \o more,
         \A i \in DOMAIN more : more[i].key # k,
         k \in registered' <=> k \in registered, UNCHANGED status,
         NEW d \in {0, 1},
         \A i \in DOMAIN to_e2' :
           i \in Int /\ i + d \in DOMAIN to_e2 /\ to_e2'[i] = to_e2[i + d],
         \A i \in DOMAIN to_e2 : Asks(i, k) => i - d \in DOMAIN to_e2' /\ AsksNext(i - d, k)
  PROVE  RequestNext(k) /\ AnswerNext(k) /\ StatusNext(k)
<1>1. /\ \A i \in DOMAIN to_ric : i \in DOMAIN to_ric' /\ to_ric'[i] = to_ric[i]
      /\ \A i \in DOMAIN more : Len(to_ric) + i \in DOMAIN to_ric'
                                /\ to_ric'[Len(to_ric) + i] = more[i]
      /\ \A i \in DOMAIN to_ric' :
           i \in DOMAIN to_ric \/ i - Len(to_ric) \in DOMAIN more
      /\ Len(to_ric) \in Nat /\ to_ric' \in Seq(ToRic)
  BY Types, Extended
<1>2. \A i \in DOMAIN to_ric' : i \in Int
  BY <1>1
<1>3. \A i \in DOMAIN to_ric' : to_ric'[i].key = k => i \in DOMAIN to_ric
  <2>1. ASSUME NEW i \in DOMAIN to_ric', i \notin DOMAIN to_ric
        PROVE  to_ric'[i].key # k
    <3>1. i - Len(to_ric) \in DOMAIN more /\ Len(to_ric) + (i - Len(to_ric)) = i
      BY <1>1, <1>2, <2>1
    <3>2. to_ric'[i] = more[i - Len(to_ric)]
      BY <1>1, <3>1
    <3>3. QED
      BY <3>1, <3>2
  <2>2. QED
    BY <2>1
<1>4. /\ \A t : \A i \in DOMAIN to_ric : Answers(i, k, t) => AnswersNext(i, k, t)
      /\ \A t : \A i \in DOMAIN to_ric' :
           AnswersNext(i, k, t) => i \in DOMAIN to_ric /\ Answers(i, k, t)
  BY <1>1, <1>3 DEF Answers, AnswersNext
<1>5. \A i \in DOMAIN to_e2' : AsksNext(i, k) => i + d \in DOMAIN to_e2 /\ Asks(i + d, k)
  BY DEF Asks, AsksNext
<1>6. RequestNext(k)
  <2>1. ASSUME NEW i \in DOMAIN to_e2', AsksNext(i, k)
        PROVE  /\ \A j \in DOMAIN to_e2' : AsksNext(j, k) => i = j
               /\ \/ /\ to_e2'[i].type = "subscribe" /\ status[k] = "requested"
                     /\ k \notin registered
                     /\ \A j \in DOMAIN to_ric : to_ric[j].key # k
                  \/ /\ to_e2'[i].type = "delete" /\ status[k] = "deleting"
                     /\ k \in registered
                     /\ \A j \in DOMAIN to_ric :
                          to_ric[j].key = k => to_ric[j].type = "indication"
    <3>1. i + d \in DOMAIN to_e2 /\ Asks(i + d, k) /\ to_e2'[i] = to_e2[i + d]
      BY <1>5, <2>1
    <3>2. \A j \in DOMAIN to_e2' : AsksNext(j, k) => i + d = j + d
      BY <1>5, <3>1 DEF LinkInv, RequestInv
    <3>3. \A j \in DOMAIN to_e2' : i + d = j + d => i = j
      OBVIOUS
    <3>4. QED
      BY <3>1, <3>2, <3>3 DEF LinkInv, RequestInv
  <2>2. QED
    BY <1>1, <1>3, <2>1 DEF RequestNext
<1>7. AnswerNext(k)
  <2>1. ASSUME NEW i \in DOMAIN to_ric
        PROVE  /\ Answers(i, k, "response") =>
                    /\ status[k] = "requested" /\ k \in registered
                    /\ \A j \in DOMAIN to_ric : to_ric[j].key = k /\ j # i =>
                         i < j /\ to_ric[j].type = "indication"
               /\ Answers(i, k, "failure") =>
                    /\ status[k] = "requested" /\ k \notin registered
                    /\ \A j \in DOMAIN to_ric : to_ric[j].key = k => i = j
               /\ Answers(i, k, "delete_response") =>
                    /\ status[k] = "deleting" /\ k \notin registered
                    /\ \A j \in DOMAIN to_ric : to_ric[j].key = k /\ j # i =>
                         j < i /\ to_ric[j].type = "indication"
               /\ Answers(i, k, "indication") =>
                    \/ status[k] \in {"active", "deleting"}
                    \/ \E j \in DOMAIN to_ric : j < i /\ Answers(j, k, "response")
    BY DEF LinkInv, AnswerInv
  <2>2. QED
    BY <1>1, <1>3, <1>4, <2>1 DEF AnswerNext
<1>8. StatusNext(k)
  BY <1>1, <1>4 DEF LinkInv, StatusInv, StatusNext
<1>9. QED
  BY <1>6, <1>7, <1>8

(* What is known of every request id is the invariant.                     *)
LEMMA KeysTogether ==
  ASSUME LinkTypes', AgentInv', SetupInv',
         \A k \in Keys : RequestNext(k) /\ AnswerNext(k) /\ StatusNext(k)
  PROVE  LinkInv'
<1>1. RequestInv'
  BY DEF RequestInv, RequestNext, Asks, AsksNext
<1>2. AnswerInv'
  BY DEF AnswerInv, AnswerNext, Answers, AnswersNext
<1>3. StatusInv'
  BY DEF StatusInv, StatusNext, Asks, AsksNext, Answers, AnswersNext
<1>4. QED
  BY <1>1, <1>2, <1>3 DEF LinkInv

(* The agent takes the oldest message: the others move up, and a RAN       *)
(* function that a setup response announced is allowed from now on.        *)
LEMMA AgentTakes ==
  ASSUME LinkInv, to_e2 # << >>, to_e2' = Tail(to_e2), UNCHANGED accepted,
         allowed \subseteq allowed',
         to_e2[1].type = "setup_response" => to_e2[1].fns \cap Candidates \subseteq allowed'
  PROVE  /\ to_e2' \in Seq(ToE2) /\ 1 \in DOMAIN to_e2 /\ Head(to_e2) = to_e2[1]
         /\ SetupInv'
         /\ \A i \in DOMAIN to_e2' :
              i \in Int /\ i + 1 \in DOMAIN to_e2 /\ to_e2'[i] = to_e2[i + 1] /\ i + 1 # 1
         /\ \A k : ~Asks(1, k) => \A i \in DOMAIN to_e2 : Asks(i, k) =>
              i - 1 \in DOMAIN to_e2' /\ AsksNext(i - 1, k)
<1>1. /\ to_e2' \in Seq(ToE2) /\ 1 \in DOMAIN to_e2 /\ Head(to_e2) = to_e2[1]
      /\ Len(to_e2) \in Nat /\ Len(to_e2') = Len(to_e2) - 1
      /\ \A i \in DOMAIN to_e2 : i \in Int /\ i >= 1
      /\ \A i \in DOMAIN to_e2' : /\ i \in Int /\ i + 1 \in DOMAIN to_e2
                                  /\ to_e2'[i] = to_e2[i + 1] /\ 1 < i + 1
      /\ \A i \in DOMAIN to_e2 : i # 1 => i - 1 \in DOMAIN to_e2' /\ to_e2'[i - 1] = to_e2[i]
  BY Types, Shortened
<1>2. ASSUME NEW fn, NEW i \in Int, Announced(fn, i)
      PROVE  AnnouncedNext(fn, i - 1)
  <2>1. CASE fn \in allowed
    BY <2>1 DEF AnnouncedNext
  <2>2. CASE \E j \in DOMAIN to_e2 : /\ j < i /\ to_e2[j].type = "setup_response"
                                     /\ fn \in to_e2[j].fns \cap Candidates
    <3>1. PICK j \in DOMAIN to_e2 : /\ j < i /\ to_e2[j].type = "setup_response"
                                    /\ fn \in to_e2[j].fns \cap Candidates
      BY <2>2
    <3>2. CASE j = 1
      BY <3>1, <3>2 DEF AnnouncedNext
    <3>3. CASE j # 1
      <4>1. j - 1 \in DOMAIN to_e2' /\ to_e2'[j - 1] = to_e2[j] /\ j - 1 < i - 1
        BY <1>1, <3>1, <3>3
      <4>2. QED
        BY <3>1, <4>1 DEF AnnouncedNext
    <3>4. QED
      BY <3>2, <3>3
  <2>3. QED
    BY <1>2, <2>1, <2>2 DEF Announced
<1>3. \A fn \in accepted : AnnouncedNext(fn, Len(to_e2') + 1)
  <2>1. Len(to_e2) + 1 \in Int /\ (Len(to_e2) + 1) - 1 = Len(to_e2') + 1
    BY <1>1
  <2>2. \A fn \in accepted : Announced(fn, Len(to_e2) + 1)
    BY DEF LinkInv, SetupInv
  <2>3. QED
    BY <1>2, <2>1, <2>2
<1>4. \A i \in DOMAIN to_e2' : to_e2'[i].type = "subscribe" => AnnouncedNext(to_e2'[i].fn, i)
  <2>1. ASSUME NEW i \in DOMAIN to_e2', to_e2'[i].type = "subscribe"
        PROVE  AnnouncedNext(to_e2'[i].fn, i)
    <3>1. i + 1 \in Int /\ i + 1 \in DOMAIN to_e2 /\ to_e2'[i] = to_e2[i + 1] /\ (i + 1) - 1 = i
      BY <1>1
    <3>2. Announced(to_e2[i + 1].fn, i + 1)
      BY <2>1, <3>1 DEF LinkInv, SetupInv
    <3>3. QED
      BY <1>2, <3>1, <3>2
  <2>2. QED
    BY <2>1
<1>5. SetupInv'
  BY <1>3, <1>4 DEF SetupInv, Announced, AnnouncedNext
<1>6. \A i \in DOMAIN to_e2' : i + 1 # 1
  BY <1>1
<1>7. \A k : ~Asks(1, k) => \A i \in DOMAIN to_e2 : Asks(i, k) =>
         i - 1 \in DOMAIN to_e2' /\ AsksNext(i - 1, k)
  BY <1>1 DEF Asks, AsksNext
<1>8. QED
  BY <1>1, <1>5, <1>6, <1>7

(* What leaves the agent of what a handler sent.                           *)
LEMMA Sends ==
  ASSUME NEW k \in Keys, NEW ok \in BOOLEAN
  PROVE  /\ Transmitted(<< >>, ok) = << >>
         /\ Transmitted(<< Failure(k) >>, ok) \in {<< >>, << Failure(k) >>}
         /\ Transmitted(<< FailureNoCause(k) >>, ok) = << >>
         /\ Transmitted(<< Response(k) >>, ok) = << Response(k) >>
         /\ Transmitted(<< DeleteResponse(k) >>, ok) = << DeleteResponse(k) >>
         /\ \A m \in ToRic : m.type = "indication" =>
              /\ Transmitted(<< m >>, ok) = << m >>
              /\ Transmitted(<< m >> \o << DeleteResponse(k) >>, ok)
                   = << m >> \o << DeleteResponse(k) >>
<1>1. /\ ~Packed(FailureNoCause(k), ok) /\ Packed(Response(k), ok)
      /\ Packed(DeleteResponse(k), ok)
      /\ \A m : m.type = "indication" => Packed(m, ok)
  BY DEF Packed, FailureNoCause, Response, DeleteResponse
<1>2. ASSUME NEW m
      PROVE  /\ << m >> # << >> /\ Len(<< m >>) = 1 /\ << m >>[1] = m
             /\ SubSeq(<< m >>, 1, Len(<< m >>) - 1) = << >>
  OBVIOUS
<1>3. ASSUME NEW m, NEW n
      PROVE  /\ << m >> \o << n >> # << >> /\ Len(<< m >> \o << n >>) = 2
             /\ (<< m >> \o << n >>)[2] = n
  OBVIOUS
<1>4. Transmitted(<< >>, ok) = << >>
  BY DEF Transmitted
<1>5. ASSUME NEW m
      PROVE  Transmitted(<< m >>, ok) = IF Packed(m, ok) THEN << m >> ELSE << >>
  BY <1>2 DEF Transmitted
<1>6. ASSUME NEW m, NEW n, Packed(n, ok)
      PROVE  Transmitted(<< m >> \o << n >>, ok) = << m >> \o << n >>
  BY <1>3, <1>6 DEF Transmitted
<1>7. QED
  BY <1>1, <1>4, <1>5, <1>6

(* The messages of the agent to the RIC.                                   *)
LEMMA AgentMessages ==
  ASSUME NEW k \in Keys
  PROVE  /\ Failure(k) \in ToRic /\ Failure(k).key = k /\ Failure(k).type = "failure"
         /\ Response(k) \in ToRic /\ Response(k).key = k /\ Response(k).type = "response"
         /\ DeleteResponse(k) \in ToRic /\ DeleteResponse(k).key = k
         /\ DeleteResponse(k).type = "delete_response"
  BY DEF ToRic, Failure, Response, DeleteResponse

(* The types of the channels after a step of the agent.                    *)
LEMMA AgentTypes ==
  ASSUME LinkInv, NEW more \in Seq(ToRic), to_ric' = to_ric \o more, to_e2' \in Seq(ToE2),
         UNCHANGED <<accepted, status>>
  PROVE  LinkTypes'
<1>1. to_ric' \in Seq(ToRic)
  BY Types, Extended
<1>2. QED
  BY <1>1 DEF LinkInv, LinkTypes

(* A setup response is handled.                                            *)
LEMMA SetupHandled ==
  ASSUME LinkInv, AgentReceive, Head(to_e2).type = "setup_response"
  PROVE  LinkInv'
<1>1. /\ to_e2 # << >> /\ to_e2' = Tail(to_e2) /\ UNCHANGED <<accepted, status>>
      /\ HandleSetupResponse(Head(to_e2).fns)
      /\ \E ok \in BOOLEAN : to_ric' = to_ric \o Transmitted(sent', ok)
  BY DEF AgentReceive
<1>2. /\ 1 \in DOMAIN to_e2 /\ Head(to_e2) = to_e2[1]
  BY <1>1, Types, Shortened
<1>3. to_e2[1].fns \in SUBSET RanFunctions /\ to_e2[1].type = "setup_response"
  BY <1>2, Types
<1>4. /\ AgentInv' /\ UNCHANGED registered /\ sent' = << >>
      /\ allowed' = allowed \cup (to_e2[1].fns \cap Candidates)
  BY <1>1, <1>2, <1>3, SetupOutcome
<1>5. to_ric' = to_ric \o << >> /\ << >> \in Seq(ToRic)
  <2>1. DefaultKey \in Keys
    BY ConstantsAssumption
  <2>2. \A ok \in BOOLEAN : Transmitted(<< >>, ok) = << >>
    BY <2>1, Sends
  <2>3. << >> \in Seq(ToRic)
    OBVIOUS
  <2>4. QED
    BY <1>1, <1>4, <2>2, <2>3
<1>6. /\ to_e2' \in Seq(ToE2) /\ SetupInv'
      /\ \A i \in DOMAIN to_e2' : i \in Int /\ i + 1 \in DOMAIN to_e2 /\ to_e2'[i] = to_e2[i + 1]
      /\ \A k : ~Asks(1, k) => \A i \in DOMAIN to_e2 : Asks(i, k) =>
           i - 1 \in DOMAIN to_e2' /\ AsksNext(i - 1, k)
  BY <1>1, <1>3, <1>4, AgentTakes
<1>7. \A k : ~Asks(1, k)
  BY <1>3 DEF Asks
<1>8. ASSUME NEW k \in Keys
      PROVE  RequestNext(k) /\ AnswerNext(k) /\ StatusNext(k)
  <2>1. \A i \in DOMAIN to_e2 : Asks(i, k) => i - 1 \in DOMAIN to_e2' /\ AsksNext(i - 1, k)
    BY <1>6, <1>7
  <2>2. \A i \in DOMAIN << >> : << >>[i].key # k
    OBVIOUS
  <2>3. QED
    BY <1>1, <1>4, <1>5, <1>6, <2>1, <2>2, KeyUntouched
<1>9. LinkTypes'
  BY <1>1, <1>5, <1>6, AgentTypes
<1>10. QED
  BY <1>4, <1>6, <1>8, <1>9, KeysTogether

(* One message about q, or none, follows what is on its way to the RIC.    *)
LEMMA OneMore ==
  ASSUME LinkInv, NEW q \in Keys, NEW m \in ToRic, m.key = q, to_ric' = to_ric \o << m >>
  PROVE  \E n \in Int :
           /\ n \in DOMAIN to_ric' /\ to_ric'[n] = m /\ n \notin DOMAIN to_ric
           /\ \A i \in DOMAIN to_ric : /\ i \in DOMAIN to_ric' /\ i \in Int /\ i < n
                                       /\ to_ric'[i] = to_ric[i]
           /\ \A i \in DOMAIN to_ric' : i \in DOMAIN to_ric \/ i = n
<1>1. to_ric \in Seq(ToRic)
  BY Types
<1>2. /\ Len(to_ric) \in Nat /\ DOMAIN to_ric = 1..Len(to_ric)
      /\ DOMAIN to_ric' = 1..(Len(to_ric) + 1)
      /\ \A i \in 1..Len(to_ric) : to_ric'[i] = to_ric[i]
      /\ to_ric'[Len(to_ric) + 1] = m
  BY <1>1
<1> DEFINE n == Len(to_ric) + 1
<1>3. /\ n \in Int /\ n \in DOMAIN to_ric' /\ to_ric'[n] = m /\ n \notin DOMAIN to_ric
      /\ \A i \in DOMAIN to_ric : /\ i \in DOMAIN to_ric' /\ i \in Int /\ i < n
                                  /\ to_ric'[i] = to_ric[i]
      /\ \A i \in DOMAIN to_ric' : i \in DOMAIN to_ric \/ i = n
  BY <1>2
<1>4. QED
  BY <1>3

(* A subscription request is handled.                                      *)
LEMMA SubscribeHandled ==
  ASSUME LinkInv, AgentReceive, Head(to_e2).type = "subscribe"
  PROVE  LinkInv'
<1> DEFINE q == to_e2[1].key
           fn == to_e2[1].fn
<1>1. /\ to_e2 # << >> /\ to_e2' = Tail(to_e2) /\ UNCHANGED <<accepted, status>>
      /\ HandleSubscriptionRequest(Head(to_e2).key, Head(to_e2).fn, Head(to_e2).acts)
      /\ \E ok \in BOOLEAN : to_ric' = to_ric \o Transmitted(sent', ok)
  BY DEF AgentReceive
<1>2. /\ 1 \in DOMAIN to_e2 /\ Head(to_e2) = to_e2[1]
      /\ \A i \in DOMAIN to_e2 : i >= 1
  BY <1>1, Types, Shortened
<1>3. /\ q \in Keys /\ fn \in RanFunctions /\ to_e2[1].acts \in SUBSET Actions
      /\ to_e2[1].type = "subscribe" /\ Asks(1, q)
  BY <1>2, Types DEF Asks
<1>4. /\ \A j \in DOMAIN to_e2 : Asks(j, q) => 1 = j
      /\ status[q] = "requested" /\ q \notin registered
      /\ \A j \in DOMAIN to_ric : to_ric[j].key # q
  BY <1>2, <1>3 DEF LinkInv, RequestInv
<1>5. fn \in allowed
  <2>1. Announced(fn, 1)
    BY <1>2, <1>3 DEF LinkInv, SetupInv
  <2>2. \A j \in DOMAIN to_e2 : ~(j < 1)
    BY <1>2, Types
  <2>3. QED
    BY <2>1, <2>2 DEF Announced
<1>6. /\ AgentInv' /\ UNCHANGED allowed
      /\ \/ /\ UNCHANGED registered
            /\ sent' = << Failure(q) >> \/ sent' = << FailureNoCause(q) >>
         \/ /\ registered' = registered \cup {q}
            /\ sent' = << Response(q) >>
  BY <1>1, <1>2, <1>3, <1>4, <1>5, SubscribeOutcome
<1>7. /\ to_e2' \in Seq(ToE2) /\ SetupInv'
      /\ \A i \in DOMAIN to_e2' :
           i \in Int /\ i + 1 \in DOMAIN to_e2 /\ to_e2'[i] = to_e2[i + 1] /\ i + 1 # 1
      /\ \A k : ~Asks(1, k) => \A i \in DOMAIN to_e2 : Asks(i, k) =>
           i - 1 \in DOMAIN to_e2' /\ AsksNext(i - 1, k)
  BY <1>1, <1>3, <1>6, AgentTakes
<1>8. \A k : k # q => ~Asks(1, k)
  BY DEF Asks
<1> HIDE DEF q, fn
<1>9. ASSUME NEW i \in DOMAIN to_e2'
      PROVE  ~AsksNext(i, q)
  BY <1>4, <1>7 DEF Asks, AsksNext
<1>10. PICK more \in {<< >>, << Failure(q) >>, << Response(q) >>} :
         /\ to_ric' = to_ric \o more
         /\ more = << >> \/ more = << Failure(q) >> => UNCHANGED registered
         /\ more = << Response(q) >> => registered' = registered \cup {q}
  <2>1. /\ << Response(q) >> # << >> /\ << Response(q) >> # << Failure(q) >>
    BY DEF Response, Failure
  <2>2. QED
    BY <1>1, <1>3, <1>6, <2>1, Sends
<1>11. /\ more \in Seq(ToRic) /\ \A i \in DOMAIN more : more[i].key = q
  <2>1. /\ << >> \in Seq(ToRic) /\ DOMAIN << >> = {}
        /\ << Failure(q) >> \in Seq(ToRic) /\ DOMAIN << Failure(q) >> = {1}
        /\ << Failure(q) >>[1] = Failure(q)
        /\ << Response(q) >> \in Seq(ToRic) /\ DOMAIN << Response(q) >> = {1}
        /\ << Response(q) >>[1] = Response(q)
    <3>1. Failure(q) \in ToRic /\ Response(q) \in ToRic
      BY <1>3, AgentMessages
    <3>2. \A m \in ToRic : << m >> \in Seq(ToRic) /\ DOMAIN << m >> = {1} /\ << m >>[1] = m
      OBVIOUS
    <3>3. << >> \in Seq(ToRic) /\ DOMAIN << >> = {}
      OBVIOUS
    <3>4. QED
      BY <3>1, <3>2, <3>3
  <2>2. Failure(q).key = q /\ Response(q).key = q
    BY <1>3, AgentMessages
  <2>3. QED
    BY <2>1, <2>2
<1>12. ASSUME NEW k \in Keys, k # q
       PROVE  RequestNext(k) /\ AnswerNext(k) /\ StatusNext(k)
  <2>1. \A i \in DOMAIN to_e2 : Asks(i, k) => i - 1 \in DOMAIN to_e2' /\ AsksNext(i - 1, k)
    BY <1>7, <1>8, <1>12
  <2>2. \A i \in DOMAIN more : more[i].key # k
    BY <1>11, <1>12
  <2>3. k \in registered' <=> k \in registered
    BY <1>10, <1>12
  <2>4. QED
    BY <1>1, <1>7, <1>10, <1>11, <2>1, <2>2, <2>3, KeyUntouched
<1>13. RequestNext(q)
  BY <1>9 DEF RequestNext
<1>14. AnswerNext(q) /\ StatusNext(q)
  <2>1. CASE more = << >>
    <3>1. to_ric' = to_ric
      BY <1>10, <2>1, Types
    <3>2. QED
      BY <1>1, <1>4, <1>10, <2>1, <3>1 DEF AnswerNext, StatusNext, AnswersNext
  <2>2. ASSUME NEW m \in {Failure(q), Response(q)}, more = << m >>
        PROVE  AnswerNext(q) /\ StatusNext(q)
    <3>1. /\ m \in ToRic /\ m.key = q
          /\ \/ m.type = "failure" /\ q \notin registered'
             \/ m.type = "response" /\ q \in registered'
      BY <1>3, <1>4, <1>10, <2>2, AgentMessages
    <3>2. PICK n \in Int :
            /\ n \in DOMAIN to_ric' /\ to_ric'[n] = m /\ n \notin DOMAIN to_ric
            /\ \A i \in DOMAIN to_ric : i \in DOMAIN to_ric' /\ to_ric'[i] = to_ric[i]
            /\ \A i \in DOMAIN to_ric' : i \in DOMAIN to_ric \/ i = n
      BY <1>3, <1>10, <2>2, <3>1, OneMore
    <3>3. \A i \in DOMAIN to_ric' : to_ric'[i].key = q => i = n
      BY <1>4, <3>2
    <3>4. QED
      BY <1>1, <1>4, <3>1, <3>2, <3>3 DEF AnswerNext, StatusNext, AnswersNext
  <2>3. QED
    BY <1>10, <2>1, <2>2
<1>15. LinkTypes'
  BY <1>1, <1>7, <1>10, <1>11, AgentTypes
<1>16. QED
  BY <1>6, <1>7, <1>12, <1>13, <1>14, <1>15, KeysTogether

(* What a delete request makes the agent send: indications, then the       *)
(* delete response.                                                        *)
LEMMA DeleteSends ==
  ASSUME LinkInv, NEW q \in Keys, NEW more,
         \/ more = << DeleteResponse(q) >>
         \/ \E m \in ToRic : /\ more = << m >> \o << DeleteResponse(q) >>
                             /\ m.key = q /\ m.type = "indication",
         to_ric' = to_ric \o more
  PROVE  /\ more \in Seq(ToRic) /\ \A i \in DOMAIN more : more[i].key = q
         /\ \E n \in DOMAIN to_ric' :
              /\ to_ric'[n] = DeleteResponse(q)
              /\ \A i \in DOMAIN to_ric' :
                   \/ i = n
                   \/ i < n /\ i \in DOMAIN to_ric /\ to_ric'[i] = to_ric[i]
                   \/ i < n /\ to_ric'[i].type = "indication"
<1> DEFINE e == DeleteResponse(q)
<1>1. e \in ToRic /\ e.key = q
  BY AgentMessages
<1> HIDE DEF e
<1>2. /\ to_ric \in Seq(ToRic) /\ Len(to_ric) \in Nat /\ DOMAIN to_ric = 1..Len(to_ric)
  BY Types
<1>3. CASE more = << e >>
  <2>1. /\ more \in Seq(ToRic) /\ DOMAIN more = {1} /\ more[1] = e
        /\ DOMAIN to_ric' = 1..(Len(to_ric) + 1) /\ to_ric'[Len(to_ric) + 1] = e
        /\ \A i \in 1..Len(to_ric) : to_ric'[i] = to_ric[i]
    BY <1>1, <1>2, <1>3
  <2>2. Len(to_ric) + 1 \in DOMAIN to_ric'
    BY <1>2, <2>1
  <2>3. \A i \in DOMAIN to_ric' :
           i = Len(to_ric) + 1 \/ (i < Len(to_ric) + 1 /\ i \in DOMAIN to_ric)
    BY <1>2, <2>1
  <2>4. QED
    BY <1>1, <1>2, <2>1, <2>2, <2>3 DEF e
<1>4. CASE \E m \in ToRic : more = << m >> \o << e >> /\ m.key = q /\ m.type = "indication"
  <2>1. PICK m \in ToRic : more = << m >> \o << e >> /\ m.key = q /\ m.type = "indication"
    BY <1>4
  <2>2. /\ more \in Seq(ToRic) /\ DOMAIN more = {1, 2} /\ Len(more) = 2
        /\ more[1] = m /\ more[2] = e
    BY <1>1, <2>1
  <2>3. /\ DOMAIN to_ric' = 1..(Len(to_ric) + 2) /\ to_ric'[Len(to_ric) + 1] = m
        /\ to_ric'[Len(to_ric) + 2] = e
        /\ \A i \in 1..Len(to_ric) : to_ric'[i] = to_ric[i]
    <3>1. /\ \A i \in DOMAIN to_ric : to_ric'[i] = to_ric[i]
          /\ \A i \in DOMAIN more : to_ric'[Len(to_ric) + i] = more[i]
      <4>1. more \in Seq(ToRic) /\ to_ric \in Seq(ToRic) /\ to_ric' = to_ric \o more
        BY <1>2, <2>2
      <4>2. QED
        BY <4>1, Extended
    <3>2. DOMAIN to_ric' = 1..(Len(to_ric) + 2)
      <4>1. \A s, t \in Seq(ToRic) : /\ Len(s \o t) = Len(s) + Len(t)
                                      /\ DOMAIN (s \o t) = 1..Len(s \o t)
        OBVIOUS
      <4>2. to_ric \in Seq(ToRic) /\ more \in Seq(ToRic) /\ Len(more) = 2
        BY <1>2, <2>2
      <4>3. DOMAIN (to_ric \o more) = 1..(Len(to_ric) + 2)
        BY <4>1, <4>2, Zenon
      <4>4. QED
        BY <4>3
    <3>3. 1 \in DOMAIN more /\ 2 \in DOMAIN more
      BY <2>2
    <3>4. QED
      BY <1>2, <2>2, <3>1, <3>2, <3>3
  <2>4. Len(to_ric) + 2 \in DOMAIN to_ric'
    BY <1>2, <2>3
  <2>5. \A i \in DOMAIN to_ric' :
           \/ i = Len(to_ric) + 2
           \/ i < Len(to_ric) + 2 /\ i = Len(to_ric) + 1
           \/ i < Len(to_ric) + 2 /\ i \in DOMAIN to_ric
    BY <1>2, <2>3
  <2>6. QED
    <3>1. \A i \in DOMAIN more : more[i].key = q
      BY <1>1, <2>1, <2>2
    <3>2. \A i \in DOMAIN to_ric' :
            \/ i = Len(to_ric) + 2
            \/ i < Len(to_ric) + 2 /\ i \in DOMAIN to_ric /\ to_ric'[i] = to_ric[i]
            \/ i < Len(to_ric) + 2 /\ to_ric'[i].type = "indication"
      BY <1>2, <2>1, <2>3, <2>5
    <3>3. QED
      BY <2>2, <2>3, <2>4, <3>1, <3>2 DEF e
<1>5. QED
  BY <1>3, <1>4 DEF e

(* A delete request is handled.                                            *)
LEMMA DeleteHandled ==
  ASSUME LinkInv, AgentReceive, Head(to_e2).type = "delete"
  PROVE  LinkInv'
<1> DEFINE q == to_e2[1].key
<1>1. /\ to_e2 # << >> /\ to_e2' = Tail(to_e2) /\ UNCHANGED <<accepted, status>>
      /\ HandleDeleteRequest(Head(to_e2).key)
      /\ \E ok \in BOOLEAN : to_ric' = to_ric \o Transmitted(sent', ok)
  BY DEF AgentReceive
<1>2. 1 \in DOMAIN to_e2 /\ Head(to_e2) = to_e2[1]
  BY <1>1, Types, Shortened
<1>3. q \in Keys /\ to_e2[1].type = "delete" /\ Asks(1, q)
  BY <1>2, Types DEF Asks
<1>4. /\ \A j \in DOMAIN to_e2 : Asks(j, q) => 1 = j
      /\ status[q] = "deleting" /\ q \in registered
      /\ \A j \in DOMAIN to_ric : to_ric[j].key = q => to_ric[j].type = "indication"
  BY <1>2, <1>3 DEF LinkInv, RequestInv
<1>5. /\ AgentInv' /\ UNCHANGED allowed /\ registered' = registered \ {q}
      /\ \/ sent' = << DeleteResponse(q) >>
         \/ \E m \in ToRic : /\ sent' = << m >> \o << DeleteResponse(q) >>
                             /\ m.key = q /\ m.type = "indication"
  BY <1>1, <1>2, <1>3, <1>4, DeleteOutcome
<1>6. /\ to_e2' \in Seq(ToE2) /\ SetupInv'
      /\ \A i \in DOMAIN to_e2' :
           i \in Int /\ i + 1 \in DOMAIN to_e2 /\ to_e2'[i] = to_e2[i + 1] /\ i + 1 # 1
      /\ \A k : ~Asks(1, k) => \A i \in DOMAIN to_e2 : Asks(i, k) =>
           i - 1 \in DOMAIN to_e2' /\ AsksNext(i - 1, k)
  BY <1>1, <1>3, <1>5, AgentTakes
<1>7. \A k : k # q => ~Asks(1, k)
  BY DEF Asks
<1> HIDE DEF q
<1>8. ASSUME NEW i \in DOMAIN to_e2'
      PROVE  ~AsksNext(i, q)
  BY <1>4, <1>6 DEF Asks, AsksNext
<1>9. to_ric' = to_ric \o sent'
  BY <1>1, <1>3, <1>5, Sends
<1>10. /\ sent' \in Seq(ToRic) /\ \A i \in DOMAIN sent' : sent'[i].key = q
       /\ \E n \in DOMAIN to_ric' :
            /\ to_ric'[n] = DeleteResponse(q)
            /\ \A i \in DOMAIN to_ric' :
                 \/ i = n
                 \/ i < n /\ i \in DOMAIN to_ric /\ to_ric'[i] = to_ric[i]
                 \/ i < n /\ to_ric'[i].type = "indication"
  BY <1>3, <1>5, <1>9, DeleteSends
<1>11. ASSUME NEW k \in Keys, k # q
       PROVE  RequestNext(k) /\ AnswerNext(k) /\ StatusNext(k)
  <2>1. \A i \in DOMAIN to_e2 : Asks(i, k) => i - 1 \in DOMAIN to_e2' /\ AsksNext(i - 1, k)
    BY <1>6, <1>7, <1>11
  <2>2. \A i \in DOMAIN sent' : sent'[i].key # k
    BY <1>10, <1>11
  <2>3. k \in registered' <=> k \in registered
    BY <1>5, <1>11
  <2>4. QED
    BY <1>1, <1>6, <1>9, <1>10, <2>1, <2>2, <2>3, KeyUntouched
<1>12. RequestNext(q)
  BY <1>8 DEF RequestNext
<1>13. AnswerNext(q) /\ StatusNext(q)
  <2>1. PICK n \in DOMAIN to_ric' :
          /\ to_ric'[n] = DeleteResponse(q)
          /\ \A i \in DOMAIN to_ric' :
               \/ i = n
               \/ i < n /\ i \in DOMAIN to_ric /\ to_ric'[i] = to_ric[i]
               \/ i < n /\ to_ric'[i].type = "indication"
    BY <1>10
  <2>2. to_ric'[n].key = q /\ to_ric'[n].type = "delete_response"
    BY <1>3, <2>1, AgentMessages
  <2>3. \A i \in DOMAIN to_ric' : to_ric'[i].key = q /\ i # n =>
          i < n /\ to_ric'[i].type = "indication"
    BY <1>4, <2>1
  <2>4. q \notin registered' /\ status'[q] = "deleting"
    BY <1>1, <1>4, <1>5
  <2>5. QED
    BY <2>2, <2>3, <2>4 DEF AnswerNext, StatusNext, AnswersNext
<1>14. LinkTypes'
  BY <1>1, <1>6, <1>9, <1>10, AgentTypes
<1>15. QED
  BY <1>5, <1>6, <1>11, <1>12, <1>13, <1>14, KeysTogether

(* A report period ends: the indication, if there is one, is about a       *)
(* subscription the RIC knows to be active, asked to delete or will know   *)
(* when it takes the response that precedes the indication.                *)
LEMMA PeriodKeeps ==
  ASSUME LinkInv, NEW q \in Keys, AgentPeriod(q)
  PROVE  LinkInv'
<1>1. /\ UNCHANGED <<to_e2, accepted, status>>
      /\ \E ready \in SUBSET ReportActions : ReportPeriod(q, ready)
      /\ to_ric' = to_ric \o Transmitted(sent', TRUE)
  BY DEF AgentPeriod
<1>2. /\ AgentInv' /\ UNCHANGED <<allowed, registered>>
      /\ \/ sent' = << >>
         \/ \E m \in ToRic : /\ sent' = << m >> /\ m.key = q /\ m.type = "indication"
                             /\ q \in registered
  BY <1>1, PeriodOutcome
<1>3. to_ric' = to_ric \o sent'
  BY <1>1, <1>2, Sends
<1>4. SetupInv'
  BY <1>1, <1>2 DEF LinkInv, SetupInv, Announced
<1>5. /\ sent' \in Seq(ToRic) /\ \A i \in DOMAIN sent' : sent'[i].key = q
  <2>1. \A m \in ToRic : << m >> \in Seq(ToRic) /\ DOMAIN << m >> = {1} /\ << m >>[1] = m
    OBVIOUS
  <2>2. << >> \in Seq(ToRic) /\ DOMAIN << >> = {}
    OBVIOUS
  <2>3. QED
    BY <1>2, <2>1, <2>2
<1>6. to_e2' \in Seq(ToE2)
  BY <1>1, Types
<1>7. \A i \in DOMAIN to_e2' : i \in Int /\ i + 0 \in DOMAIN to_e2 /\ to_e2'[i] = to_e2[i + 0]
  <2>1. \A i \in DOMAIN to_e2 : i \in Int /\ i + 0 = i
    BY Types
  <2>2. QED
    BY <1>1, <2>1
<1>8. \A k : \A i \in DOMAIN to_e2 : Asks(i, k) => i - 0 \in DOMAIN to_e2' /\ AsksNext(i - 0, k)
  <2>1. \A i \in DOMAIN to_e2 : i - 0 = i
    BY Types
  <2>2. QED
    BY <1>1, <2>1 DEF Asks, AsksNext
<1>9. ASSUME NEW k \in Keys, \A i \in DOMAIN sent' : sent'[i].key # k
      PROVE  RequestNext(k) /\ AnswerNext(k) /\ StatusNext(k)
  <2>1. UNCHANGED status /\ k \in registered' <=> k \in registered
    BY <1>1, <1>2
  <2>2. \A i \in DOMAIN to_e2 : Asks(i, k) => i - 0 \in DOMAIN to_e2' /\ AsksNext(i - 0, k)
    BY <1>8
  <2>3. UNCHANGED status
    BY <1>1
  <2>4. k \in registered' <=> k \in registered
    BY <1>2
  <2>5. 0 \in {0, 1}
    OBVIOUS
  <2>6. QED
    BY <1>3, <1>5, <1>7, <1>9, <2>2, <2>3, <2>4, <2>5, KeyUntouched
<1>10. CASE sent' = << >>
  <2>1. \A k : \A i \in DOMAIN sent' : sent'[i].key # k
    BY <1>10
  <2>2. LinkTypes'
    BY <1>1, <1>3, <1>5, <1>6, AgentTypes
  <2>3. QED
    BY <1>2, <1>4, <1>9, <2>1, <2>2, KeysTogether
<1>11. CASE \E m \in ToRic : /\ sent' = << m >> /\ m.key = q /\ m.type = "indication"
                             /\ q \in registered
  <2>1. PICK m \in ToRic : /\ sent' = << m >> /\ m.key = q /\ m.type = "indication"
                           /\ q \in registered
    BY <1>11
  <2>2. PICK n \in Int :
          /\ n \in DOMAIN to_ric' /\ to_ric'[n] = m /\ n \notin DOMAIN to_ric
          /\ \A i \in DOMAIN to_ric : /\ i \in DOMAIN to_ric' /\ i \in Int /\ i < n
                                      /\ to_ric'[i] = to_ric[i]
          /\ \A i \in DOMAIN to_ric' : i \in DOMAIN to_ric \/ i = n
    BY <1>3, <2>1, OneMore
  <2>3. q \in registered' /\ status'[q] = status[q]
    BY <1>1, <1>2, <2>1
  <2>4. RequestNext(q)
    <3>1. ASSUME NEW i \in DOMAIN to_e2, Asks(i, q)
          PROVE  /\ \A j \in DOMAIN to_e2 : Asks(j, q) => i = j
                 /\ to_e2[i].type = "delete" /\ status[q] = "deleting"
                 /\ \A j \in DOMAIN to_ric : to_ric[j].key = q => to_ric[j].type = "indication"
      BY <2>1, <3>1 DEF LinkInv, RequestInv
    <3>2. ASSUME NEW i \in DOMAIN to_e2', AsksNext(i, q)
          PROVE  /\ \A j \in DOMAIN to_e2' : AsksNext(j, q) => i = j
                 /\ to_e2'[i].type = "delete" /\ status'[q] = "deleting"
                 /\ \A j \in DOMAIN to_ric' : to_ric'[j].key = q => to_ric'[j].type = "indication"
      <4>1. /\ i \in DOMAIN to_e2 /\ Asks(i, q) /\ to_e2'[i] = to_e2[i]
            /\ \A j \in DOMAIN to_e2' : AsksNext(j, q) => j \in DOMAIN to_e2 /\ Asks(j, q)
        BY <1>1, <3>2 DEF Asks, AsksNext
      <4>2. \A j \in DOMAIN to_ric' : to_ric'[j].key = q => to_ric'[j].type = "indication"
        BY <2>1, <2>2, <3>1, <4>1
      <4>3. QED
        BY <2>3, <3>1, <4>1, <4>2
    <3>3. QED
      BY <2>3, <3>2 DEF RequestNext
  <2>5. ASSUME NEW i \in DOMAIN to_ric
        PROVE  /\ Answers(i, q, "response") =>
                    /\ status[q] = "requested"
                    /\ \A j \in DOMAIN to_ric : to_ric[j].key = q /\ j # i =>
                         i < j /\ to_ric[j].type = "indication"
               /\ ~Answers(i, q, "failure") /\ ~Answers(i, q, "delete_response")
               /\ Answers(i, q, "indication") =>
                    \/ status[q] \in {"active", "deleting"}
                    \/ \E j \in DOMAIN to_ric : j < i /\ Answers(j, q, "response")
    BY <2>1 DEF LinkInv, AnswerInv
  <2>6. \/ status[q] \in {"active", "deleting"}
        \/ \E j \in DOMAIN to_ric : Answers(j, q, "response")
    BY <2>1, Types DEF LinkInv, StatusInv, Statuses
  <2>7. /\ \A t : \A i \in DOMAIN to_ric : Answers(i, q, t) <=> AnswersNext(i, q, t)
        /\ AnswersNext(n, q, "indication") /\ ~AnswersNext(n, q, "response")
        /\ ~AnswersNext(n, q, "failure") /\ ~AnswersNext(n, q, "delete_response")
    BY <2>1, <2>2 DEF Answers, AnswersNext
  <2>8. AnswerNext(q)
    <3>1. ASSUME NEW i \in DOMAIN to_ric', AnswersNext(i, q, "response")
          PROVE  /\ status'[q] = "requested"
                 /\ \A j \in DOMAIN to_ric' : to_ric'[j].key = q /\ j # i =>
                      i < j /\ to_ric'[j].type = "indication"
      BY <2>1, <2>2, <2>3, <2>5, <2>7, <3>1
    <3>2. \A i \in DOMAIN to_ric' :
            ~AnswersNext(i, q, "failure") /\ ~AnswersNext(i, q, "delete_response")
      BY <2>2, <2>5, <2>7
    <3>3. ASSUME NEW i \in DOMAIN to_ric', AnswersNext(i, q, "indication")
          PROVE  \/ status'[q] \in {"active", "deleting"}
                 \/ \E j \in DOMAIN to_ric' : j < i /\ AnswersNext(j, q, "response")
      <4>1. CASE i = n
        BY <2>2, <2>3, <2>6, <2>7, <4>1
      <4>2. CASE i \in DOMAIN to_ric
        BY <2>2, <2>3, <2>5, <2>7, <3>3, <4>2
      <4>3. QED
        BY <2>2, <4>1, <4>2
    <3>4. QED
      BY <2>3, <3>1, <3>2, <3>3 DEF AnswerNext
  <2>9. StatusNext(q)
    <3>1. /\ status[q] # "idle"
          /\ status[q] = "requested" => \E i \in DOMAIN to_ric : Answers(i, q, "response")
          /\ status[q] = "deleting" =>
               \/ \E i \in DOMAIN to_e2 : Asks(i, q)
               \/ \E i \in DOMAIN to_ric : Answers(i, q, "delete_response")
      BY <2>1 DEF LinkInv, StatusInv
    <3>2. \A i \in DOMAIN to_e2 : Asks(i, q) => i \in DOMAIN to_e2' /\ AsksNext(i, q)
      BY <1>1 DEF Asks, AsksNext
    <3>3. QED
      BY <2>2, <2>3, <2>5, <2>7, <3>1, <3>2 DEF StatusNext
  <2>10. \A k \in Keys : k # q => \A i \in DOMAIN sent' : sent'[i].key # k
    BY <1>5
  <2>11. \A k \in Keys : RequestNext(k) /\ AnswerNext(k) /\ StatusNext(k)
    BY <1>9, <2>4, <2>8, <2>9, <2>10
  <2>12. LinkTypes'
    BY <1>1, <1>3, <1>5, <1>6, AgentTypes
  <2>13. QED
    BY <1>2, <1>4, <2>11, <2>12, KeysTogether
<1>12. QED
  BY <1>2, <1>10, <1>11

-----------------------------------------------------------------------------
(* The initial states.                                                     *)
LEMMA InitLinkInv == LinkInit => LinkInv
<1> SUFFICES ASSUME LinkInit PROVE LinkInv
  OBVIOUS
<1>1. /\ Init /\ to_e2 = << >> /\ to_ric = << >> /\ accepted = {}
      /\ status = [k \in Keys |-> "idle"]
  BY DEF LinkInit
<1>2. AgentInv
  BY <1>1, InitIInv DEF Init, AgentInv
<1>3. DOMAIN to_e2 = {} /\ DOMAIN to_ric = {} /\ \A k \in Keys : status[k] = "idle"
  BY <1>1
<1>4. LinkTypes
  <2>1. to_e2 \in Seq(ToE2) /\ to_ric \in Seq(ToRic)
    BY <1>1
  <2>2. QED
    BY <1>1, <2>1 DEF LinkTypes, Statuses
<1>5. SetupInv /\ RequestInv /\ AnswerInv
  BY <1>1, <1>3 DEF SetupInv, RequestInv, AnswerInv
<1>6. StatusInv
  BY <1>1, <1>3 DEF StatusInv, Init
<1>7. QED
  BY <1>2, <1>4, <1>5, <1>6 DEF LinkInv

(* Every step of the link keeps the invariant.                             *)
LEMMA StepLinkInv == LinkInv /\ [LinkNext]_allVars => LinkInv'
<1> SUFFICES ASSUME LinkInv, [LinkNext]_allVars PROVE LinkInv'
  OBVIOUS
<1>1. CASE \E F \in SUBSET RanFunctions : RicSetupResponse(F)
  BY <1>1, SetupKeeps
<1>2. ASSUME NEW k \in Keys, NEW fn \in RanFunctions, NEW acts \in SUBSET Actions,
             RicSubscribe(k, fn, acts)
      PROVE  LinkInv'
  <2> DEFINE m == [type |-> "subscribe", key |-> k, fn |-> fn, acts |-> acts]
  <2>1. m \in ToE2 /\ m.key = k /\ m.type = "subscribe" /\ m.fn = fn
    BY DEF ToE2, Subscribes
  <2>2. /\ status[k] = "idle" /\ fn \in accepted /\ to_e2' = Append(to_e2, m)
        /\ status' = [status EXCEPT ![k] = "requested"]
        /\ UNCHANGED <<vars, to_ric, accepted>>
    BY <1>2 DEF RicSubscribe
  <2> HIDE DEF m
  <2>3. QED
    BY <2>1, <2>2, RequestKeeps
<1>3. ASSUME NEW k \in Keys, RicDelete(k)
      PROVE  LinkInv'
  <2> DEFINE m == [type |-> "delete", key |-> k]
  <2>1. m \in ToE2 /\ m.key = k /\ m.type = "delete"
    BY DEF ToE2, Deletes
  <2>2. /\ status[k] = "active" /\ to_e2' = Append(to_e2, m)
        /\ status' = [status EXCEPT ![k] = "deleting"]
        /\ UNCHANGED <<vars, to_ric, accepted>>
    BY <1>3 DEF RicDelete
  <2> HIDE DEF m
  <2>3. QED
    BY <2>1, <2>2, RequestKeeps
<1>4. CASE RicReceive
  BY <1>4, ReceiveKeeps
<1>5. CASE AgentReceive
  <2>1. Head(to_e2).type \in {"setup_response", "subscribe", "delete"}
    BY <1>5 DEF AgentReceive
  <2>2. QED
    BY <1>5, <2>1, SetupHandled, SubscribeHandled, DeleteHandled
<1>6. CASE \E k \in Keys : AgentPeriod(k)
  BY <1>6, PeriodKeeps
<1>7. CASE UNCHANGED allVars
  <2>1. UNCHANGED <<vars, to_e2, to_ric, accepted, status>>
    BY <1>7 DEF allVars, link
  <2>2. AgentInv' /\ UNCHANGED <<allowed, registered>>
    BY <2>1, AgentKept
  <2>3. LinkTypes' /\ SetupInv'
    BY <2>1, <2>2 DEF LinkInv, LinkTypes, SetupInv, Announced
  <2>4. RequestInv'
    BY <2>1, <2>2 DEF LinkInv, RequestInv, Asks
  <2>5. AnswerInv'
    BY <2>1, <2>2 DEF LinkInv, AnswerInv, Answers
  <2>6. StatusInv'
    BY <2>1, <2>2 DEF LinkInv, StatusInv, Asks, Answers
  <2>7. QED
    BY <2>2, <2>3, <2>4, <2>5, <2>6 DEF LinkInv
<1>8. QED
  BY <1>1, <1>2, <1>3, <1>4, <1>5, <1>6, <1>7 DEF LinkNext

(* The inductive invariant of the link.                                    *)
LEMMA LinkInvariant == LinkSpec => []LinkInv
BY InitLinkInv, StepLinkInv, PTL DEF LinkSpec

(* The RIC's view and the agent's table agree, for any number of request   *)
(* ids, RAN functions and actions, any interleaving of the two ends and    *)
(* any number of messages in flight: once no message about a request id    *)
(* is on its way, its subscription is active for the RIC exactly when the  *)
(* agent serves it (e2_subscription_manager_impl), and no delete request   *)
(* is left without its answer.                                             *)
THEOREM ViewsAgreeHolds == LinkSpec => []ViewsAgree
<1>1. LinkInv => ViewsAgree
  <2> SUFFICES ASSUME LinkInv, NEW k \in Keys, Quiet(k)
               PROVE  (status[k] = "active" <=> k \in observer) /\ status[k] # "deleting"
    BY DEF ViewsAgree
  <2>1. registered = observer /\ status[k] \in Statuses
    BY Types DEF LinkInv, AgentInv
  <2>2. \A i \in DOMAIN to_e2 : ~Asks(i, k)
    BY DEF Quiet, Asks
  <2>3. \A i \in DOMAIN to_ric : ~Answers(i, k, "response") /\ ~Answers(i, k, "delete_response")
    BY DEF Quiet, Answers
  <2>4. QED
    BY <2>1, <2>2, <2>3 DEF LinkInv, StatusInv, Statuses
<1>2. QED
  BY <1>1, LinkInvariant, PTL

(* No null report service, event source or service model is used and no    *)
(* event source gets a second observer when the requests are those of a    *)
(* RIC at the other end of the link: that it keeps its request ids unique  *)
(* and names only RAN functions the agent knows it accepted follows from   *)
(* the order of the messages, whatever the two switches of                 *)
(* E2SubscriptionManager say.                                              *)
THEOREM LinkHasNoFault == LinkSpec => [](~fault /\ registered = observer)
<1>1. LinkInv => ~fault /\ registered = observer
  BY DEF LinkInv, AgentInv
<1>2. QED
  BY <1>1, LinkInvariant, PTL

(* Every step of the link is a step of the service the RIC is promised, or *)
(* leaves what the RIC sees unchanged: a request is answered at most once, *)
(* no indication arrives before the response or after the delete response  *)
(* (the order in which e2_subscription_setup_procedure,                    *)
(* e2_subscription_delete_procedure and e2_indication_procedure send).     *)
THEOREM LinkImplementsService ==
  LinkSpec => Service!Init /\ [][Service!Next]_(Service!svars)
<1>1. LinkInit => Service!Init
  BY DEF LinkInit, Service!Init, Nothing, Service!Nothing
<1>2. LinkInv /\ [LinkNext]_allVars => [Service!Next]_(Service!svars)
  <2> SUFFICES ASSUME LinkInv, [LinkNext]_allVars
               PROVE  Service!Next \/ UNCHANGED <<status, heard>>
    BY DEF Service!svars
  <2>1. CASE \E F \in SUBSET RanFunctions : RicSetupResponse(F)
    BY <2>1 DEF RicSetupResponse
  <2>2. ASSUME NEW k \in Keys, NEW fn \in RanFunctions, NEW acts \in SUBSET Actions,
               RicSubscribe(k, fn, acts)
        PROVE  Service!Next
    <3>1. Service!Request(k)
      BY <2>2 DEF RicSubscribe, Service!Request, Nothing, Service!Nothing
    <3>2. QED
      BY <3>1 DEF Service!Next
  <2>3. ASSUME NEW k \in Keys, RicDelete(k)
        PROVE  Service!Next
    <3>1. Service!Delete(k)
      BY <2>3 DEF RicDelete, Service!Delete, Nothing, Service!Nothing
    <3>2. QED
      BY <3>1 DEF Service!Next
  <2>4. CASE RicReceive
    <3> DEFINE m == Head(to_ric)
               q == m.key
    <3>1. /\ to_ric # << >> /\ status' = [status EXCEPT ![q] = RicStatus(m)]
          /\ heard' = [type |-> m.type, key |-> q]
      BY <2>4 DEF RicReceive
    <3>2. /\ 1 \in DOMAIN to_ric /\ m = to_ric[1] /\ \A i \in DOMAIN to_ric : i \in Int /\ i >= 1
      BY <3>1, Types, Shortened
    <3>3. /\ q \in Keys /\ m.type \in {"response", "failure", "delete_response", "indication"}
          /\ Answers(1, q, m.type)
      BY <3>2, Types DEF Answers
    <3>4. /\ m.type = "response" => RicStatus(m) = "active"
          /\ m.type \in {"failure", "delete_response"} => RicStatus(m) = "idle"
          /\ m.type = "indication" => RicStatus(m) = status[q]
      BY DEF RicStatus
    <3> HIDE DEF m, q
    <3>5. \A j \in DOMAIN to_ric : ~(j < 1)
      BY <3>2
    <3>6. CASE m.type = "response"
      <4>1. status[q] = "requested"
        BY <3>2, <3>3, <3>6 DEF LinkInv, AnswerInv
      <4>2. Service!Grant(q)
        BY <3>1, <3>4, <3>6, <4>1 DEF Service!Grant, Service!Hears
      <4>3. QED
        BY <3>3, <4>2 DEF Service!Next
    <3>7. CASE m.type = "failure"
      <4>1. status[q] = "requested"
        BY <3>2, <3>3, <3>7 DEF LinkInv, AnswerInv
      <4>2. Service!Reject(q)
        BY <3>1, <3>4, <3>7, <4>1 DEF Service!Reject, Service!Hears
      <4>3. QED
        BY <3>3, <4>2 DEF Service!Next
    <3>8. CASE m.type = "delete_response"
      <4>1. status[q] = "deleting"
        BY <3>2, <3>3, <3>8 DEF LinkInv, AnswerInv
      <4>2. Service!Deleted(q)
        BY <3>1, <3>4, <3>8, <4>1 DEF Service!Deleted, Service!Hears
      <4>3. QED
        BY <3>3, <4>2 DEF Service!Next
    <3>9. CASE m.type = "indication"
      <4>1. status[q] \in {"active", "deleting"}
        BY <3>2, <3>3, <3>5, <3>9 DEF LinkInv, AnswerInv
      <4>2. status' = status
        BY <3>1, <3>3, <3>4, <3>9, Types
      <4>3. Service!Indicate(q)
        BY <3>1, <3>9, <4>1, <4>2 DEF Service!Indicate, Service!Hears
      <4>4. QED
        BY <3>3, <4>3 DEF Service!Next
    <3>10. QED
      BY <3>3, <3>6, <3>7, <3>8, <3>9
  <2>5. CASE AgentReceive
    BY <2>5 DEF AgentReceive
  <2>6. CASE \E k \in Keys : AgentPeriod(k)
    BY <2>6 DEF AgentPeriod
  <2>7. CASE UNCHANGED allVars
    BY <2>7 DEF allVars, link
  <2>8. QED
    BY <2>1, <2>2, <2>3, <2>4, <2>5, <2>6, <2>7 DEF LinkNext
<1>3. QED
  BY <1>1, <1>2, LinkInvariant, PTL DEF LinkSpec
=============================================================================
