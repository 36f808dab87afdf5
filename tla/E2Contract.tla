----------------------------- MODULE E2Contract -----------------------------
(***************************************************************************)
(* What an E2 node promises its RIC, without its process, its threads and  *)
(* its reports' source: it introduces itself first, takes the RIC's PDUs   *)
(* in the order they were sent, gives each at most one answer, of the kind *)
(* that PDU calls for, and continues an answer only until the next one.    *)
(***************************************************************************)
EXTENDS E2AP

CONSTANT RicPdus  \* the PDUs the RIC may send

VARIABLES up,    \* the node runs
          peer,  \* the association
          todo,  \* PDUs sent to the node and not yet dealt with
          sent   \* messages the node put on the association

cvars == <<up, peer, todo, sent>>

Init == up = TRUE /\ peer = "none" /\ todo = << >> /\ sent = << >>

Associate ==
  /\ up /\ peer = "none" /\ peer' = "open"
  /\ UNCHANGED <<up, todo, sent>>

Introduce ==
  /\ up /\ peer = "open" /\ sent = << >>
  /\ \E fs \in SUBSET FunctionIds : sent' = << SetupRequest(fs) >>
  /\ UNCHANGED <<up, peer, todo>>

Arrive ==
  /\ up /\ peer = "open"
  /\ \E m \in RicPdus : todo' = Append(todo, m)
  /\ UNCHANGED <<up, peer, sent>>

\* The answers a PDU may get.
Answers(m) ==
  CASE m = Plain("E2setup", "initiating") -> {SetupResponse}
    [] m = Plain("RICserviceQuery", "initiating") ->
         {ServiceUpdate(fs) : fs \in SUBSET FunctionIds}
    [] m \in SubscriptionRequests ->
         {SubscriptionResponse(r, Admitted(m.details), Rejected(m.details)) :
            r \in RequestIdsRead(m) \cap RequestIds}
    [] OTHER -> {}

\* PDUs that may be dealt with in silence.  A subscription request is one: the
\* node does not answer a request for a function it does not have.
MayIgnore(m) == Answers(m) = {} \/ m \in SubscriptionRequests

Deal ==
  /\ up /\ todo # << >> /\ todo' = Tail(todo)
  /\ \/ /\ peer = "open"
        /\ sent # << >> /\ IsSetup(sent[1])
        /\ \E a \in Answers(Head(todo)) : sent' = Append(sent, a)
     \/ /\ MayIgnore(Head(todo)) \/ peer # "open"
        /\ UNCHANGED sent
  /\ UNCHANGED <<up, peer>>

Earlier(r, s) == r[1] < s[1] \/ (r[1] = s[1] /\ r[2] < s[2])

\* The message m may follow the message l without a PDU being dealt with.
FollowsOn(l, m) ==
  \/ /\ IsIndication(m) /\ IsResponse(l)
     /\ m.req = l.req
  \/ /\ IsIndication(m) /\ IsIndication(l)
     /\ m.req = l.req /\ m.action = l.action /\ Earlier(l.report, m.report)
  \/ /\ l = SetupResponse /\ m \in SubscriptionRequests

Continue ==
  /\ up /\ peer = "open" /\ sent # << >>
  /\ Len(sent') = Len(sent) + 1
  /\ sent' = Append(sent, sent'[Len(sent')])
  /\ FollowsOn(sent[Len(sent)], sent'[Len(sent')])
  /\ UNCHANGED <<up, peer, todo>>

Lose ==
  /\ up /\ peer = "open" /\ peer' \in {"closed", "aborted"}
  /\ UNCHANGED <<up, todo, sent>>

\* The node stops; what it has not dealt with is lost.
Stop ==
  /\ up /\ up' = FALSE /\ todo' = << >>
  /\ UNCHANGED <<peer, sent>>

Next == Associate \/ Introduce \/ Arrive \/ Deal \/ Continue \/ Lose \/ Stop

Spec == Init /\ [][Next]_cvars
=============================================================================
