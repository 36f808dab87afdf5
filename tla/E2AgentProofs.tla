---------------------------- MODULE E2AgentProofs ----------------------------
(* Theorems about E2Agent, for all values of its constants. *)
EXTENDS E2Agent, SequenceTheorems, TLAPS

-----------------------------------------------------------------------------
(* The messages are well formed. *)

LEMMA MessageTypes ==
  /\ \A fs \in SUBSET FunctionIds :
       SetupRequest(fs) \in AgentPdus /\ ServiceUpdate(fs) \in AgentPdus
  /\ \A r \in RequestIds, x, y \in SUBSET ActionIds :
       SubscriptionResponse(r, x, y) \in AgentPdus
  /\ \A r \in RequestIds, f \in FunctionIds, a \in ActionIds, rep \in Reports :
       Indication(r, f, a, rep) \in AgentPdus
  /\ SetupResponse \in AgentPdus
BY DEF AgentPdus, SetupRequest, ServiceUpdate, SubscriptionResponse,
       Indication, SetupResponse

LEMMA OwnDetailsType == << << [id |-> OwnActionId, type |-> "report"] >> >> \in Seq(Details)
<1>1. [id |-> OwnActionId, type |-> "report"] \in Actions
  BY AgentAssumption DEF Actions, ActionTypes
<1> DEFINE as == << [id |-> OwnActionId, type |-> "report"] >>
<1>2. as \in Seq(Actions) /\ as # << >>
  BY <1>1
<1>3. \A S, x : x \in S => << x >> \in Seq(S)
  OBVIOUS
<1>4. as \in Details
  BY <1>2 DEF Details
<1>5. QED
  BY <1>3, <1>4, Zenon

LEMMA OwnRequestType ==
  OwnSubscriptionRequest(OwnRequestId, OwnActionId) \in AgentPdus
<1> DEFINE ds == << << [id |-> OwnActionId, type |-> "report"] >> >>
<1>1. ds \in Seq(Details)
  BY OwnDetailsType
<1>2. QED
  BY <1>1, AgentAssumption
  DEF OwnSubscriptionRequest, SubscriptionRequest, SubscriptionRequests, AgentPdus

\* A PDU that reaches the subscription case is a subscription request.
LEMMA DispatchedRequest ==
  ASSUME NEW m \in PeerPdus, m.proc = "RICsubscription", m.kind = "initiating"
  PROVE  m \in SubscriptionRequests
BY DEF PeerPdus, PlainPdus, PlainProcs, SubscriptionRequests, Kinds

\* A sequence that is not empty has a last element.
LEMMA LastOfSeq ==
  ASSUME NEW S, NEW s \in Seq(S), s # << >>
  PROVE  Len(s) \in 1 .. Len(s) /\ s[Len(s)] \in S
<1>1. \A t \in Seq(S) : t # << >> => Len(t) \in Nat \ {0}
  BY EmptySeq, Zenon
<1>2. Len(s) \in Nat \ {0}
  BY <1>1, Zenon
<1>3. \A n \in Nat \ {0} : n \in 1 .. n
  OBVIOUS
<1>4. Len(s) \in 1 .. Len(s)
  BY <1>2, <1>3, Zenon
<1>5. QED
  BY <1>4, ElementOfSeq

\* What lies between two positions of a sequence are positions of it.
LEMMA Within ==
  ASSUME NEW n \in Nat, NEW i \in 1 .. n
  PROVE  \A h \in 1 .. (i - 1) : h \in 1 .. n /\ \A k \in (h + 1) .. i : k \in 1 .. n
OBVIOUS

LEMMA AppendedSeq ==
  ASSUME NEW S, NEW s \in Seq(S), NEW e \in S
  PROVE  Append(s, e) \in Seq(S) /\ Append(s, e) # << >>
BY AppendProperties

LEMMA ScanTypes ==
  ASSUME NEW ds \in Seq(Details)
  PROVE  /\ Admitted(ds) \in SUBSET ActionIds
         /\ Rejected(ds) \in SUBSET ActionIds
         /\ ActionIdsRead(ds) \in SUBSET ActionIds
<1>1. ASSUME NEW as \in Details
      PROVE  /\ \A i \in DOMAIN as : as[i].id \in ActionIds
             /\ as[Len(as)].id \in ActionIds
  <2>1. as \in Seq(Actions) /\ as # << >>
    BY DEF Details
  <2>2. Len(as) \in DOMAIN as
    BY <2>1, LastOfSeq, LenProperties
  <2>3. \A i \in DOMAIN as : as[i] \in Actions
    BY <2>1, LenProperties, ElementOfSeq
  <2>4. QED
    BY <2>2, <2>3 DEF Actions
<1>2. \A k \in DOMAIN ds : ds[k] \in Details
  BY LenProperties, ElementOfSeq
<1>3. Admitted(ds) \in SUBSET ActionIds
  BY <1>1, <1>2 DEF Admitted, FirstReport
<1>4. Rejected(ds) \in SUBSET ActionIds
  BY <1>1, <1>2 DEF Rejected, FirstReport
<1>5. ds # << >> => ds[Len(ds)] \in Details
  BY LastOfSeq
<1>6. ActionIdsRead(ds) \in SUBSET ActionIds
  BY <1>1, <1>5 DEF ActionIdsRead
<1>7. QED
  BY <1>3, <1>4, <1>6

-----------------------------------------------------------------------------
(* Type correctness. *)

\* A PDU has been received once the dispatcher runs, a line has been read once
\* reports are sent, and the request ID of a response that was sent is one.
Serving   == {"dispatch", "callback", "open", "reading", "reporting"}
Answering == {"open", "reading", "reporting"}
PhaseData == /\ phase \in Serving => handled # << >>
             /\ phase = "reporting" => line > 0
             /\ phase \in Answering => sub.req \in RequestIds

TypeInv == TypeOK /\ PhaseData

\* What a send does to the types.
LEMMA SendType ==
  ASSUME TypeOK, NEW m \in AgentPdus, NEW next \in Phases, Send(m, next)
  PROVE  sent' \in Seq(AgentPdus) /\ phase' \in {next, "exited"}
<1>1. sent \in Seq(AgentPdus)
  BY DEF TypeOK
<1>2. Append(sent, m) \in Seq(AgentPdus)
  BY <1>1, AppendProperties
<1>3. QED
  BY <1>1, <1>2 DEF Send

\* The PDU in progress, and what marking it does to the types.
LEMMA LastHandling ==
  ASSUME TypeInv, phase \in Serving
  PROVE  /\ Len(handled) \in 1 .. Len(handled)
         /\ handled[Len(handled)] \in Handling /\ current \in PeerPdus
<1>1. handled \in Seq(Handling) /\ handled # << >>
  BY DEF TypeInv, TypeOK, PhaseData
<1>2. Len(handled) \in 1 .. Len(handled) /\ handled[Len(handled)] \in Handling
  BY <1>1, LastOfSeq
<1>3. QED
  BY <1>2 DEF current, Handling

LEMMA MarkType ==
  ASSUME TypeInv, phase \in Serving
  PROVE  /\ [handled EXCEPT ![Len(handled)].called = TRUE] \in Seq(Handling)
         /\ [handled EXCEPT ![Len(handled)].noFunction = TRUE] \in Seq(Handling)
         /\ [handled EXCEPT ![Len(handled)].called = TRUE] # << >>
         /\ [handled EXCEPT ![Len(handled)].noFunction = TRUE] # << >>
<1> DEFINE n == Len(handled)
           h == handled[n]
<1>1. n \in 1 .. n /\ h \in Handling /\ handled \in Seq(Handling)
  BY LastHandling DEF TypeInv, TypeOK
<1>2. [h EXCEPT !.called = TRUE] \in Handling
       /\ [h EXCEPT !.noFunction = TRUE] \in Handling
  BY <1>1 DEF Handling
<1>3. \A x \in Handling : /\ [handled EXCEPT ![n] = x] \in Seq(Handling)
                         /\ Len([handled EXCEPT ![n] = x]) = n
  BY <1>1, ExceptSeq
<1>4. n # 0 /\ Len(<< >>) = 0
  BY <1>1
<1>5. QED
  BY <1>2, <1>3, <1>4

LEMMA InitType == Init => TypeInv
<1> SUFFICES ASSUME Init PROVE TypeInv
  OBVIOUS
<1>1. /\ << >> \in Seq(Handling) /\ << >> \in Seq(Details)
      /\ << >> \in Seq(Lines) /\ Len(<< >>) = 0
      /\ << >> \in Seq(PeerPdus) /\ << >> \in Seq(AgentPdus)
  OBVIOUS
<1>2. input \in Seq(Lines) /\ eof \in BOOLEAN /\ source \in {"file", "viavi"}
  BY <1>1, AgentAssumption DEF Init
<1>3. line \in 0 .. Len(input)
  BY <1>2, LenProperties DEF Init
<1>4. sub \in [req : RequestIds \cup {Unencodable}, details : Seq(Details), action : ActionIds]
  BY <1>1, AgentAssumption DEF Init
<1>5. QED
  BY <1>1, <1>2, <1>3, <1>4
  DEF Init, TypeInv, TypeOK, PhaseData, Serving, Answering, Phases, Ended

LEMMA NextType == TypeInv /\ [Next]_vars => TypeInv'
<1> SUFFICES ASSUME TypeInv, [Next]_vars PROVE TypeInv'
  OBVIOUS
<1> USE DEF TypeInv, TypeOK, PhaseData, Serving, Answering, Phases, Ended
<1>1. CASE UNCHANGED vars
  BY <1>1 DEF vars, agentVars, reportVars
<1>2. CASE Register
  BY <1>2 DEF Register, reportVars
<1>3. CASE Connect
  BY <1>3 DEF Connect, agentVars, reportVars
<1>4. CASE SendSetup
  BY <1>4, SendType, MessageTypes DEF SendSetup, agentVars, reportVars
<1>5. CASE CheckRunning
  BY <1>5 DEF CheckRunning, agentVars, reportVars
<1>6. CASE Receive
  <2>1. CASE inbox # << >> /\ phase' = "dispatch"
    <3>1. Head(inbox) \in PeerPdus /\ Tail(inbox) \in Seq(PeerPdus)
      BY <2>1, HeadTailProperties
    <3> DEFINE h == [pdu |-> Head(inbox), late |-> ~running,
                     called |-> FALSE, noFunction |-> FALSE]
    <3>2. h \in Handling
      BY <3>1 DEF Handling
    <3>3. inbox' = Tail(inbox) /\ handled' = Append(handled, h)
      BY <1>6, <2>1 DEF Receive
    <3> HIDE DEF h
    <3>4. Append(handled, h) \in Seq(Handling) /\ Append(handled, h) # << >>
      <4>1. handled \in Seq(Handling)
        OBVIOUS
      <4>2. QED
        BY <3>2, <4>1, AppendedSeq, Zenon
    <3>5. QED
      BY <1>6, <2>1, <3>1, <3>3, <3>4 DEF Receive, agentVars, reportVars
  <2>2. CASE phase' # "dispatch"
    BY <1>6, <2>2 DEF Receive, agentVars, reportVars
  <2>3. QED
    BY <1>6, <2>1, <2>2 DEF Receive
<1>7. CASE DecodeFails
  BY <1>7 DEF DecodeFails, agentVars, reportVars
<1>8. CASE HandleE2SetupRequest
  BY <1>8, SendType, MessageTypes
  DEF HandleE2SetupRequest, agentVars, reportVars
<1>9. CASE SendOwnSubscription
  BY <1>9, SendType, OwnRequestType
  DEF SendOwnSubscription, agentVars, reportVars
<1>10. CASE HandleServiceQuery
  BY <1>10, SendType, MessageTypes DEF HandleServiceQuery, agentVars, reportVars
<1>11. CASE LogOnly
  BY <1>11 DEF LogOnly, agentVars, reportVars
<1>12. CASE HandleSubscriptionRequest
  <2>1. current \in PeerPdus /\ Len(handled) \in 1 .. Len(handled)
    BY <1>12, LastHandling DEF HandleSubscriptionRequest, Dispatch
  <2>2. current \in SubscriptionRequests
    BY <1>12, <2>1, DispatchedRequest DEF HandleSubscriptionRequest, Dispatch
  <2>3. PICK f \in FunctionIdsRead(current) :
          CallSubscriptionCallback(f) \/ NoSuchFunction(f)
    BY <1>12 DEF HandleSubscriptionRequest
  <2>4. handled' \in Seq(Handling) /\ handled' # << >>
    BY <1>12, <2>3, MarkType
    DEF HandleSubscriptionRequest, Dispatch, CallSubscriptionCallback, NoSuchFunction
  <2>5. sub' \in [req : RequestIds \cup {Unencodable}, details : Seq(Details),
                  action : ActionIds]
    <3>1. /\ current.details \in Seq(Details)
          /\ RequestIdsRead(current) \subseteq RequestIds \cup {Unencodable}
      BY <2>2 DEF SubscriptionRequests, RequestIdsRead
    <3>2. ActionIdsRead(current.details) \subseteq ActionIds
      BY <3>1, ScanTypes
    <3>3. QED
      BY <2>3, <3>1, <3>2 DEF CallSubscriptionCallback, NoSuchFunction
  <2>6. phase' \in {"callback", "loop"}
    BY <2>3 DEF CallSubscriptionCallback, NoSuchFunction
  <2>7. QED
    BY <1>12, <2>4, <2>5, <2>6
    DEF HandleSubscriptionRequest, agentVars, reportVars
<1>13. CASE SendSubscriptionResponse
  <2>1. CASE CanAnswer(sub.req, sub.details)
    <3>1. sub.req \in RequestIds
      BY <2>1 DEF CanAnswer
    <3>2. SubscriptionResponse(sub.req, Admitted(sub.details),
                               Rejected(sub.details)) \in AgentPdus
      BY <3>1, MessageTypes, ScanTypes
    <3>3. sent' \in Seq(AgentPdus) /\ phase' \in {"open", "exited"}
      BY <1>13, <2>1, <3>2, SendType DEF SendSubscriptionResponse
    <3>4. QED
      BY <1>13, <3>1, <3>3 DEF SendSubscriptionResponse, agentVars, reportVars
  <2>2. CASE ~ CanAnswer(sub.req, sub.details)
    BY <1>13, <2>2 DEF SendSubscriptionResponse, agentVars, reportVars
  <2>3. QED
    BY <2>1, <2>2
<1>14. CASE OpenReports
  <2>1. input' \in Seq(Lines) /\ eof' \in BOOLEAN /\ portBound' \in BOOLEAN
    <3>1. \/ UNCHANGED <<portBound, input, eof>>
          \/ portBound' = TRUE /\ input' = << >> /\ eof' = FALSE
      BY <1>14 DEF OpenReports
    <3>2. << >> \in Seq(Lines)
      OBVIOUS
    <3>3. QED
      BY <3>1, <3>2
  <2>2. line' \in 0 .. Len(input') /\ item' \in Nat
    <3>1. Len(input') \in Nat
      BY <2>1, LenProperties
    <3>2. QED
      BY <1>14, <3>1 DEF OpenReports
  <2>3. phase' \in {"reading", "exited"}
    BY <1>14 DEF OpenReports
  <2>4. QED
    BY <1>14, <2>1, <2>2, <2>3 DEF OpenReports, agentVars
<1>15. CASE ReadLine
  <2>1. Len(input) \in Nat /\ line \in Nat
    BY LenProperties
  <2>2. line' \in 1 .. Len(input') /\ item' \in Nat
    BY <1>15, <2>1 DEF ReadLine
  <2>3. phase' \in {"exited", "reading", "reporting"} /\ handled' = handled
    BY <1>15 DEF ReadLine
  <2>4. QED
    BY <1>15, <2>2, <2>3 DEF ReadLine, agentVars
<1>16. CASE EndOfReports
  BY <1>16 DEF EndOfReports, AfterReports, agentVars, reportVars
<1>17. CASE SendIndication
  <2>1. Indication(sub.req, gFuncId, sub.action, <<line, item>>) \in AgentPdus
    <3>1. <<line, item>> \in Reports
      BY LenProperties DEF Reports
    <3>2. sub.req \in RequestIds
      BY <1>17 DEF SendIndication
    <3>3. QED
      BY <3>1, <3>2, MessageTypes
  <2>2. sent' \in Seq(AgentPdus) /\ phase' \in {"reporting", "exited"}
    BY <1>17, <2>1, SendType DEF SendIndication
  <2>3. item' \in Nat
    BY <1>17 DEF SendIndication
  <2>4. QED
    BY <1>17, <2>2, <2>3 DEF SendIndication, agentVars
<1>18. CASE EndOfLine
  BY <1>18 DEF EndOfLine, agentVars, reportVars
<1>19. CASE ReportOutOfRange
  <2>1. handled' \in Seq(Handling) /\ handled' # << >>
    BY <1>19, LastHandling, MarkType DEF ReportOutOfRange
  <2>2. phase' \in {"loop", "joining"}
    BY <1>19 DEF ReportOutOfRange, AfterReports
  <2>3. QED
    BY <1>19, <2>1, <2>2 DEF ReportOutOfRange, agentVars, reportVars
<1>20. CASE ReportFatal
  BY <1>20 DEF ReportFatal, agentVars, reportVars
<1>21. CASE JoinConnector \/ ConnectorAborts
  BY <1>21 DEF JoinConnector, ConnectorAborts, agentVars, reportVars
<1>22. CASE RicSends
  <2>1. inbox' \in Seq(PeerPdus)
    <3>1. PICK m \in RicPdus : inbox' = Append(inbox, m)
      BY <1>22 DEF RicSends
    <3>2. m \in PeerPdus
      BY AgentAssumption
    <3>3. QED
      BY <3>1, <3>2, AppendProperties
  <2>2. QED
    BY <1>22, <2>1 DEF RicSends, agentVars, reportVars
<1>23. CASE RicEnds
  BY <1>23 DEF RicEnds, agentVars, reportVars
<1>24. CASE Signal
  <2>1. /\ phase' \in {phase, "exited"} /\ running' \in BOOLEAN
        /\ UNCHANGED <<gFuncId, ran_functions_registered, subscription_callbacks,
                       handled, sub, reportVars, peer, inbox, sent>>
    BY <1>24 DEF Signal
  <2>2. QED
    BY <2>1 DEF reportVars
<1>25. CASE TesterSendsLine
  <2>1. PICK l \in Lines : input' = Append(input, l)
    BY <1>25 DEF TesterSendsLine
  <2>2. input' \in Seq(Lines) /\ Len(input') = Len(input) + 1
    BY <2>1, AppendProperties
  <2>3. line' \in 0 .. Len(input')
    <3>1. line' = line /\ line \in 0 .. Len(input) /\ Len(input) \in Nat
      BY <1>25, LenProperties DEF TesterSendsLine
    <3>2. QED
      BY <2>2, <3>1
  <2>4. QED
    BY <1>25, <2>2, <2>3 DEF TesterSendsLine, agentVars
<1>26. CASE TesterEnds
  BY <1>26 DEF TesterEnds, agentVars
<1>27. QED
  BY <1>1, <1>2, <1>3, <1>4, <1>5, <1>6, <1>7, <1>8, <1>9, <1>10, <1>11,
     <1>12, <1>13, <1>14, <1>15, <1>16, <1>17, <1>18, <1>19, <1>20, <1>21,
     <1>22, <1>23, <1>24, <1>25, <1>26
  DEF Next, AgentStep, Environment

\* Every state the agent can reach is well typed: no bound on the messages, the
\* lines, the reports or the identifiers.
THEOREM TypeCorrect == Spec => []TypeOK
<1>1. TypeInv => TypeOK
  BY DEF TypeInv
<1>2. QED
  BY <1>1, InitType, NextType, PTL DEF Spec

-----------------------------------------------------------------------------
(* What a step may send. *)

Early == {"main", "start", "connected"}

\* Every step sends nothing, or one message on an open association: the setup
\* request, the response or an indication of the subscription in progress, or
\* a message of another kind.
SendsSetup == /\ phase = "connected" /\ phase' = "loop"
              /\ sent' = Append(sent, SetupRequest(ran_functions_registered))

SendsResponse == /\ phase = "callback" /\ phase' = "open"
                 /\ \E x, y \in SUBSET ActionIds :
                      sent' = Append(sent, SubscriptionResponse(sub.req, x, y))

SendsIndication == /\ phase = "reporting" /\ phase' = "reporting"
                   /\ sent' = Append(sent, Indication(sub.req, gFuncId,
                                                sub.action, <<line, item>>))

SendsOther == /\ phase \in {"dispatch", "sleep"} /\ phase' \in {"loop", "sleep"}
              /\ \E m \in AgentPdus : /\ ~IsSetup(m) /\ ~IsIndication(m)
                                      /\ sent' = Append(sent, m)

SendsOne == /\ peer = "open" /\ peer' = "open"
            /\ UNCHANGED <<ran_functions_registered, subscription_callbacks,
                           running, handled, sub>>
            /\ \/ SendsSetup \/ SendsResponse
               \/ SendsIndication \/ SendsOther

\* A step that sends nothing leaves an open association neither past the setup
\* request nor from the callback to its reports, unless the process ends.
SendsNothing ==
  /\ UNCHANGED sent
  /\ ran_functions_registered \subseteq subscription_callbacks =>
       ran_functions_registered' \subseteq subscription_callbacks'
  /\ subscription_callbacks \subseteq subscription_callbacks'
  /\ phase' \in Early => phase \in Early
  /\ peer' = "open" => \/ peer = "open"
                       \/ phase' \in Early
  /\ peer' = "open" /\ phase \in Early => phase' \in Early \cup Ended
  /\ peer' = "open" /\ phase' \in Answering => phase \in Answering
  /\ phase \in Answering => sub' = sub
  /\ phase \in Ended => phase' = phase

LEMMA StepSends ==
  ASSUME TypeInv, Next
  PROVE  SendsOne \/ SendsNothing
<1> USE DEF SendsOne, SendsNothing, Early, Ended, Answering
<1>1. CASE SendSetup
  BY <1>1 DEF SendSetup, Send, SendsSetup, agentVars
<1>2. CASE HandleE2SetupRequest
  <2>1. ~IsSetup(SetupResponse) /\ ~IsIndication(SetupResponse)
    BY DEF SetupResponse, Plain, IsSetup, IsIndication
  <2>2. QED
    BY <1>2, <2>1, MessageTypes
    DEF HandleE2SetupRequest, Dispatch, Send, SendsOther, agentVars
<1>3. CASE SendOwnSubscription
  <2> DEFINE m == OwnSubscriptionRequest(OwnRequestId, OwnActionId)
  <2>1. ~IsSetup(m) /\ ~IsIndication(m)
    BY DEF OwnSubscriptionRequest, SubscriptionRequest, IsSetup, IsIndication
  <2>2. m \in AgentPdus
    BY OwnRequestType
  <2>3. Send(m, "loop") /\ phase = "sleep"
        /\ UNCHANGED <<agentVars, handled, sub, peer>>
    BY <1>3 DEF SendOwnSubscription
  <2> HIDE DEF m
  <2>4. QED
    BY <2>1, <2>2, <2>3 DEF Send, SendsOther, agentVars
<1>4. CASE HandleServiceQuery
  <2> DEFINE m == ServiceUpdate(ran_functions_registered)
  <2>1. ~IsSetup(m) /\ ~IsIndication(m)
    BY DEF ServiceUpdate, IsSetup, IsIndication
  <2>2. m \in AgentPdus
    BY MessageTypes DEF TypeInv, TypeOK
  <2> HIDE DEF m
  <2>3. /\ phase = "dispatch" /\ UNCHANGED <<agentVars, handled, sub, peer>>
        /\ Send(m, "loop") \/ (phase' = "exited" /\ UNCHANGED sent)
    BY <1>4 DEF HandleServiceQuery, Dispatch, m
  <2>4. QED
    BY <2>1, <2>2, <2>3 DEF Send, SendsOther, agentVars
<1>5. CASE SendSubscriptionResponse
  <2>1. /\ Admitted(sub.details) \in SUBSET ActionIds
        /\ Rejected(sub.details) \in SUBSET ActionIds
    BY ScanTypes DEF TypeInv, TypeOK
  <2>2. QED
    BY <1>5, <2>1
    DEF SendSubscriptionResponse, Send, SendsResponse, agentVars
<1>6. CASE SendIndication
  BY <1>6 DEF SendIndication, Send, SendsIndication, agentVars
<1>7. CASE Register \/ Connect \/ CheckRunning \/ Receive \/ DecodeFails \/ LogOnly
  BY <1>7 DEF Register, Connect, CheckRunning, Receive, DecodeFails, LogOnly,
    agentVars
<1>8. CASE HandleSubscriptionRequest
  BY <1>8 DEF HandleSubscriptionRequest, Dispatch, CallSubscriptionCallback,
    NoSuchFunction, agentVars
<1>9. CASE OpenReports \/ EndOfReports \/ EndOfLine \/ ReportOutOfRange
           \/ ReportFatal \/ JoinConnector \/ ConnectorAborts
  BY <1>9 DEF OpenReports, EndOfReports, AfterReports, EndOfLine,
    ReportOutOfRange, ReportFatal, JoinConnector, ConnectorAborts, agentVars,
    reportVars
<1>10. CASE ReadLine
  <2>1. phase' \in {"exited", "reading", "reporting"}
    BY <1>10 DEF ReadLine
  <2>2. QED
    BY <1>10, <2>1 DEF ReadLine, agentVars
<1>11. CASE Environment
  BY <1>11 DEF Environment, RicSends, RicEnds, Signal, TesterSendsLine,
    TesterEnds, Active, Feeding, agentVars, reportVars
<1>12. QED
  BY <1>1, <1>2, <1>3, <1>4, <1>5, <1>6, <1>7, <1>8, <1>9, <1>10, <1>11
  DEF Next, AgentStep

\* What appending a message does to the elements of the sequence.
LEMMA Appended ==
  ASSUME TypeInv, NEW m, sent' = Append(sent, m)
  PROVE  /\ Len(sent) \in Nat /\ Len(sent') = Len(sent) + 1
         /\ \A i \in 1 .. Len(sent) : sent'[i] = sent[i]
         /\ sent'[Len(sent) + 1] = m
<1>1. sent \in Seq(AgentPdus \cup {m}) /\ m \in AgentPdus \cup {m}
  BY DEF TypeInv, TypeOK
<1>2. QED
  BY <1>1, AppendProperties, LenProperties

-----------------------------------------------------------------------------
(* The setup request comes first. *)

\* Nothing is sent before the setup request, and nothing but it is sent first:
\* once the loop runs on an open association, it has been sent.
StartUp == /\ ran_functions_registered \subseteq subscription_callbacks
           /\ phase \in Early => sent = << >>
           /\ peer = "open" /\ phase \notin Early \cup Ended => sent # << >>

SetupInv == SetupComesFirst /\ StartUp

LEMMA NextStartUp ==
  ASSUME TypeInv, StartUp, Next
  PROVE  StartUp'
<1>1. CASE SendsOne
  <2>1. PICK m : sent' = Append(sent, m)
    BY <1>1 DEF SendsOne, SendsSetup, SendsResponse, SendsIndication, SendsOther
  <2>2. Len(sent') \in Nat \ {0} /\ Len(<< >>) = 0
    BY <2>1, Appended
  <2>3. sent' # << >>
    BY <2>2
  <2>4. QED
    BY <1>1, <2>3
    DEF StartUp, SendsOne, SendsSetup, SendsResponse, SendsIndication,
      SendsOther, Early
<1>2. CASE SendsNothing
  BY <1>2 DEF StartUp, SendsNothing, Early, Ended
<1>3. QED
  BY <1>1, <1>2, StepSends

LEMMA NextSetup == TypeInv /\ SetupInv /\ [Next]_vars => SetupInv'
<1> SUFFICES ASSUME TypeInv, SetupInv, [Next]_vars PROVE SetupInv'
  OBVIOUS
<1>1. CASE UNCHANGED vars
  BY <1>1 DEF SetupInv, SetupComesFirst, StartUp, vars, agentVars
<1>2. CASE Next
  <2>1. StartUp'
    BY <1>2, NextStartUp DEF SetupInv
  <2>2. subscription_callbacks \subseteq subscription_callbacks'
    BY <1>2, StepSends DEF SendsOne, SendsNothing
  <2>3. CASE SendsNothing
    BY <2>1, <2>2, <2>3 DEF SetupInv, SetupComesFirst, SendsNothing
  <2>4. CASE SendsOne /\ SendsSetup
    <3> DEFINE m == SetupRequest(ran_functions_registered)
    <3>1. sent = << >> /\ sent' = Append(sent, m) /\ Len(<< >>) = 0
      BY <2>4 DEF SetupInv, StartUp, SendsSetup, Early
    <3>2. Len(sent') = 1 /\ sent'[1] = m
      BY <3>1, Appended
    <3>3. IsSetup(m) /\ m.funcs = ran_functions_registered
      BY DEF IsSetup, SetupRequest
    <3>4. ran_functions_registered \subseteq subscription_callbacks
      BY DEF SetupInv, StartUp
    <3> HIDE DEF m
    <3>5. SetupComesFirst'
      BY <2>2, <3>2, <3>3, <3>4 DEF SetupComesFirst
    <3>6. QED
      BY <2>1, <3>5 DEF SetupInv
  <2>5. CASE SendsOne /\ ~SendsSetup
    <3>1. PICK m : sent' = Append(sent, m) /\ ~IsSetup(m)
      <4>1. \A r, x, y : ~IsSetup(SubscriptionResponse(r, x, y))
        BY DEF IsSetup, SubscriptionResponse
      <4>2. \A r, f, a, rep : ~IsSetup(Indication(r, f, a, rep))
        BY DEF IsSetup, Indication
      <4>3. QED
        BY <2>5, <4>1, <4>2
        DEF SendsOne, SendsResponse, SendsIndication, SendsOther
    <3>2. sent # << >>
      BY <2>5 DEF SetupInv, StartUp, SendsOne, SendsSetup, SendsResponse,
        SendsIndication, SendsOther, Early, Ended
    <3>3. Len(sent) \in 1 .. Len(sent)
      BY <3>2, LastOfSeq DEF TypeInv, TypeOK
    <3>4. /\ Len(sent) \in Nat /\ Len(sent') = Len(sent) + 1
          /\ \A i \in 1 .. Len(sent) : sent'[i] = sent[i]
          /\ sent'[Len(sent) + 1] = m
      BY <3>1, Appended
    <3>5. SetupComesFirst'
      BY <2>2, <3>1, <3>3, <3>4 DEF SetupInv, SetupComesFirst
    <3>6. QED
      BY <2>1, <3>5 DEF SetupInv
  <2>6. QED
    BY <1>2, <2>3, <2>4, <2>5, StepSends
<1>3. QED
  BY <1>1, <1>2

LEMMA InitSetup == Init => SetupInv
<1>1. Len(<< >>) = 0
  OBVIOUS
<1>2. QED
  BY <1>1 DEF Init, SetupInv, SetupComesFirst, StartUp, Early, Ended

\* The setup request comes first, is sent once and announces only functions
\* that have a subscription callback.
THEOREM SetupFirst == Spec => []SetupComesFirst
<1>1. SetupInv => SetupComesFirst
  BY DEF SetupInv
<1>2. QED
  BY <1>1, InitType, NextType, InitSetup, NextSetup, PTL DEF Spec

-----------------------------------------------------------------------------
(* Indications follow their own response. *)

\* While the callback reports, the last message that is not an indication is
\* the response with the callback's request ID.
ResponseSent ==
  phase \in Answering /\ peer = "open" =>
    \E j \in 1 .. Len(sent) : /\ IsResponse(sent[j]) /\ sent[j].req = sub.req
                              /\ \A k \in (j + 1) .. Len(sent) : IsIndication(sent[k])

ReportInv == IndicationsFollowTheirResponse /\ ResponseSent

LEMMA NextReport == TypeInv /\ ReportInv /\ [Next]_vars => ReportInv'
<1> SUFFICES ASSUME TypeInv, ReportInv, [Next]_vars PROVE ReportInv'
  OBVIOUS
<1>1. CASE UNCHANGED vars
  BY <1>1 DEF ReportInv, IndicationsFollowTheirResponse, ResponseSent, vars
<1>2. CASE SendsNothing
  BY <1>2 DEF ReportInv, IndicationsFollowTheirResponse, ResponseSent,
    SendsNothing, Answering, Early
<1>3. CASE SendsOne /\ SendsIndication
  <2> DEFINE m == Indication(sub.req, gFuncId, sub.action, <<line, item>>)
  <2>1. IsIndication(m) /\ m.req = sub.req
    BY DEF IsIndication, Indication
  <2>2. /\ Len(sent) \in Nat /\ Len(sent') = Len(sent) + 1
        /\ \A i \in 1 .. Len(sent) : sent'[i] = sent[i]
        /\ sent'[Len(sent) + 1] = m
    BY <1>3, Appended DEF SendsIndication
  <2> HIDE DEF m
  <2>3. PICK j \in 1 .. Len(sent) :
          /\ IsResponse(sent[j]) /\ sent[j].req = sub.req
          /\ \A k \in (j + 1) .. Len(sent) : IsIndication(sent[k])
    BY <1>3 DEF ReportInv, ResponseSent, SendsOne, SendsIndication, Answering
  <2>4. /\ j \in 1 .. Len(sent')
        /\ IsResponse(sent'[j]) /\ sent'[j].req = sub'.req
        /\ \A k \in (j + 1) .. Len(sent') : IsIndication(sent'[k])
    BY <1>3, <2>1, <2>2, <2>3 DEF SendsOne
  <2>5. IndicationsFollowTheirResponse'
    <3> SUFFICES ASSUME NEW i \in 1 .. Len(sent'), IsIndication(sent'[i])
                 PROVE  \E h \in 1 .. (i - 1) :
                          /\ IsResponse(sent'[h]) /\ sent'[h].req = sent'[i].req
                          /\ \A k \in (h + 1) .. i : IsIndication(sent'[k])
      BY DEF IndicationsFollowTheirResponse
    <3>1. CASE i = Len(sent')
      <4>1. j \in 1 .. (i - 1) /\ sub' = sub
        BY <1>3, <2>2, <3>1 DEF SendsOne
      <4>2. sent'[i].req = sub.req
        BY <2>1, <2>2, <3>1
      <4>3. QED
        BY <2>4, <3>1, <4>1, <4>2
    <3>2. CASE i # Len(sent')
      <4>1. i \in 1 .. Len(sent) /\ IsIndication(sent[i])
        BY <2>2, <3>2
      <4>2. PICK h \in 1 .. (i - 1) : /\ IsResponse(sent[h]) /\ sent[h].req = sent[i].req
                                      /\ \A k \in (h + 1) .. i : IsIndication(sent[k])
        BY <4>1 DEF ReportInv, IndicationsFollowTheirResponse
      <4>3. h \in 1 .. Len(sent) /\ \A k \in (h + 1) .. i : k \in 1 .. Len(sent)
        BY <2>2, <4>1, Within, Zenon
      <4>4. /\ sent'[h] = sent[h] /\ sent'[i] = sent[i]
            /\ \A k \in (h + 1) .. i : sent'[k] = sent[k]
        BY <2>2, <4>1, <4>3, Zenon
      <4>5. QED
        BY <4>2, <4>4, Zenon
    <3>3. QED
      BY <3>1, <3>2
  <2>6. QED
    BY <2>4, <2>5 DEF ReportInv, ResponseSent
<1>4. CASE SendsOne /\ ~SendsIndication
  <2>1. PICK m : /\ sent' = Append(sent, m) /\ ~IsIndication(m)
                 /\ phase' \in Answering => IsResponse(m) /\ m.req = sub'.req
    <3>1. \A r, x, y : LET m == SubscriptionResponse(r, x, y)
                       IN  ~IsIndication(m) /\ IsResponse(m) /\ m.req = r
      BY DEF IsIndication, IsResponse, SubscriptionResponse
    <3>2. \A fs : ~IsIndication(SetupRequest(fs))
      BY DEF IsIndication, SetupRequest
    <3>3. QED
      BY <1>4, <3>1, <3>2
      DEF SendsOne, SendsSetup, SendsResponse, SendsOther, Answering
  <2>2. /\ Len(sent) \in Nat /\ Len(sent') = Len(sent) + 1
        /\ \A i \in 1 .. Len(sent) : sent'[i] = sent[i]
        /\ sent'[Len(sent) + 1] = m
    BY <2>1, Appended
  <2>3. IndicationsFollowTheirResponse'
    BY <2>1, <2>2 DEF ReportInv, IndicationsFollowTheirResponse
  <2>4. ResponseSent'
    <3>1. \A k \in (Len(sent') + 1) .. Len(sent') : FALSE
      BY <2>2
    <3>2. Len(sent') \in 1 .. Len(sent')
      BY <2>2
    <3>3. QED
      BY <2>1, <2>2, <3>1, <3>2 DEF ResponseSent
  <2>5. QED
    BY <2>3, <2>4 DEF ReportInv
<1>5. QED
  BY <1>1, <1>2, <1>3, <1>4, StepSends

LEMMA InitReport == Init => ReportInv
<1>1. Len(<< >>) = 0
  OBVIOUS
<1>2. QED
  BY <1>1 DEF Init, ReportInv, IndicationsFollowTheirResponse, ResponseSent,
    Answering

\* Between an indication and the response with its request ID there are only
\* indications, however many subscriptions the agent serves.
THEOREM IndicationsInOrder == Spec => []IndicationsFollowTheirResponse
<1>1. ReportInv => IndicationsFollowTheirResponse
  BY DEF ReportInv
<1>2. QED
  BY <1>1, InitType, NextType, InitReport, NextReport, PTL DEF Spec

-----------------------------------------------------------------------------
(* The stop signal is obeyed promptly. *)

\* A PDU received late is the last one, and the loop will read the flag, which
\* is down for good, before it receives again.
StopInv ==
  \A i \in 1 .. Len(handled) :
    handled[i].late => i = Len(handled) /\ ~running /\ phase # "recv"

\* Only Receive adds a PDU, and only to a loop that has just read the flag.
LEMMA NextStop == TypeInv /\ StopInv /\ [Next]_vars => StopInv'
<1> SUFFICES ASSUME TypeInv, StopInv, [Next]_vars PROVE StopInv'
  OBVIOUS
<1>1. CASE UNCHANGED vars
  BY <1>1 DEF StopInv, vars, agentVars
<1>2. CASE Receive
  <2>1. \A i \in 1 .. Len(handled) : ~handled[i].late
    BY <1>2 DEF StopInv, Receive
  <2>2. CASE UNCHANGED handled
    BY <2>1, <2>2 DEF StopInv
  <2>3. CASE phase' = "dispatch"
    <3> DEFINE h == [pdu |-> Head(inbox), late |-> ~running,
                     called |-> FALSE, noFunction |-> FALSE]
    <3>1. handled' = Append(handled, h) /\ (h.late => ~running)
      BY <1>2, <2>3 DEF Receive
    <3> HIDE DEF h
    <3>2. handled \in Seq(Handling \cup {h}) /\ h \in Handling \cup {h}
      BY DEF TypeInv, TypeOK
    <3>3. /\ Len(handled) \in Nat /\ Len(handled') = Len(handled) + 1
          /\ \A i \in 1 .. Len(handled) : handled'[i] = handled[i]
          /\ handled'[Len(handled) + 1] = h
      BY <3>1, <3>2, AppendProperties, LenProperties
    <3>4. \A i \in 1 .. Len(handled') : handled'[i].late =>
            i = Len(handled') /\ ~running
      <4>1. \A i \in 1 .. Len(handled) : ~handled'[i].late
        BY <2>1, <3>3, Zenon
      <4>2. \A i \in 1 .. Len(handled') :
              i \in 1 .. Len(handled) \/ i = Len(handled) + 1
        BY <3>3
      <4>3. handled'[Len(handled) + 1].late => ~running
        BY <3>1, <3>3, Zenon
      <4>4. QED
        BY <3>3, <4>1, <4>2, <4>3, Zenon
    <3>5. running' = running
      BY <1>2 DEF Receive, agentVars
    <3>6. QED
      BY <2>3, <3>4, <3>5 DEF StopInv
  <2>4. QED
    BY <1>2, <2>2, <2>3 DEF Receive
<1>3. CASE HandleSubscriptionRequest \/ ReportOutOfRange
  <2> DEFINE n == Len(handled)
  <2>1. n \in 1 .. n /\ handled[n] \in Handling /\ handled \in Seq(Handling)
    BY <1>3, LastHandling
    DEF HandleSubscriptionRequest, Dispatch, ReportOutOfRange, Serving,
      TypeInv, TypeOK
  <2>2. PICK x \in Handling : /\ handled' = [handled EXCEPT ![n] = x]
                              /\ x.late = handled[n].late
    <3>1. \/ handled' = [handled EXCEPT ![n].called = TRUE]
          \/ handled' = [handled EXCEPT ![n].noFunction = TRUE]
      BY <1>3 DEF HandleSubscriptionRequest, CallSubscriptionCallback,
        NoSuchFunction, ReportOutOfRange
    <3> DEFINE h == handled[n]
    <3>2. /\ [h EXCEPT !.called = TRUE] \in Handling
          /\ [h EXCEPT !.noFunction = TRUE] \in Handling
          /\ [h EXCEPT !.called = TRUE].late = h.late
          /\ [h EXCEPT !.noFunction = TRUE].late = h.late
      BY <2>1 DEF Handling
    <3>3. QED
      BY <3>1, <3>2
  <2>3. Len(handled') = n /\ \A i \in 1 .. n : handled'[i].late = handled[i].late
    BY <2>1, <2>2, ExceptSeq
  <2>4. running' = running /\ phase' # "recv"
    BY <1>3 DEF HandleSubscriptionRequest, CallSubscriptionCallback,
      NoSuchFunction, ReportOutOfRange, AfterReports, agentVars
  <2> HIDE DEF n
  <2>5. QED
    BY <2>3, <2>4 DEF StopInv, n
<1>4. CASE CheckRunning
  BY <1>4 DEF CheckRunning, StopInv, agentVars
<1>5. CASE Signal
  BY <1>5 DEF Signal, StopInv
<1>6. CASE UNCHANGED <<handled, running>> /\ (phase' = "recv" => phase = "recv")
  BY <1>6 DEF StopInv
<1>7. ASSUME Next, ~(Receive \/ HandleSubscriptionRequest \/ ReportOutOfRange
                     \/ CheckRunning \/ Signal)
      PROVE  UNCHANGED <<handled, running>> /\ (phase' = "recv" => phase = "recv")
  BY <1>7 DEF Next, AgentStep, Environment, Register, Connect, SendSetup, Send,
    DecodeFails, HandleE2SetupRequest, SendOwnSubscription, HandleServiceQuery,
    LogOnly, SendSubscriptionResponse, OpenReports, ReadLine, EndOfReports,
    AfterReports, SendIndication, EndOfLine, ReportFatal, JoinConnector,
    ConnectorAborts, RicSends, RicEnds, TesterSendsLine, TesterEnds, agentVars, reportVars
<1>8. QED
  BY <1>1, <1>2, <1>3, <1>4, <1>5, <1>6, <1>7

LEMMA InitStop == Init => StopInv
<1>1. Len(<< >>) = 0
  OBVIOUS
<1>2. QED
  BY <1>1 DEF Init, StopInv

\* Once the stop signal has come, at most one more PDU is received.
THEOREM StopPromptly == Spec => []StopIsPrompt
<1>1. StopInv => StopIsPrompt
  BY DEF StopInv, StopIsPrompt
<1>2. QED
  BY <1>1, InitType, NextType, InitStop, NextStop, PTL DEF Spec
=============================================================================
