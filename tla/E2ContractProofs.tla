--------------------------- MODULE E2ContractProofs ---------------------------
(* E2Agent implements E2Contract, for all values of its constants.            *)
EXTENDS E2AgentProofs

-----------------------------------------------------------------------------
(* Sequences. *)

LEMMA ConsSeq ==
  ASSUME NEW S, NEW c \in S, NEW s \in Seq(S)
  PROVE  /\ << c >> \o s \in Seq(S) /\ << c >> \o s # << >>
         /\ Head(<< c >> \o s) = c /\ Tail(<< c >> \o s) = s
         /\ \A x \in S : << c >> \o Append(s, x) = Append(<< c >> \o s, x)
<1> DEFINE t == << c >> \o s
<1>1. << c >> \in Seq(S) /\ Len(<< c >>) = 1 /\ << c >>[1] = c
  OBVIOUS
<1>2. Len(s) \in Nat
  BY LenProperties
<1>3. /\ t \in Seq(S) /\ Len(t) = Len(s) + 1 /\ t[1] = c
      /\ \A i \in 1 .. Len(s) : t[i + 1] = s[i]
  <2>1. /\ t \in Seq(S) /\ Len(t) = 1 + Len(s)
        /\ \A i \in 1 .. 1 + Len(s) : t[i] = IF i <= 1 THEN << c >>[i] ELSE s[i - 1]
    BY <1>1, ConcatProperties
  <2> HIDE DEF t
  <2>2. t[1] = c
    BY <1>1, <1>2, <2>1
  <2>3. \A i \in 1 .. Len(s) : t[i + 1] = s[i]
    BY <1>2, <2>1
  <2>4. QED
    BY <1>2, <2>1, <2>2, <2>3
<1>4. \A x \in S : << c >> \o Append(s, x) = Append(t, x)
  <2> SUFFICES ASSUME NEW x \in S
               PROVE  << c >> \o Append(s, x) = Append(t, x)
    OBVIOUS
  <2>1. << x >> \in Seq(S)
    OBVIOUS
  <2>2. Append(s, x) = s \o << x >> /\ Append(t, x) = t \o << x >>
    BY <1>3, AppendIsConcat
  <2>3. (<< c >> \o s) \o << x >> = << c >> \o (s \o << x >>)
    BY <1>1, <2>1, ConcatAssociative
  <2>4. QED
    BY <2>2, <2>3
<1> HIDE DEF t
<1>5. t # << >>
  BY <1>2, <1>3, EmptySeq
<1>6. Head(t) = c
  BY <1>3
<1>7. Tail(t) = s
  <2>1. /\ Tail(t) \in Seq(S) /\ Len(Tail(t)) = Len(s)
        /\ \A i \in 1 .. Len(Tail(t)) : Tail(t)[i] = t[i + 1]
    BY <1>2, <1>3, <1>5, HeadTailProperties
  <2>2. \A i \in 1 .. Len(Tail(t)) : Tail(t)[i] = s[i]
    BY <1>3, <2>1
  <2>3. QED
    BY <2>1, <2>2, SeqEqual
<1>8. QED
  BY <1>3, <1>4, <1>5, <1>6, <1>7 DEF t

LEMMA HeadCons ==
  ASSUME NEW S, NEW s \in Seq(S), s # << >>
  PROVE  << Head(s) >> \o Tail(s) = s
<1>1. Len(s) \in Nat \ {0}
  BY EmptySeq
<1>2. SubSeq(s, 1, Len(s)) = << s[1] >> \o SubSeq(s, 2, Len(s))
  BY <1>1, SubSeqRecursiveFirst
<1>3. SubSeq(s, 1, Len(s)) = s /\ SubSeq(s, 2, Len(s)) = Tail(s) /\ Head(s) = s[1]
  BY SubSeqFull, TailIsSubSeq
<1>4. QED
  BY <1>2, <1>3

-----------------------------------------------------------------------------
(* What a step of the agent is to the contract. *)

InHand == {"dispatch", "callback"}
Todo == IF phase \in Ended THEN << >>
        ELSE IF phase \in InHand THEN << current >> \o inbox
        ELSE inbox

ContractStep == [Contract!Next]_(Contract!cvars)

LEMMA AsStutter ==
  ASSUME UNCHANGED <<peer, sent>>, Active' = Active, Todo' = Todo
  PROVE  ContractStep
BY DEF ContractStep, Contract!cvars, Todo, InHand

LEMMA AsStop ==
  ASSUME Active, ~Active', UNCHANGED <<peer, sent>>
  PROVE  ContractStep
BY DEF ContractStep, Contract!Next, Contract!Stop, Active

LEMMA AsArrive ==
  ASSUME Active, Active', peer = "open", NEW m \in RicPdus,
         Todo' = Append(Todo, m), UNCHANGED <<peer, sent>>
  PROVE  ContractStep
BY DEF ContractStep, Contract!Next, Contract!Arrive, Todo, InHand

LEMMA AsLose ==
  ASSUME Active, Active', peer = "open", peer' \in {"closed", "aborted"},
         Todo' = Todo, UNCHANGED sent
  PROVE  ContractStep
<1>1. Contract!Lose
  BY DEF Contract!Lose, Todo, InHand
<1>2. QED
  BY <1>1 DEF ContractStep, Contract!Next

LEMMA AsAnswer ==
  ASSUME Active, Active', peer = "open", Todo # << >>, Todo' = Tail(Todo),
         sent # << >>, IsSetup(sent[1]),
         NEW a \in Contract!Answers(Head(Todo)), sent' = Append(sent, a), UNCHANGED peer
  PROVE  ContractStep
BY DEF ContractStep, Contract!Next, Contract!Deal, Todo, InHand, IsSetup, Contract!IsSetup

LEMMA AsIgnore ==
  ASSUME Active, Active', Todo # << >>, Todo' = Tail(Todo),
         Contract!MayIgnore(Head(Todo)) \/ peer # "open", UNCHANGED <<peer, sent>>
  PROVE  ContractStep
BY DEF ContractStep, Contract!Next, Contract!Deal, Todo, InHand

LEMMA AsContinue ==
  ASSUME TypeInv, Active, Active', peer = "open", Todo' = Todo, sent # << >>,
         NEW m, sent' = Append(sent, m), Contract!FollowsOn(sent[Len(sent)], m), UNCHANGED peer
  PROVE  ContractStep
<1>1. Len(sent') = Len(sent) + 1 /\ sent'[Len(sent')] = m
  BY Appended
<1>2. QED
  BY <1>1 DEF ContractStep, Contract!Next, Contract!Continue, Todo, InHand
-----------------------------------------------------------------------------
(* What the contract allows, in the agent's terms. *)

LEMMA Requests1 ==
  /\ Contract!SubscriptionRequests = SubscriptionRequests
  /\ \A r, f, a : Contract!SubscriptionRequest(r, f, a) = SubscriptionRequest(r, f, a)
  /\ \A m : Contract!RequestIdsRead(m) = RequestIdsRead(m)
  /\ \A s : /\ Contract!Admitted(s) = Admitted(s) /\ Contract!Rejected(s) = Rejected(s)
  /\ \A p, k : Contract!Plain(p, k) = Plain(p, k)
BY DEF Contract!SubscriptionRequests, SubscriptionRequests, Contract!SubscriptionRequest,
  SubscriptionRequest, Contract!RequestIdsRead, RequestIdsRead, Contract!Admitted, Admitted,
  Contract!Rejected, Rejected, Contract!FirstReport, FirstReport, Contract!Plain, Plain,
  Contract!Details, Details, Contract!Actions, Actions, Contract!ActionTypes, ActionTypes

LEMMA Distinct ==
  /\ Plain("E2setup", "initiating") # Plain("RICserviceQuery", "initiating")
  /\ \A m \in SubscriptionRequests : m.proc = "RICsubscription" /\ m.kind = "initiating"
  /\ \A p, k : Plain(p, k).proc = p /\ Plain(p, k).kind = k
BY DEF Plain, SubscriptionRequests

LEMMA AnswersSetup ==
  SetupResponse \in Contract!Answers(Plain("E2setup", "initiating"))
<1>1. Contract!Plain("E2setup", "initiating") = Plain("E2setup", "initiating")
  BY Requests1
<1>2. Contract!Answers(Plain("E2setup", "initiating")) = {Contract!SetupResponse}
  BY <1>1, Requests1, Distinct DEF Contract!Answers
<1>3. SetupResponse = Contract!SetupResponse
  BY DEF SetupResponse, Contract!SetupResponse, Plain, Contract!Plain
<1>4. QED
  BY <1>2, <1>3

LEMMA AnswersQuery ==
  ASSUME NEW fs \in SUBSET FunctionIds
  PROVE  ServiceUpdate(fs) \in Contract!Answers(Plain("RICserviceQuery", "initiating"))
<1>1. Plain("RICserviceQuery", "initiating") \notin SubscriptionRequests
  BY Distinct
<1>2. Contract!Answers(Plain("RICserviceQuery", "initiating"))
        = {Contract!ServiceUpdate(gs) : gs \in SUBSET FunctionIds}
  BY <1>1, Distinct, Requests1 DEF Contract!Answers
<1>3. ServiceUpdate(fs) = Contract!ServiceUpdate(fs)
  BY DEF ServiceUpdate, Contract!ServiceUpdate
<1>4. QED
  BY <1>2, <1>3

LEMMA AnswersRequest ==
  ASSUME NEW m \in SubscriptionRequests, NEW r \in RequestIdsRead(m) \cap RequestIds
  PROVE  SubscriptionResponse(r, Admitted(m.details), Rejected(m.details))
           \in Contract!Answers(m)
<1>1. m # Plain("E2setup", "initiating") /\ m # Plain("RICserviceQuery", "initiating")
  BY Distinct
<1>2. Contract!Answers(m)
        = {Contract!SubscriptionResponse(q, Admitted(m.details), Rejected(m.details)) :
             q \in RequestIdsRead(m) \cap RequestIds}
  BY <1>1, Requests1 DEF Contract!Answers
<1>3. \A q, x, y : SubscriptionResponse(q, x, y) = Contract!SubscriptionResponse(q, x, y)
  BY DEF SubscriptionResponse, Contract!SubscriptionResponse
<1>4. QED
  BY <1>2, <1>3

LEMMA IgnoresRequest ==
  ASSUME NEW m \in SubscriptionRequests
  PROVE  Contract!MayIgnore(m)
BY Requests1 DEF Contract!MayIgnore

LEMMA IgnoresPlain ==
  ASSUME NEW m \in PlainPdus, m \notin {Plain("E2setup", "initiating"),
                                        Plain("RICserviceQuery", "initiating")}
  PROVE  Contract!MayIgnore(m)
<1>1. m \notin SubscriptionRequests
  BY Distinct DEF PlainPdus, PlainProcs
<1>2. Contract!Answers(m) = {}
  BY <1>1, Requests1 DEF Contract!Answers
<1>3. QED
  BY <1>2 DEF Contract!MayIgnore

\* A PDU is known by its procedure and its kind, unless it is a subscription
\* request.
LEMMA KnownPlain ==
  ASSUME NEW m \in PeerPdus, NEW p \in PlainProcs, NEW k, m.proc = p, m.kind = k
  PROVE  m = Plain(p, k)
<1>1. m \notin SubscriptionRequests /\ p # "RICsubscription"
  BY Distinct DEF PlainProcs
<1>2. m \in [proc : PlainProcs, kind : Kinds]
  BY <1>1 DEF PeerPdus, PlainPdus
<1>3. QED
  BY <1>2 DEF Plain
-----------------------------------------------------------------------------
(* The PDU in hand. *)

LEMMA TodoInHand ==
  ASSUME TypeInv, phase \in InHand
  PROVE  /\ Active /\ current \in PeerPdus
         /\ Todo = << current >> \o inbox /\ Todo # << >>
         /\ Head(Todo) = current /\ Tail(Todo) = inbox
         /\ \A m \in PeerPdus : << current >> \o Append(inbox, m) = Append(Todo, m)
<1>1. current \in PeerPdus /\ inbox \in Seq(PeerPdus)
  BY LastHandling DEF InHand, Serving, TypeInv, TypeOK
<1>2. Active /\ Todo = << current >> \o inbox
  BY DEF InHand, Active, Ended, Todo
<1>3. QED
  BY <1>1, <1>2, ConsSeq

LEMMA Dealt ==
  ASSUME TypeInv, phase \in InHand, phase' \notin InHand \cup Ended, UNCHANGED inbox
  PROVE  Active' /\ Todo' = Tail(Todo)
<1>1. Active' /\ Todo' = inbox
  BY DEF InHand, Active, Ended, Todo
<1>2. QED
  BY <1>1, TodoInHand

\* The first message is the setup request, once the loop runs.
LEMMA Introduced ==
  ASSUME TypeInv, SetupInv, peer = "open", phase \notin Early \cup Ended
  PROVE  sent # << >> /\ IsSetup(sent[1])
<1>1. sent # << >>
  BY DEF SetupInv, StartUp
<1>2. Len(sent) \in 1 .. Len(sent)
  BY <1>1, LastOfSeq DEF TypeInv, TypeOK
<1>3. 1 \in 1 .. Len(sent)
  BY <1>2
<1>4. QED
  BY <1>1, <1>3 DEF SetupInv, SetupComesFirst

LEMMA AnswerIsSent ==
  ASSUME TypeInv, SetupInv, phase \in InHand, NEW a \in Contract!Answers(current),
         NEW next, next \notin InHand \cup Ended, Send(a, next), UNCHANGED <<peer, inbox>>
  PROVE  ContractStep
<1>1. CASE peer = "open"
  <2>1. sent' = Append(sent, a) /\ phase' = next
    BY <1>1 DEF Send
  <2>2. sent # << >> /\ IsSetup(sent[1])
    BY <1>1, Introduced DEF InHand, Early, Ended
  <2>3. QED
    BY <1>1, <2>1, <2>2, TodoInHand, Dealt, AsAnswer
<1>2. CASE peer # "open" /\ phase' = next
  BY <1>2, TodoInHand, Dealt, AsIgnore DEF Send
<1>3. CASE peer # "open" /\ phase' = "exited"
  BY <1>3, TodoInHand, AsStop DEF Send, Active, Ended
<1>4. QED
  BY <1>1, <1>2, <1>3 DEF Send

LEMMA IsIgnored ==
  ASSUME TypeInv, phase \in InHand, Contract!MayIgnore(current),
         phase' \notin InHand \cup Ended, UNCHANGED <<inbox, peer, sent>>
  PROVE  ContractStep
BY TodoInHand, Dealt, AsIgnore

\* A step of the report loop, or of the library's own request, that sends m.
LEMMA NextIsSent ==
  ASSUME TypeInv, SetupInv, phase \notin InHand \cup Ended \cup Early, NEW m,
         peer = "open" => Contract!FollowsOn(sent[Len(sent)], m),
         NEW next, next \notin InHand \cup Ended, Send(m, next), UNCHANGED <<peer, inbox>>
  PROVE  ContractStep
<1>1. Active
  BY DEF Active
<1>2. CASE phase' = next
  <2>1. Active' /\ Todo' = Todo
    BY <1>2 DEF Active, Todo
  <2>2. CASE peer = "open"
    BY <1>1, <2>1, <2>2, Introduced, AsContinue DEF Send
  <2>3. CASE peer # "open"
    BY <1>1, <2>1, <2>3, AsStutter DEF Send
  <2>4. QED
    BY <2>2, <2>3
<1>3. CASE phase' = "exited" /\ peer # "open"
  BY <1>1, <1>3, AsStop DEF Send, Active, Ended
<1>4. QED
  BY <1>2, <1>3 DEF Send
-----------------------------------------------------------------------------
(* What the agent remembers between the steps of one answer. *)

Unassociated == phase \in {"main", "start"} => peer = "none"

\* The callback works for the request in hand.
Requested ==
  phase = "callback" =>
    /\ current \in SubscriptionRequests
    /\ sub.req \in RequestIdsRead(current) /\ sub.details = current.details

\* The message that the next one continues.
Answered(m) == IsResponse(m) /\ m.req = sub.req
Reported(m) == /\ IsIndication(m) /\ m.req = sub.req /\ m.action = sub.action
               /\ m.report \in Reports /\ Contract!Earlier(m.report, <<line, item>>)
LastSent ==
  peer = "open" =>
    /\ phase = "sleep" => sent[Len(sent)] = SetupResponse
    /\ phase = "open" => Answered(sent[Len(sent)])
    /\ phase \in {"reading", "reporting"} =>
         Answered(sent[Len(sent)]) \/ Reported(sent[Len(sent)])

LinkInv == Unassociated /\ Requested /\ LastSent

LEMMA NextUnassociated == TypeInv /\ Unassociated /\ [Next]_vars => Unassociated'
<1> SUFFICES ASSUME TypeInv, Unassociated, [Next]_vars PROVE Unassociated'
  OBVIOUS
<1>1. CASE UNCHANGED vars
  BY <1>1 DEF vars, Unassociated
<1>2. CASE ReadLine
  <2>1. phase' \in {"exited", "reading", "reporting"}
    BY <1>2 DEF ReadLine
  <2>2. QED
    BY <2>1 DEF Unassociated
<1>3. CASE Next /\ ~ReadLine
  BY <1>3 DEF Unassociated, Next, AgentStep, Environment, Register, Connect, SendSetup, Send,
    CheckRunning, Receive, DecodeFails, HandleE2SetupRequest, SendOwnSubscription,
    HandleServiceQuery, LogOnly, HandleSubscriptionRequest, CallSubscriptionCallback,
    NoSuchFunction, SendSubscriptionResponse, OpenReports, EndOfReports, AfterReports,
    SendIndication, EndOfLine, ReportOutOfRange, ReportFatal, JoinConnector, ConnectorAborts,
    RicSends, RicEnds, Signal, TesterSendsLine, TesterEnds
<1>4. QED
  BY <1>1, <1>2, <1>3

\* Marking the PDU in hand leaves it what it is.
LEMMA MarkedCurrent ==
  ASSUME TypeInv, phase \in Serving,
         \/ handled' = [handled EXCEPT ![Len(handled)].called = TRUE]
         \/ handled' = [handled EXCEPT ![Len(handled)].noFunction = TRUE]
  PROVE  current' = current
<1> DEFINE n == Len(handled)  h == handled[n]
<1>1. n \in 1 .. n /\ h \in Handling /\ handled \in Seq(Handling)
  BY LastHandling DEF TypeInv, TypeOK
<1>2. /\ [h EXCEPT !.called = TRUE] \in Handling
      /\ [h EXCEPT !.noFunction = TRUE] \in Handling
      /\ [h EXCEPT !.called = TRUE].pdu = h.pdu
      /\ [h EXCEPT !.noFunction = TRUE].pdu = h.pdu
  BY <1>1 DEF Handling
<1>3. PICK x \in Handling : handled' = [handled EXCEPT ![n] = x] /\ x.pdu = h.pdu
  BY <1>2
<1>4. Len(handled') = n /\ handled'[n].pdu = h.pdu
  BY <1>1, <1>3, ExceptSeq
<1>5. QED
  BY <1>4 DEF current

LEMMA NextRequested == TypeInv /\ Requested /\ [Next]_vars => Requested'
<1> SUFFICES ASSUME TypeInv, Requested, [Next]_vars PROVE Requested'
  OBVIOUS
<1>1. CASE UNCHANGED vars
  BY <1>1 DEF vars, Requested, current
<1>2. CASE ReadLine
  <2>1. phase' \in {"exited", "reading", "reporting"}
    BY <1>2 DEF ReadLine
  <2>2. QED
    BY <2>1 DEF Requested
<1>3. CASE HandleSubscriptionRequest
  <2>1. phase = "dispatch" /\ current \in SubscriptionRequests
    BY <1>3, LastHandling, DispatchedRequest DEF HandleSubscriptionRequest, Dispatch, Serving
  <2>2. PICK f : CallSubscriptionCallback(f) \/ NoSuchFunction(f)
    BY <1>3 DEF HandleSubscriptionRequest
  <2>3. CASE CallSubscriptionCallback(f)
    <3>1. current' = current
      BY <2>1, <2>3, MarkedCurrent DEF CallSubscriptionCallback, Serving
    <3>2. PICK r \in RequestIdsRead(current) :
            \E a \in ActionIdsRead(current.details) :
              sub' = [req |-> r, details |-> current.details, action |-> a]
      BY <2>3 DEF CallSubscriptionCallback
    <3>3. PICK a \in ActionIdsRead(current.details) :
            sub' = [req |-> r, details |-> current.details, action |-> a]
      BY <3>2
    <3>4. QED
      BY <2>1, <3>1, <3>2, <3>3 DEF Requested
  <2>4. CASE NoSuchFunction(f)
    BY <2>4 DEF NoSuchFunction, Requested
  <2>5. QED
    BY <2>2, <2>3, <2>4
<1>4. CASE RicSends \/ RicEnds \/ Signal
  BY <1>4 DEF RicSends, RicEnds, Signal, Requested, current
<1>5. CASE Next /\ ~(ReadLine \/ HandleSubscriptionRequest \/ RicSends \/ RicEnds \/ Signal)
  <2>1. phase' # "callback"
    BY <1>5 DEF Next, AgentStep, Environment, Register, Connect, SendSetup, Send,
      CheckRunning, Receive, DecodeFails, HandleE2SetupRequest, SendOwnSubscription,
      HandleServiceQuery, LogOnly, SendSubscriptionResponse, OpenReports, EndOfReports,
      AfterReports, SendIndication, EndOfLine, ReportOutOfRange, ReportFatal, JoinConnector,
      ConnectorAborts, TesterSendsLine, TesterEnds, Feeding
  <2>2. QED
    BY <2>1 DEF Requested
<1>6. QED
  BY <1>1, <1>2, <1>3, <1>4, <1>5
\* A step that sends nothing and begins nothing.
LEMMA QuietLast ==
  ASSUME LastSent, UNCHANGED <<sent, sub, line, item>>, peer' = "open" => peer = "open",
         \/ phase' = phase
         \/ phase' = "reading" /\ phase \in {"open", "reporting"}
         \/ phase' \notin {"sleep", "open", "reading", "reporting"}
  PROVE  LastSent'
BY DEF LastSent, Answered, Reported

LEMMA NextLast == TypeInv /\ LastSent /\ [Next]_vars => LastSent'
<1> SUFFICES ASSUME TypeInv, LastSent, [Next]_vars PROVE LastSent'
  OBVIOUS
<1>0. line \in Nat /\ item \in Nat
  BY LenProperties DEF TypeInv, TypeOK
<1>1. CASE UNCHANGED vars
  BY <1>1, QuietLast DEF vars, reportVars
<1>2. CASE HandleE2SetupRequest
  <2>1. CASE peer = "open"
    <3>1. sent' = Append(sent, SetupResponse) /\ phase' = "sleep"
      BY <1>2, <2>1 DEF HandleE2SetupRequest, Send
    <3>2. sent'[Len(sent')] = SetupResponse
      BY <3>1, Appended
    <3>3. QED
      BY <3>1, <3>2 DEF LastSent
  <2>2. CASE peer # "open"
    BY <1>2, <2>2 DEF HandleE2SetupRequest, LastSent
  <2>3. QED
    BY <2>1, <2>2
<1>3. CASE SendSubscriptionResponse
  <2>1. CASE peer = "open" /\ phase' # "exited"
    <3> DEFINE m == SubscriptionResponse(sub.req, Admitted(sub.details), Rejected(sub.details))
    <3>1. sent' = Append(sent, m) /\ phase' = "open" /\ sub' = sub
      BY <1>3, <2>1 DEF SendSubscriptionResponse, Send
    <3>2. IsResponse(m) /\ m.req = sub.req
      BY DEF SubscriptionResponse, IsResponse
    <3> HIDE DEF m
    <3>3. sent'[Len(sent')] = m
      BY <3>1, Appended
    <3>4. QED
      BY <3>1, <3>2, <3>3 DEF LastSent, Answered
  <2>2. CASE peer # "open" \/ phase' = "exited"
    BY <1>3, <2>2 DEF SendSubscriptionResponse, LastSent
  <2>3. QED
    BY <2>1, <2>2
<1>4. CASE OpenReports
  BY <1>4 DEF OpenReports, LastSent, Answered
<1>5. CASE ReadLine
  <2>1. /\ phase = "reading" /\ phase' \in {"exited", "reading", "reporting"}
        /\ line' = line + 1 /\ item' = 1 /\ UNCHANGED <<sub, sent, peer>>
    BY <1>5 DEF ReadLine
  <2>2. \A m : Reported(m) => Contract!Earlier(m.report, <<line', item'>>)
    BY <1>0, <2>1 DEF Reported, Reports, Contract!Earlier
  <2>3. \A m : Reported(m) => Reported(m)'
    BY <2>1, <2>2 DEF Reported
  <2>4. \A m : Answered(m) => Answered(m)'
    BY <2>1 DEF Answered
  <2>5. sent'[Len(sent')] = sent[Len(sent)]
    BY <2>1
  <2>6. QED
    BY <2>1, <2>3, <2>4, <2>5 DEF LastSent
<1>6. CASE SendIndication
  <2>1. CASE peer = "open"
    <3>0. PICK m : m = Indication(sub.req, gFuncId, sub.action, <<line, item>>)
      OBVIOUS
    <3>1. /\ sent' = Append(sent, m) /\ phase' = "reporting" /\ sub' = sub
          /\ line' = line /\ item' = item + 1
      BY <1>6, <2>1, <3>0 DEF SendIndication, Send
    <3>2. IsIndication(m) /\ m.req = sub.req /\ m.action = sub.action /\ m.report = <<line, item>>
      BY <3>0 DEF Indication, IsIndication
    <3>3. sent'[Len(sent')] = m
      BY <3>1, Appended
    <3>4. m.report \in Reports /\ Contract!Earlier(m.report, <<line', item'>>)
      BY <1>0, <3>1, <3>2 DEF Reports, Contract!Earlier
    <3>5. Reported(m)'
      BY <3>1, <3>2, <3>4 DEF Reported
    <3>6. QED
      BY <3>1, <3>3, <3>5 DEF LastSent
  <2>2. CASE peer # "open"
    BY <1>6, <2>2 DEF SendIndication, LastSent
  <2>3. QED
    BY <2>1, <2>2
<1>7. CASE EndOfLine \/ RicSends \/ RicEnds \/ TesterSendsLine \/ TesterEnds \/ Signal
  BY <1>7, QuietLast DEF EndOfLine, RicSends, RicEnds, TesterSendsLine, TesterEnds, Signal,
    agentVars, reportVars
<1>8. CASE Next /\ ~(HandleE2SetupRequest \/ SendSubscriptionResponse \/ OpenReports \/ ReadLine
                     \/ SendIndication \/ EndOfLine \/ RicSends \/ RicEnds \/ TesterSendsLine
                     \/ TesterEnds \/ Signal)
  <2>1. phase' \notin {"sleep", "open", "reading", "reporting"}
    BY <1>8 DEF Next, AgentStep, Environment, Register, Connect, SendSetup, Send,
      CheckRunning, Receive, DecodeFails, SendOwnSubscription, HandleServiceQuery, LogOnly,
      HandleSubscriptionRequest, CallSubscriptionCallback, NoSuchFunction, EndOfReports,
      AfterReports, ReportOutOfRange, ReportFatal, JoinConnector, ConnectorAborts
  <2>2. QED
    BY <2>1 DEF LastSent
<1>9. QED
  BY <1>1, <1>2, <1>3, <1>4, <1>5, <1>6, <1>7, <1>8

LEMMA InitLink == Init => LinkInv
BY DEF Init, LinkInv, Unassociated, Requested, LastSent

LEMMA NextLink == TypeInv /\ LinkInv /\ [Next]_vars => LinkInv'
BY NextUnassociated, NextRequested, NextLast DEF LinkInv
-----------------------------------------------------------------------------
(* Every step is one of the contract, or none. *)

\* A step within the process.
LEMMA InnerStep ==
  ASSUME Active, Active', phase \notin InHand, phase' \notin InHand,
         UNCHANGED <<inbox, peer, sent>>
  PROVE  ContractStep
<1>1. Todo' = Todo
  BY DEF Todo, Active
<1>2. QED
  BY <1>1, AsStutter

LEMMA StartStep ==
  ASSUME TypeInv, SetupInv, LinkInv, Register \/ Connect \/ SendSetup
  PROVE  ContractStep
<1>1. CASE Register
  BY <1>1, InnerStep DEF Register, Active, Ended, InHand
<1>2. CASE Connect
  <2>1. CASE phase' = "exited"
    BY <1>2, <2>1, AsStop DEF Connect, Active, Ended
  <2>2. CASE phase' = "connected" /\ peer' = "open"
    <3>1. Active /\ Active' /\ peer = "none" /\ Todo' = Todo
      BY <1>2, <2>2 DEF Connect, Active, Ended, Todo, InHand, LinkInv, Unassociated
    <3>2. Contract!Associate
      BY <1>2, <2>2, <3>1 DEF Connect, Contract!Associate, Todo, InHand
    <3>3. QED
      BY <3>2 DEF ContractStep, Contract!Next
  <2>3. QED
    BY <1>2, <2>1, <2>2 DEF Connect
<1>3. CASE SendSetup
  <2>1. CASE phase' = "exited"
    BY <1>3, <2>1, AsStop DEF SendSetup, Send, Active, Ended
  <2>2. CASE phase' = "loop" /\ peer # "open"
    BY <1>3, <2>2, InnerStep DEF SendSetup, Send, Active, Ended, InHand
  <2>3. CASE phase' = "loop" /\ peer = "open"
    <3> DEFINE fs == ran_functions_registered
    <3>1. sent' = Append(sent, SetupRequest(fs)) /\ sent = << >> /\ UNCHANGED <<peer, inbox>>
      BY <1>3, <2>3 DEF SendSetup, Send, SetupInv, StartUp, Early
    <3>2. fs \in SUBSET FunctionIds
      BY DEF TypeInv, TypeOK
    <3>3. Active /\ Active' /\ Todo' = Todo
      BY <1>3, <2>3 DEF SendSetup, Active, Ended, Todo, InHand
    <3>4. SetupRequest(fs) = Contract!SetupRequest(fs)
      BY DEF SetupRequest, Contract!SetupRequest
    <3>5. sent' = << Contract!SetupRequest(fs) >>
      BY <3>1, <3>4
    <3>6. Contract!Introduce
      BY <2>3, <3>1, <3>2, <3>3, <3>5 DEF Contract!Introduce, Todo, InHand
    <3>7. QED
      BY <3>6 DEF ContractStep, Contract!Next
  <2>4. QED
    BY <1>3, <2>1, <2>2, <2>3 DEF SendSetup, Send
<1>4. QED
  BY <1>1, <1>2, <1>3

LEMMA ReceiveStep ==
  ASSUME TypeInv, Receive
  PROVE  ContractStep
<1>1. CASE inbox # << >> /\ phase' = "dispatch"
  <2> DEFINE h == [pdu |-> Head(inbox), late |-> ~running, called |-> FALSE, noFunction |-> FALSE]
  <2>1. inbox \in Seq(PeerPdus) /\ handled \in Seq(Handling)
    BY DEF TypeInv, TypeOK
  <2>2. inbox' = Tail(inbox) /\ handled' = Append(handled, h) /\ UNCHANGED <<peer, sent>>
    BY <1>1 DEF Receive
  <2>3. h \in Handling /\ h.pdu = Head(inbox)
    BY <1>1, <2>1, HeadTailProperties DEF Handling, TypeInv, TypeOK
  <2> HIDE DEF h
  <2>4. handled'[Len(handled')] = h
    BY <2>1, <2>2, <2>3, AppendProperties
  <2>5. current' = Head(inbox)
    BY <2>3, <2>4 DEF current
  <2>6. Todo' = << Head(inbox) >> \o Tail(inbox)
    BY <1>1, <2>2, <2>5 DEF Todo, Ended, InHand
  <2>7. Todo = inbox /\ Active /\ Active'
    BY <1>1 DEF Receive, Todo, Active, Ended, InHand
  <2>8. Todo' = Todo
    BY <1>1, <2>1, <2>6, <2>7, HeadCons
  <2>9. QED
    BY <2>2, <2>7, <2>8, AsStutter
<1>2. CASE phase' \in {"returned", "exited"}
  BY <1>2, AsStop DEF Receive, Active, Ended
<1>3. QED
  BY <1>1, <1>2 DEF Receive

LEMMA DispatchStep ==
  ASSUME TypeInv, SetupInv,
         DecodeFails \/ HandleE2SetupRequest \/ HandleServiceQuery \/ LogOnly
           \/ HandleSubscriptionRequest
  PROVE  ContractStep
<1>0. phase = "dispatch" /\ phase \in InHand /\ current \in PeerPdus
  BY TodoInHand DEF DecodeFails, HandleE2SetupRequest, HandleServiceQuery, LogOnly,
    HandleSubscriptionRequest, Dispatch, InHand
<1>1. CASE DecodeFails
  BY <1>1, AsStop DEF DecodeFails, Active, Ended
<1>2. CASE HandleE2SetupRequest
  <2>1. current = Plain("E2setup", "initiating")
    BY <1>0, <1>2, KnownPlain DEF HandleE2SetupRequest, Dispatch, PlainProcs
  <2>2. SetupResponse \in Contract!Answers(current)
    BY <2>1, AnswersSetup
  <2>3. QED
    BY <1>0, <1>2, <2>2, AnswerIsSent DEF HandleE2SetupRequest, InHand, Ended
<1>3. CASE HandleServiceQuery
  <2>1. current = Plain("RICserviceQuery", "initiating")
    BY <1>0, <1>3, KnownPlain DEF HandleServiceQuery, Dispatch, PlainProcs
  <2>2. ServiceUpdate(ran_functions_registered) \in Contract!Answers(current)
    BY <2>1, AnswersQuery DEF TypeInv, TypeOK
  <2>3. CASE Send(ServiceUpdate(ran_functions_registered), "loop")
    BY <1>0, <1>3, <2>2, <2>3, AnswerIsSent DEF HandleServiceQuery, InHand, Ended
  <2>4. CASE phase' = "exited" /\ UNCHANGED sent
    BY <1>0, <1>3, <2>4, AsStop DEF HandleServiceQuery, Active, Ended
  <2>5. QED
    BY <1>3, <2>3, <2>4 DEF HandleServiceQuery
<1>4. CASE LogOnly
  <2>1. Contract!MayIgnore(current)
    BY <1>4, IgnoresPlain DEF LogOnly
  <2>2. QED
    BY <1>0, <1>4, <2>1, IsIgnored DEF LogOnly, InHand, Ended
<1>5. CASE HandleSubscriptionRequest
  <2>1. current \in SubscriptionRequests
    BY <1>0, <1>5, DispatchedRequest DEF HandleSubscriptionRequest, Dispatch
  <2>2. PICK f : CallSubscriptionCallback(f) \/ NoSuchFunction(f)
    BY <1>5 DEF HandleSubscriptionRequest
  <2>3. UNCHANGED <<inbox, peer, sent>>
    BY <1>5 DEF HandleSubscriptionRequest
  <2>4. CASE CallSubscriptionCallback(f)
    <3>1. current' = current /\ phase' = "callback"
      BY <1>0, <2>4, MarkedCurrent DEF CallSubscriptionCallback, Serving
    <3>2. Active /\ Active' /\ Todo' = Todo
      BY <1>0, <2>3, <3>1 DEF Active, Ended, Todo, InHand
    <3>3. QED
      BY <2>3, <3>2, AsStutter
  <2>5. CASE NoSuchFunction(f)
    <3>1. phase' = "loop" /\ Contract!MayIgnore(current)
      BY <2>1, <2>5, IgnoresRequest DEF NoSuchFunction
    <3>2. QED
      BY <1>0, <2>3, <3>1, IsIgnored DEF InHand, Ended
  <2>6. QED
    BY <2>2, <2>4, <2>5
<1>6. QED
  BY <1>1, <1>2, <1>3, <1>4, <1>5

LEMMA ResponseStep ==
  ASSUME TypeInv, SetupInv, LinkInv, SendSubscriptionResponse
  PROVE  ContractStep
<1> DEFINE a == SubscriptionResponse(sub.req, Admitted(sub.details), Rejected(sub.details))
<1>1. phase = "callback" /\ phase \in InHand /\ UNCHANGED <<peer, inbox>>
  BY DEF SendSubscriptionResponse, InHand
<1>2. CanAnswer(sub.req, sub.details) => a \in Contract!Answers(current)
  <2> SUFFICES ASSUME CanAnswer(sub.req, sub.details) PROVE a \in Contract!Answers(current)
    OBVIOUS
  <2>1. sub.req \in RequestIds
    BY DEF CanAnswer, TypeInv, TypeOK
  <2>2. /\ current \in SubscriptionRequests /\ sub.req \in RequestIdsRead(current) \cap RequestIds
        /\ sub.details = current.details
    BY <1>1, <2>1 DEF LinkInv, Requested
  <2>3. QED
    BY <2>2, AnswersRequest
<1> HIDE DEF a
<1>3. CASE Send(a, "open") /\ CanAnswer(sub.req, sub.details)
  BY <1>1, <1>2, <1>3, AnswerIsSent DEF InHand, Ended
<1>4. CASE phase' = "exited" /\ UNCHANGED sent
  BY <1>1, <1>4, AsStop DEF Active, Ended
<1>5. QED
  BY <1>3, <1>4 DEF SendSubscriptionResponse, a

LEMMA ContinuationStep ==
  ASSUME TypeInv, SetupInv, LinkInv, SendOwnSubscription \/ SendIndication
  PROVE  ContractStep
<1>1. CASE SendOwnSubscription
  <2> DEFINE m == OwnSubscriptionRequest(OwnRequestId, OwnActionId)
  <2>1. m \in SubscriptionRequests
    <3> DEFINE ds == << << [id |-> OwnActionId, type |-> "report"] >> >>
    <3>1. ds \in Seq(Details)
      BY OwnDetailsType
    <3>2. QED
      BY <3>1, AgentAssumption
      DEF OwnSubscriptionRequest, SubscriptionRequest, SubscriptionRequests
  <2>2. SetupResponse = Contract!SetupResponse
    BY DEF SetupResponse, Contract!SetupResponse, Plain, Contract!Plain
  <2>3. phase = "sleep" /\ Send(m, "loop") /\ UNCHANGED <<peer, inbox>>
    BY <1>1 DEF SendOwnSubscription
  <2> HIDE DEF m
  <2>4. peer = "open" => Contract!FollowsOn(sent[Len(sent)], m)
    BY <2>1, <2>2, <2>3, Requests1 DEF LinkInv, LastSent, Contract!FollowsOn
  <2>5. QED
    BY <2>3, <2>4, NextIsSent DEF InHand, Ended, Early
<1>2. CASE SendIndication
  <2> DEFINE m == Indication(sub.req, gFuncId, sub.action, <<line, item>>)
  <2>1. /\ IsIndication(m) /\ m.req = sub.req /\ m.action = sub.action
        /\ m.report = <<line, item>>
    BY DEF Indication, IsIndication
  <2>2. phase = "reporting" /\ Send(m, "reporting") /\ UNCHANGED <<peer, inbox>>
    BY <1>2 DEF SendIndication
  <2>3. \A x : /\ IsIndication(x) <=> Contract!IsIndication(x)
               /\ IsResponse(x) <=> Contract!IsResponse(x)
    BY DEF IsIndication, IsResponse, Contract!IsIndication, Contract!IsResponse
  <2> HIDE DEF m
  <2>4. peer = "open" => Answered(sent[Len(sent)]) \/ Reported(sent[Len(sent)])
    BY <2>2 DEF LinkInv, LastSent
  <2>5. peer = "open" => Contract!FollowsOn(sent[Len(sent)], m)
    BY <2>1, <2>3, <2>4 DEF Contract!FollowsOn, Answered, Reported
  <2>6. QED
    BY <2>2, <2>5, NextIsSent DEF InHand, Ended, Early
<1>3. QED
  BY <1>1, <1>2

\* The steps that send nothing to the RIC and take nothing from it.
LEMMA SilentStep ==
  ASSUME TypeInv,
         CheckRunning \/ OpenReports \/ ReadLine \/ EndOfReports \/ EndOfLine
           \/ ReportOutOfRange \/ ReportFatal \/ JoinConnector \/ ConnectorAborts
           \/ TesterSendsLine \/ TesterEnds
  PROVE  ContractStep
<1>1. UNCHANGED <<inbox, peer, sent>>
  BY DEF CheckRunning, OpenReports, ReadLine, EndOfReports, EndOfLine, ReportOutOfRange,
    ReportFatal, JoinConnector, ConnectorAborts, TesterSendsLine, TesterEnds
<1>2. phase \notin InHand \cup Ended /\ phase' \notin InHand
  <2>1. CASE ReadLine
    <3>1. phase = "reading" /\ phase' \in {"exited", "reading", "reporting"}
      BY <2>1 DEF ReadLine
    <3>2. QED
      BY <3>1 DEF InHand, Ended
  <2>2. CASE ~ReadLine
    BY <2>2 DEF CheckRunning, OpenReports, EndOfReports, AfterReports, EndOfLine,
      ReportOutOfRange, ReportFatal, JoinConnector, ConnectorAborts, TesterSendsLine,
      TesterEnds, Feeding, InHand, Ended
  <2>3. QED
    BY <2>1, <2>2
<1>3. Active
  BY <1>2 DEF Active
<1>4. CASE Active'
  BY <1>1, <1>2, <1>3, <1>4, InnerStep
<1>5. CASE ~Active'
  BY <1>1, <1>3, <1>5, AsStop
<1>6. QED
  BY <1>4, <1>5

LEMMA RicStep ==
  ASSUME TypeInv, RicSends \/ RicEnds \/ Signal
  PROVE  ContractStep
<1>1. CASE RicSends
  <2>1. PICK m \in RicPdus : inbox' = Append(inbox, m)
    BY <1>1 DEF RicSends
  <2>2. /\ Active /\ peer = "open" /\ UNCHANGED <<phase, handled, peer, sent>>
        /\ current' = current
    BY <1>1 DEF RicSends, current
  <2>3. Active' /\ m \in PeerPdus
    BY <2>2, AgentAssumption DEF Active
  <2>4. Todo' = Append(Todo, m)
    BY <2>1, <2>2, <2>3, TodoInHand DEF Todo, Active
  <2>5. QED
    BY <2>2, <2>3, <2>4, AsArrive
<1>2. CASE RicEnds
  <2>1. Active /\ Active' /\ Todo' = Todo /\ sent' = sent
    BY <1>2 DEF RicEnds, Active, Todo, current
  <2>2. QED
    BY <1>2, <2>1, AsLose DEF RicEnds
<1>3. CASE Signal
  <2>1. CASE phase' = phase
    <3>1. Active' = Active /\ Todo' = Todo
      BY <1>3, <2>1 DEF Signal, Active, Todo, current
    <3>2. QED
      BY <1>3, <3>1, AsStutter DEF Signal
  <2>2. CASE phase' = "exited"
    BY <1>3, <2>2, AsStop DEF Signal, Active, Ended
  <2>3. QED
    BY <1>3, <2>1, <2>2 DEF Signal
<1>4. QED
  BY <1>1, <1>2, <1>3

LEMMA EveryStep == TypeInv /\ SetupInv /\ LinkInv /\ [Next]_vars => ContractStep
<1>1. ASSUME UNCHANGED vars PROVE ContractStep
  <2>1. Active' = Active /\ Todo' = Todo /\ UNCHANGED <<peer, sent>>
    BY <1>1 DEF vars, Active, Todo, current
  <2>2. QED
    BY <2>1, AsStutter
<1>2. QED
  BY <1>1, StartStep, ReceiveStep, DispatchStep, ResponseStep, ContinuationStep, SilentStep,
     RicStep DEF Next, AgentStep, Environment

\* The agent keeps its contract with the RIC, whatever the RIC sends, the
\* tester feeds and the signal cuts short: PDUs are dealt with in the order
\* they came, each with at most one answer of the kind it calls for, and an
\* answer is continued only until the next one.
THEOREM KeepsContract == Spec => ImplementsContract
<1>1. Init => Contract!Init
  BY DEF Init, Contract!Init, Active, Ended
<1>2. QED
  BY <1>1, InitType, NextType, InitSetup, NextSetup, InitLink, NextLink, EveryStep, PTL
  DEF Spec, ImplementsContract, Contract!Spec, ContractStep
=============================================================================
