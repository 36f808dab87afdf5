------------------------------- MODULE E2Agent -------------------------------
(***************************************************************************)
(* One KPM simulator process: main registers the KPM service model, then   *)
(* E2Sim::run_loop connects to the RIC, sends the setup request and serves *)
(* one PDU after the other.  A subscription request runs the KPM callback  *)
(* inside the receive loop: it answers, then reports until its input ends. *)
(*                                                                         *)
(* Around the process: the RIC, which sends PDUs and may end the           *)
(* association at any moment; the signal that asks the loop to stop; and,  *)
(* when there is no report file, the tester that feeds lines to the VIAVI  *)
(* connector.  Agent steps are split where the code blocks or sends, so    *)
(* that all of these interleave with it.                                   *)
(***************************************************************************)
EXTENDS E2AP, SequenceFilter

CONSTANTS RicPdus,      \* the PDUs the RIC may send
          MaxPdus,      \* bound: how many of them it sends
          Lines,        \* the lines of report files and of the tester
          ReportFiles,  \* the contents reports.json may have
          Sources,      \* "file": reports.json exists; "viavi": it does not
          MaxFeed,      \* bound: how many lines the tester sends
          OpType,       \* RAN_FUNCTION_OP_TYPE, in the environment
          OwnRequestId, OwnActionId  \* constants of the library's own request

Keys  == {"ueMeasReport", "cellMeasReport", "other", "notJson"}
Fates == {"ok", "outOfRange", "fatal"}

ASSUME AgentAssumption ==
  /\ RicPdus \subseteq PeerPdus
  /\ MaxPdus \in Nat /\ MaxFeed \in Nat
  /\ Lines \subseteq [key : Keys, reports : Seq(Fates)]
  /\ ReportFiles \subseteq Seq(Lines)
  /\ Sources \subseteq {"file", "viavi"}
  /\ OpType \in {"unset", "ADD", "DELETE", "other"}
  /\ OwnRequestId \in RequestIds /\ OwnActionId \in ActionIds

VARIABLES
  phase,      \* where the process is
  running,    \* SignalHandler::m_running
  gFuncId,    \* the KPM function ID, from the environment
  ran_functions_registered,  \* the domain of the map of that name
  subscription_callbacks,    \* likewise: every callback is the KPM callback
  handled,    \* what became of each PDU received, the last one in progress
  sub,        \* the arguments of the callback's response and reports
  source,     \* where run_report_loop finds its lines
  portBound,  \* a VIAVI connector's socket holds port 3001
  input, eof, \* the lines the source holds, and whether it will hold no more
  line, item, \* the line read last, and the next report of that line
  peer,       \* the association, as the RIC left it
  inbox,      \* PDUs on their way to the agent
  sent        \* every PDU the agent put on the open association

agentVars  == <<running, gFuncId, ran_functions_registered,
                subscription_callbacks>>
reportVars == <<source, portBound, input, eof, line, item>>
vars == <<phase, agentVars, handled, sub, reportVars, peer, inbox, sent>>

Ended  == {"returned", "exited"}
Phases == Ended \cup {"main", "start", "connected", "loop", "recv", "dispatch",
  "sleep", "callback", "open", "reading", "reporting", "joining"}

\* late: the stop signal had arrived before the PDU was received;
\* called: its callback ran; noFunction: the dispatcher logged that no RAN
\* function has the requested ID.
Handling == [pdu : PeerPdus, late : BOOLEAN, called : BOOLEAN,
             noFunction : BOOLEAN]
current == handled[Len(handled)].pdu

Init ==
  /\ phase = "main" /\ running = TRUE
  /\ gFuncId \in FunctionIds
  /\ ran_functions_registered = {} /\ subscription_callbacks = {}
  /\ handled = << >>
  /\ sub \in [req : {OwnRequestId}, details : {<< >>}, action : {OwnActionId}]
  /\ \/ source = "file"  /\ input \in ReportFiles /\ eof = TRUE
     \/ source = "viavi" /\ input = << >> /\ eof = FALSE
  /\ source \in Sources
  /\ portBound = FALSE /\ line = 0 /\ item = 0
  /\ peer = "none" /\ inbox = << >> /\ sent = << >>

-----------------------------------------------------------------------------
(* Start-up *)

\* Mutant of Register: the service model is registered, its callback is not.
RegisterNoCallback ==
  /\ phase = "main" /\ phase' = "start"
  /\ ran_functions_registered' = ran_functions_registered \cup {gFuncId}
  /\ UNCHANGED <<running, gFuncId, subscription_callbacks, handled, sub,
                 reportVars, peer, inbox, sent>>

\* main: register_e2sm and register_subscription_callback.
Register ==
  /\ phase = "main" /\ phase' = "start"
  /\ ran_functions_registered' = ran_functions_registered \cup {gFuncId}
  /\ subscription_callbacks' = subscription_callbacks \cup {gFuncId}
  /\ UNCHANGED <<running, gFuncId, handled, sub, reportVars, peer, inbox, sent>>

\* sctp_start_client: every failure ends the process.
Connect ==
  /\ phase = "start"
  /\ \/ phase' = "connected" /\ peer' = "open"
     \/ phase' = "exited" /\ UNCHANGED peer
  /\ UNCHANGED <<agentVars, handled, sub, reportVars, inbox, sent>>

\* sctp_send_data.  While the association stands, send may wait for the RIC to
\* read what it was sent before (WaitsForRic, below).  Once the RIC has ended
\* the association a PDU may still vanish without an error; else send fails, and
\* the process ends (by exit, or by SIGPIPE).
Send(m, next) ==
  \/ peer = "open" /\ sent' = Append(sent, m) /\ phase' = next
  \/ peer # "open" /\ UNCHANGED sent /\ phase' \in {next, "exited"}

\* The result of encoding the setup request is not checked: a failure makes
\* the length of the copy that follows -1, which ends the process.
SendSetup ==
  /\ phase = "connected"
  /\ \/ /\ ran_functions_registered \subseteq EncodableFunctionIds
        /\ Send(SetupRequest(ran_functions_registered), "loop")
     \/ /\ ~ ran_functions_registered \subseteq EncodableFunctionIds
        /\ phase' = "exited" /\ UNCHANGED sent
  /\ UNCHANGED <<agentVars, handled, sub, reportVars, peer, inbox>>

-----------------------------------------------------------------------------
(* The receive loop *)

\* Mutant of CheckRunning: the loop does not look at the flag.
CheckNothing ==
  /\ phase = "loop" /\ phase' = "recv"
  /\ UNCHANGED <<agentVars, handled, sub, reportVars, peer, inbox, sent>>

CheckRunning ==
  /\ phase = "loop"
  /\ phase' = IF running THEN "recv" ELSE "returned"
  /\ UNCHANGED <<agentVars, handled, sub, reportVars, peer, inbox, sent>>

\* Mutant of Receive: the PDU that arrived last is taken first.
ReceiveLast ==
  /\ phase = "recv" /\ inbox # << >>
  /\ inbox' = SubSeq(inbox, 1, Len(inbox) - 1)
  /\ handled' = Append(handled, [pdu |-> inbox[Len(inbox)], late |-> ~running,
                                 called |-> FALSE, noFunction |-> FALSE])
  /\ phase' = "dispatch"
  /\ UNCHANGED <<agentVars, sub, reportVars, peer, sent>>

\* sctp_receive_data: data, the end of the association, or an error.
Receive ==
  /\ phase = "recv"
  /\ \/ /\ inbox # << >>
        /\ inbox' = Tail(inbox)
        /\ handled' = Append(handled, [pdu |-> Head(inbox), late |-> ~running,
                                       called |-> FALSE, noFunction |-> FALSE])
        /\ phase' = "dispatch"
     \/ /\ inbox = << >> /\ peer = "closed"
        /\ phase' = "returned" /\ UNCHANGED <<inbox, handled>>
     \/ /\ peer = "aborted"
        /\ phase' = "exited" /\ UNCHANGED <<inbox, handled>>
  /\ UNCHANGED <<agentVars, sub, reportVars, peer, sent>>

\* e2ap_handle_sctp_data, one action per case that does something.
Dispatch(p, k) == phase = "dispatch" /\ current.proc = p /\ current.kind = k

DecodeFails ==
  /\ phase = "dispatch" /\ current.proc = "undecodable"
  /\ phase' = "exited"
  /\ UNCHANGED <<agentVars, handled, sub, reportVars, peer, inbox, sent>>

\* e2ap_handle_E2SetupRequest: the agent takes the RIC's role.
HandleE2SetupRequest ==
  /\ Dispatch("E2setup", "initiating")
  /\ Send(SetupResponse, "sleep")
  /\ UNCHANGED <<agentVars, handled, sub, reportVars, peer, inbox>>

SendOwnSubscription ==
  /\ phase = "sleep"
  /\ Send(OwnSubscriptionRequest(OwnRequestId, OwnActionId), "loop")
  /\ UNCHANGED <<agentVars, handled, sub, reportVars, peer, inbox>>

\* Mutant of HandleServiceQuery: the service update is not sent.
QueryLogged ==
  /\ Dispatch("RICserviceQuery", "initiating")
  /\ phase' = "loop"
  /\ UNCHANGED <<agentVars, handled, sub, reportVars, peer, inbox, sent>>

\* For the type DELETE the code leaves the element's ID uninitialised, and with
\* it the message may not be encodable, which ends the process.
HandleServiceQuery ==
  /\ Dispatch("RICserviceQuery", "initiating")
  /\ \/ Send(ServiceUpdate(ran_functions_registered), "loop")
     \/ OpType = "DELETE" /\ phase' = "exited" /\ UNCHANGED sent
  /\ UNCHANGED <<agentVars, handled, sub, reportVars, peer, inbox>>

\* The message is logged: responses, resets, indications, and the procedures
\* whose cases are commented out (RICcontrol, RICsubscriptionDelete).
LogOnly ==
  /\ phase = "dispatch"
  /\ current \in PlainPdus /\ current.proc # "undecodable"
  /\ current \notin {Plain("E2setup", "initiating"),
                     Plain("RICserviceQuery", "initiating")}
  /\ phase' = "loop"
  /\ UNCHANGED <<agentVars, handled, sub, reportVars, peer, inbox, sent>>

\* RICsubscription, initiatingMessage: look the callback up and call it.  The
\* callback's scan of the request decides what it will send.
CallSubscriptionCallback(f) ==
  /\ f \in subscription_callbacks
  /\ \E r \in RequestIdsRead(current), a \in ActionIdsRead(current.details) :
       sub' = [req |-> r, details |-> current.details, action |-> a]
  /\ handled' = [handled EXCEPT ![Len(handled)].called = TRUE]
  /\ phase' = "callback"

NoSuchFunction(f) ==
  /\ f \notin subscription_callbacks
  /\ handled' = [handled EXCEPT ![Len(handled)].noFunction = TRUE]
  /\ phase' = "loop" /\ UNCHANGED sub

HandleSubscriptionRequest ==
  /\ Dispatch("RICsubscription", "initiating")
  /\ \E f \in FunctionIdsRead(current) :
       CallSubscriptionCallback(f) \/ NoSuchFunction(f)
  /\ UNCHANGED <<agentVars, reportVars, peer, inbox, sent>>

-----------------------------------------------------------------------------
(* callback_kpm_subscription_request and run_report_loop *)

\* Mutant of SendSubscriptionResponse: the callback reports without answering.
ReportUnanswered ==
  /\ phase = "callback" /\ phase' = "open"
  /\ UNCHANGED <<agentVars, handled, sub, reportVars, peer, inbox, sent>>

\* A response that cannot be encoded ends the process.
SendSubscriptionResponse ==
  /\ phase = "callback"
  /\ \/ /\ CanAnswer(sub.req, sub.details)
        /\ Send(SubscriptionResponse(sub.req, Admitted(sub.details),
                                     Rejected(sub.details)), "open")
     \/ /\ ~ CanAnswer(sub.req, sub.details)
        /\ phase' = "exited" /\ UNCHANGED sent
  /\ UNCHANGED <<agentVars, handled, sub, reportVars, peer, inbox>>

\* Mutant of OpenReports: the file stays open where the last callback left it.
OpenReportsOnce ==
  /\ phase = "open" /\ phase' = "reading"
  /\ UNCHANGED <<agentVars, handled, sub, reportVars, peer, inbox, sent>>

\* Without the file a VIAVI connector is made; an earlier one never closed its
\* listening socket, so that a second one fails to bind and throws.
OpenReports ==
  /\ phase = "open"
  /\ line' = 0 /\ item' = 0
  /\ \/ /\ source = "file"
        /\ phase' = "reading" /\ UNCHANGED <<portBound, input, eof>>
     \/ /\ source = "viavi" /\ ~portBound
        /\ portBound' = TRUE /\ input' = << >> /\ eof' = FALSE
        /\ phase' = "reading"
     \/ /\ source = "viavi" /\ portBound
        /\ phase' = "exited" /\ UNCHANGED <<portBound, input, eof>>
  /\ UNCHANGED <<agentVars, handled, sub, source, peer, inbox, sent>>

\* Leaving run_report_loop destroys the connector, if there is one.
AfterReports == IF source = "file" THEN "loop" ELSE "joining"

\* Mutants of ReadLine: the input is read twice in a round; a line of another
\* kind ends the loop; or it starts the input over.
ReadTwoLines ==
  /\ phase = "reading" /\ line < Len(input)
  /\ line' = line + 2 /\ item' = 1 /\ phase' = "reading"
  /\ UNCHANGED <<agentVars, handled, sub, source, portBound, input, eof, peer,
                 inbox, sent>>

ReadUntilOther ==
  /\ phase = "reading" /\ line < Len(input)
  /\ line' = line + 1 /\ item' = 1
  /\ phase' = IF input[line + 1].key = "other" THEN AfterReports ELSE "reporting"
  /\ UNCHANGED <<agentVars, handled, sub, source, portBound, input, eof, peer,
                 inbox, sent>>

ReadOverAgain ==
  /\ phase = "reading" /\ line < Len(input)
  /\ LET other == input[line + 1].key = "other"
     IN  /\ line' = IF other THEN 0 ELSE line + 1
         /\ phase' = IF other THEN "reading" ELSE "reporting"
  /\ item' = 1
  /\ UNCHANGED <<agentVars, handled, sub, source, portBound, input, eof, peer,
                 inbox, sent>>

\* getline and the look at the first key of the line.
ReadLine ==
  /\ phase = "reading" /\ line < Len(input)
  /\ line' = line + 1 /\ item' = 1
  /\ LET key == input[line + 1].key
     IN  phase' = CASE key = "notJson" -> "exited"
                    [] key = "other"   -> "reading"
                    [] OTHER           -> "reporting"
  /\ UNCHANGED <<agentVars, handled, sub, source, portBound, input, eof, peer,
                 inbox, sent>>

EndOfReports ==
  /\ phase = "reading" /\ line = Len(input) /\ eof
  /\ phase' = AfterReports
  /\ UNCHANGED <<agentVars, handled, sub, reportVars, peer, inbox, sent>>

reports == input[line].reports

SendIndication ==
  /\ phase = "reporting" /\ item <= Len(reports) /\ reports[item] = "ok"
  /\ Send(Indication(sub.req, gFuncId, sub.action, <<line, item>>), "reporting")
  /\ item' = item + 1
  /\ UNCHANGED <<agentVars, handled, sub, source, portBound, input, eof, line,
                 peer, inbox>>

EndOfLine ==
  /\ phase = "reporting" /\ item > Len(reports)
  /\ phase' = "reading"
  /\ UNCHANGED <<agentVars, handled, sub, reportVars, peer, inbox, sent>>

\* A UE name without its number makes substr throw std::out_of_range, which
\* leaves the callback and meets the dispatcher's handler for a failed lookup.
ReportOutOfRange ==
  /\ phase = "reporting" /\ item <= Len(reports)
  /\ reports[item] = "outOfRange"
  /\ handled' = [handled EXCEPT ![Len(handled)].noFunction = TRUE]
  /\ phase' = AfterReports
  /\ UNCHANGED <<agentVars, sub, reportVars, peer, inbox, sent>>

\* Any other exception has no handler; a report that cannot be encoded calls
\* exit.
ReportFatal ==
  /\ phase = "reporting" /\ item <= Len(reports) /\ reports[item] = "fatal"
  /\ phase' = "exited"
  /\ UNCHANGED <<agentVars, handled, sub, reportVars, peer, inbox, sent>>

\* The connector's destructor waits for threads that wait for the tester.  This
\* step, the next one and the two of the tester are the steps of ReportSource,
\* which ViaviConnector implements.
JoinConnector ==
  /\ phase = "joining" /\ phase' = "loop"
  /\ UNCHANGED <<agentVars, handled, sub, reportVars, peer, inbox, sent>>

\* While the connector lives, its threads may abort the process: panic throws
\* in the server thread, or the destructor meets a vector that has moved.
ConnectorAborts ==
  /\ phase \in {"reading", "reporting", "joining"} /\ source = "viavi"
  /\ phase' = "exited"
  /\ UNCHANGED <<agentVars, handled, sub, reportVars, peer, inbox, sent>>

-----------------------------------------------------------------------------
(* The environment *)

Active == phase \notin Ended

RicSends ==
  /\ Active /\ peer = "open"
  /\ Len(handled) + Len(inbox) < MaxPdus
  /\ \E m \in RicPdus : inbox' = Append(inbox, m)
  /\ UNCHANGED <<phase, agentVars, handled, sub, reportVars, peer, sent>>

RicEnds ==
  /\ Active /\ peer = "open"
  /\ peer' \in {"closed", "aborted"}
  /\ UNCHANGED <<phase, agentVars, handled, sub, reportVars, inbox, sent>>

\* SIGIOT: armed by run_loop just before the loop; fatal until then.
Signal ==
  /\ Active /\ running
  /\ IF phase \in {"main", "start", "connected"}
     THEN phase' = "exited" /\ UNCHANGED running
     ELSE running' = FALSE /\ UNCHANGED phase
  /\ UNCHANGED <<gFuncId, ran_functions_registered, subscription_callbacks,
                 handled, sub, reportVars, peer, inbox, sent>>

Feeding == phase \in {"reading", "reporting"} /\ source = "viavi" /\ ~eof

TesterSendsLine ==
  /\ Feeding /\ Len(input) < MaxFeed
  /\ \E l \in Lines : input' = Append(input, l)
  /\ UNCHANGED <<phase, agentVars, handled, sub, source, portBound, eof, line,
                 item, peer, inbox, sent>>

\* The end of a connection writes one octet more, so that there is a line before
\* the input can end.  If that octet is a line of its own, it is not JSON.
TesterEnds ==
  /\ Feeding /\ input # << >>
  /\ eof' = TRUE
  /\ UNCHANGED <<phase, agentVars, handled, sub, source, portBound, input, line,
                 item, peer, inbox, sent>>

-----------------------------------------------------------------------------
\* Steps the process takes by itself once the data they wait for is there.
AgentStep ==
  \/ Register \/ Connect \/ SendSetup
  \/ CheckRunning \/ Receive
  \/ DecodeFails \/ HandleE2SetupRequest \/ SendOwnSubscription
  \/ HandleServiceQuery \/ LogOnly \/ HandleSubscriptionRequest
  \/ SendSubscriptionResponse \/ OpenReports \/ ReadLine \/ EndOfReports
  \/ SendIndication \/ EndOfLine \/ ReportOutOfRange \/ ReportFatal

Environment ==
  RicSends \/ RicEnds \/ Signal \/ TesterSendsLine \/ TesterEnds

Next == AgentStep \/ JoinConnector \/ ConnectorAborts \/ Environment

Spec == Init /\ [][Next]_vars

\* The process is in send on a standing association, which returns only when
\* the RIC reads what it was sent, or ends the association.
WaitsForRic == peer = "open" /\ ENABLED (AgentStep /\ sent' # sent)

\* The process is one thread that the operating system schedules: it does not
\* stop for ever before a step for which it waits for nobody.  Nothing is assumed
\* of the RIC, of the signal, of the tester, or of the connector's destructor.
FairSpec == Spec /\ WF_vars(AgentStep /\ ~WaitsForRic)

-----------------------------------------------------------------------------
(* Properties *)

\* The state has the shape the declarations promise.
TypeOK ==
  /\ phase \in Phases /\ running \in BOOLEAN /\ gFuncId \in FunctionIds
  /\ ran_functions_registered \subseteq FunctionIds
  /\ subscription_callbacks \subseteq FunctionIds
  /\ handled \in Seq(Handling)
  /\ sub \in [req : RequestIds \cup {Unencodable}, details : Seq(Details),
              action : ActionIds]
  /\ source \in {"file", "viavi"} /\ portBound \in BOOLEAN
  /\ input \in Seq(Lines) /\ eof \in BOOLEAN
  /\ line \in 0 .. Len(input) /\ item \in Nat
  /\ peer \in {"none", "open", "closed", "aborted"}
  /\ inbox \in Seq(PeerPdus) /\ sent \in Seq(AgentPdus)

\* The setup request is the first message on the association and the only one
\* of its kind, and every function it announces has a subscription callback
\* (run_loop sends it before the loop; main registers both before run_loop).
SetupComesFirst ==
  \A i \in 1 .. Len(sent) :
    /\ IsSetup(sent[i]) <=> i = 1
    /\ i = 1 => sent[i].funcs \subseteq subscription_callbacks

\* An indication belongs to the subscription answered last: between it and the
\* response with its request ID there are only indications.  The callback
\* reports inside the receive loop, so that no other answer comes between.
IndicationsFollowTheirResponse ==
  \A i \in 1 .. Len(sent) : IsIndication(sent[i]) =>
    \E j \in 1 .. (i - 1) :
      /\ IsResponse(sent[j]) /\ sent[j].req = sent[i].req
      /\ \A k \in (j + 1) .. i : IsIndication(sent[k])

\* Lines that yield no indication.
Silent(l) == input[l].key = "other" \/ input[l].reports = << >>
IsFirst(r) == r[2] = 1 /\ \A l \in 1 .. (r[1] - 1) : Silent(l)
IsLast(r) == /\ r[2] = Len(input[r[1]].reports)
             /\ \A l \in (r[1] + 1) .. Len(input) : Silent(l)
IsNext(r, s) ==
  \/ s[1] = r[1] /\ s[2] = r[2] + 1
  \/ /\ s[1] > r[1] /\ s[2] = 1 /\ r[2] = Len(input[r[1]].reports)
     /\ \A l \in (r[1] + 1) .. (s[1] - 1) : Silent(l)

\* Each subscription is sent the reports of the input from the first one on, in
\* order, none left out and none twice, whatever subscriptions were served
\* before it (run_report_loop opens its input anew and counts on).
ReportsInSequence ==
  \A i \in 2 .. Len(sent) : IsIndication(sent[i]) =>
    IF IsIndication(sent[i - 1])
    THEN IsNext(sent[i - 1].report, sent[i].report)
    ELSE IsFirst(sent[i].report)

\* When the callback has returned by itself and the association still stands,
\* the last report of the input has been sent.
ReportsComplete ==
  (/\ phase \in {"loop", "recv", "joining"} /\ peer = "open"
   /\ handled # << >> /\ handled[Len(handled)].called
   /\ ~handled[Len(handled)].noFunction)
  => LET last == sent[Len(sent)]
     IN  IF IsIndication(last) THEN IsLast(last.report)
         ELSE IsResponse(last) /\ \A l \in 1 .. Len(input) : Silent(l)

Served    == Keep(handled, {h \in Handling : h.called})
Queries   == Keep(handled, {h \in Handling : h.pdu = Plain("RICserviceQuery", "initiating")})
Responses == Keep(sent, {m \in AgentPdus : IsResponse(m)})
Updates   == Keep(sent, {m \in AgentPdus : IsUpdate(m)})

\* While the association stands and the process runs, the subscription
\* responses are those to the requests whose callback was called, one each, in
\* order, with their request IDs; only the callback's own may be outstanding.
\* Service queries have one service update each.
OneAnswerEach ==
  peer = "open" /\ Active =>
    /\ Len(Responses) = Len(Served) - (IF phase = "callback" THEN 1 ELSE 0)
    /\ \A i \in 1 .. Len(Responses) :
         Responses[i].req \in RequestIdsRead(Served[i].pdu)
    /\ Len(Updates) = Len(Queries)
         - (IF /\ phase = "dispatch"
               /\ current = Plain("RICserviceQuery", "initiating")
            THEN 1 ELSE 0)

\* After the stop signal at most one more PDU is taken from the association:
\* the flag is read before each receive and not within it.
StopIsPrompt ==
  \A i \in 1 .. Len(handled) : handled[i].late => i = Len(handled)

\* Under fair scheduling, a PDU the RIC has sent is received, and after it the
\* loop is back at receiving, unless the process has ended or a send waits for
\* ever for a RIC that does not read: with a report file no callback keeps the
\* loop for ever by itself.
EveryPduHandled ==
  /\ \A n \in 1 .. MaxPdus :
       Len(handled) + Len(inbox) >= n
         ~> Len(handled) >= n \/ phase \in Ended \/ []WaitsForRic
  /\ phase = "dispatch" ~> phase = "recv" \/ phase \in Ended \/ []WaitsForRic

\* The agent implements the contract with its RIC.  A PDU counts as dealt with
\* from the step that answers it or finds nothing to answer.
Contract == INSTANCE E2Contract WITH
  up   <- Active,
  todo <- IF phase \in Ended THEN << >>
          ELSE IF phase \in {"dispatch", "callback"} THEN <<current>> \o inbox
          ELSE inbox

\* Every behaviour of the agent is one the contract allows.
ImplementsContract == Contract!Spec

\* README: a request for a function without a callback gets an error response.
UnknownFunctionIsAnswered ==
  (phase = "recv" /\ peer = "open") =>
    Len(SelectSeq(handled, LAMBDA h : h.pdu.proc = "RICsubscription"
                                      /\ h.pdu.kind = "initiating"))
    = Len(SelectSeq(sent, LAMBDA m : m.proc = "RICsubscription"
                                     /\ m.kind # "initiating"))

\* The indications of a subscription carry an action its response admitted: the
\* scan stores the ID of a rejected action too, but a response with a rejected
\* action never gets out.
IndicationsCarryAdmittedAction ==
  \A i \in 1 .. Len(sent) : IsIndication(sent[i]) =>
    \E j \in 1 .. (i - 1) : /\ IsResponse(sent[j])
                            /\ sent[j].req = sent[i].req
                            /\ sent[i].action \in sent[j].admitted

\* The callback's comment: all other actions are rejected; hence a request with
\* other actions is answered too, when its request ID can be encoded.
OtherActionsAreRejected ==
  phase = "exited" /\ peer = "open" /\ sub.req # Unencodable =>
    Len(Responses) = Len(Served)

\* The dispatcher's message: it logs that no RAN function has the requested ID
\* only if that is so.
NoFunctionMeansNone ==
  \A i \in 1 .. Len(handled) : handled[i].noFunction =>
    FunctionIdsRead(handled[i].pdu) \ subscription_callbacks # {}
=============================================================================
