---------------------------- MODULE E2AnswerProofs ----------------------------
(* One answer for each request, for all values of E2Agent's constants.          *)
EXTENDS E2ReportProofs, SequenceFilterProofs

-----------------------------------------------------------------------------
(* What is kept of the two histories. *)

Query  == Plain("RICserviceQuery", "initiating")
Called == {h \in Handling : h.called}
Asked  == {h \in Handling : h.pdu = Query}

ResponsePdus == {m \in AgentPdus : IsResponse(m)}
UpdatePdus   == {m \in AgentPdus : IsUpdate(m)}

LEMMA Kept ==
  /\ Served = Keep(handled, Called) /\ Queries = Keep(handled, Asked)
  /\ Responses = Keep(sent, ResponsePdus) /\ Updates = Keep(sent, UpdatePdus)
BY DEF Served, Queries, Responses, Updates, Called, Asked, Query, ResponsePdus, UpdatePdus

LEMMA KeptThen ==
  /\ Served' = Keep(handled', Called) /\ Queries' = Keep(handled', Asked)
  /\ Responses' = Keep(sent', ResponsePdus) /\ Updates' = Keep(sent', UpdatePdus)
BY DEF Served, Queries, Responses, Updates, Called, Asked, Query, ResponsePdus, UpdatePdus

LEMMA KeptTypes ==
  ASSUME TypeInv
  PROVE  /\ Served \in Seq(Handling) /\ Queries \in Seq(Handling)
         /\ Responses \in Seq(AgentPdus) /\ Updates \in Seq(AgentPdus)
<1>1. handled \in Seq(Handling) /\ sent \in Seq(AgentPdus)
  BY DEF TypeInv, TypeOK
<1>2. /\ Served \in Seq(Called) /\ Queries \in Seq(Asked)
      /\ Responses \in Seq(ResponsePdus) /\ Updates \in Seq(UpdatePdus)
  BY <1>1, Kept, KeepType
<1>3. \A T : \A S \in SUBSET T : Seq(S) \subseteq Seq(T)
  OBVIOUS
<1>4. /\ Called \in SUBSET Handling /\ Asked \in SUBSET Handling
      /\ ResponsePdus \in SUBSET AgentPdus /\ UpdatePdus \in SUBSET AgentPdus
  BY DEF Called, Asked, ResponsePdus, UpdatePdus
<1>5. QED
  BY <1>2, <1>3, <1>4

\* A message more.
LEMMA Sends ==
  ASSUME TypeInv, NEW m \in AgentPdus, sent' = Append(sent, m)
  PROVE  /\ Responses' = IF IsResponse(m) THEN Append(Responses, m) ELSE Responses
         /\ Updates' = IF IsUpdate(m) THEN Append(Updates, m) ELSE Updates
<1>1. sent \in Seq(AgentPdus)
  BY DEF TypeInv, TypeOK
<1>2. (m \in ResponsePdus <=> IsResponse(m)) /\ (m \in UpdatePdus <=> IsUpdate(m))
  BY DEF ResponsePdus, UpdatePdus
<1>3. Responses' = IF m \in ResponsePdus THEN Append(Responses, m) ELSE Responses
  BY <1>1, Kept, KeptThen, KeepAppend
<1>4. Updates' = IF m \in UpdatePdus THEN Append(Updates, m) ELSE Updates
  BY <1>1, Kept, KeptThen, KeepAppend
<1>5. QED
  BY <1>2, <1>3, <1>4

LEMMA SendsNeither ==
  ASSUME UNCHANGED sent
  PROVE  UNCHANGED <<Responses, Updates>>
BY Kept, KeptThen

LEMMA HandlesNone ==
  ASSUME UNCHANGED handled
  PROVE  UNCHANGED <<Served, Queries>>
BY Kept, KeptThen

\* A PDU more.
LEMMA Receives ==
  ASSUME TypeInv, NEW h \in Handling, handled' = Append(handled, h), ~h.called
  PROVE  /\ Served' = Served
         /\ Queries' = IF h.pdu = Query THEN Append(Queries, h) ELSE Queries
         /\ current' = h.pdu /\ ~handled'[Len(handled')].called
<1>1. handled \in Seq(Handling)
  BY DEF TypeInv, TypeOK
<1>2. (h \in Asked <=> h.pdu = Query) /\ h \notin Called
  BY DEF Asked, Called
<1>3. handled'[Len(handled')] = h
  BY <1>1, AppendProperties, LenProperties
<1>4. Served' = Served
  BY <1>1, <1>2, Kept, KeptThen, KeepAppend
<1>5. Queries' = IF h \in Asked THEN Append(Queries, h) ELSE Queries
  BY <1>1, Kept, KeptThen, KeepAppend
<1>6. QED
  BY <1>2, <1>3, <1>4, <1>5 DEF current

\* The PDU in hand is marked: the history before it stays.
LEMMA Marks ==
  ASSUME TypeInv, phase \in Serving, current # Query,
         NEW x \in Handling, x.pdu = current,
         handled' = [handled EXCEPT ![Len(handled)] = x]
  PROVE  /\ Queries' = Queries
         /\ \E s \in Seq(Handling) :
              /\ Served = IF handled[Len(handled)].called
                          THEN Append(s, handled[Len(handled)]) ELSE s
              /\ Served' = IF x.called THEN Append(s, x) ELSE s
<1> DEFINE h == handled[Len(handled)]
<1>1. handled \in Seq(Handling) /\ handled # << >> /\ h \in Handling /\ h.pdu = current
  BY LastHandling DEF TypeInv, TypeOK, PhaseData, current
<1>2. PICK v \in Seq(Handling) : /\ handled = Append(v, h)
                                 /\ \A e \in Handling : [handled EXCEPT ![Len(handled)] = e] = Append(v, e)
  BY <1>1, ExceptLast
<1>3. handled' = Append(v, x)
  BY <1>2
<1> HIDE DEF h
<1>4. h \notin Asked /\ x \notin Asked
  BY <1>1 DEF Asked
<1>5. Queries' = Queries
  BY <1>1, <1>2, <1>3, <1>4, Kept, KeptThen, KeepAppend
<1>6. (h \in Called <=> h.called) /\ (x \in Called <=> x.called)
  BY <1>1 DEF Called
<1>7. /\ Served = IF h \in Called THEN Append(Keep(v, Called), h) ELSE Keep(v, Called)
      /\ Served' = IF x \in Called THEN Append(Keep(v, Called), x) ELSE Keep(v, Called)
  BY <1>1, <1>2, <1>3, Kept, KeptThen, KeepAppend
<1>8. Keep(v, Called) \in Seq(Handling)
  <2>1. Keep(v, Called) \in Seq(Called) /\ Called \subseteq Handling
    BY KeepType DEF Called
  <2>2. QED
    BY <2>1
<1>9. QED
  BY <1>5, <1>6, <1>7, <1>8 DEF h

-----------------------------------------------------------------------------
(* One answer for each. *)

\* The answers that are still owed.
ResponseOwed == IF phase = "callback" THEN 1 ELSE 0
UpdateOwed   == IF phase = "dispatch" /\ current = Query THEN 1 ELSE 0

Balanced ==
  /\ Len(Responses) = Len(Served) - ResponseOwed
  /\ \A i \in 1 .. Len(Responses) : Responses[i].req \in RequestIdsRead(Served[i].pdu)
  /\ Len(Updates) = Len(Queries) - UpdateOwed

\* The history begins with the loop; a PDU is not marked before it is looked up;
\* and the callback's response will be to the request marked last.
InProgress ==
  /\ phase \in Early => handled = << >>
  /\ phase = "dispatch" => ~handled[Len(handled)].called
  /\ phase = "callback" => Served # << >> /\ Served[Len(Served)].pdu = current

AnswerInv == (peer = "open" /\ Active => Balanced) /\ InProgress

LEMMA AnswersAre == OneAnswerEach <=> (peer = "open" /\ Active => Balanced)
BY DEF OneAnswerEach, Balanced, ResponseOwed, UpdateOwed, Query

LEMMA InitAnswer == Init => AnswerInv
<1> SUFFICES ASSUME Init PROVE AnswerInv
  OBVIOUS
<1>1. handled = << >> /\ peer = "none" /\ phase = "main"
  BY DEF Init
<1>2. QED
  BY <1>1 DEF AnswerInv, InProgress

\* A step that adds to neither history and leaves nothing owed.
LEMMA QuietAnswer ==
  ASSUME TypeInv, AnswerInv, UNCHANGED <<handled, sent>>,
         peer' = "open" /\ Active' => peer = "open" /\ Active,
         \/ phase' = phase
         \/ /\ phase' \notin Early \cup {"dispatch", "callback"}
            /\ phase # "callback" /\ ~(phase = "dispatch" /\ current = Query)
         \/ phase' \in Ended
  PROVE  AnswerInv'
<1>1. UNCHANGED <<Served, Queries, Responses, Updates, current>>
  BY SendsNeither, HandlesNone DEF current
<1>2. InProgress'
  BY <1>1 DEF AnswerInv, InProgress, Early, Ended
<1>3. ASSUME peer' = "open", Active'
      PROVE  Balanced'
  <2>1. Balanced
    BY <1>3 DEF AnswerInv
  <2>2. ResponseOwed' = ResponseOwed /\ UpdateOwed' = UpdateOwed
    BY <1>1, <1>3 DEF ResponseOwed, UpdateOwed, Active, Ended
  <2>3. QED
    BY <1>1, <2>1, <2>2 DEF Balanced
<1>4. QED
  BY <1>2, <1>3 DEF AnswerInv

LEMMA ConnectAnswer ==
  ASSUME TypeInv, SetupInv, AnswerInv, Connect
  PROVE  AnswerInv'
<1>1. UNCHANGED <<handled, sent>> /\ phase = "start" /\ phase' \in {"connected", "exited"}
  BY DEF Connect
<1>2. handled = << >> /\ sent = << >>
  BY <1>1 DEF AnswerInv, InProgress, SetupInv, StartUp, Early
<1>3. /\ Served' = << >> /\ Queries' = << >> /\ Responses' = << >> /\ Updates' = << >>
      /\ Len(<< >>) = 0
  BY <1>1, <1>2, KeptThen, KeepEmpty
<1>4. ResponseOwed' = 0 /\ UpdateOwed' = 0
  BY <1>1 DEF ResponseOwed, UpdateOwed
<1>5. Balanced'
  BY <1>3, <1>4 DEF Balanced
<1>6. InProgress'
  BY <1>1, <1>2 DEF InProgress
<1>7. QED
  BY <1>5, <1>6 DEF AnswerInv

LEMMA ReceiveAnswer ==
  ASSUME TypeInv, AnswerInv, Receive
  PROVE  AnswerInv'
<1>1. phase = "recv" /\ UNCHANGED <<sent, peer>>
  BY DEF Receive
<1>2. CASE phase' \in {"returned", "exited"} /\ UNCHANGED handled
  <2>1. phase' \in Ended /\ UNCHANGED handled
    BY <1>2 DEF Ended
  <2>2. QED
    BY <1>1, <2>1, QuietAnswer DEF Active
<1>3. CASE /\ inbox # << >> /\ phase' = "dispatch"
           /\ handled' = Append(handled, [pdu |-> Head(inbox), late |-> ~running,
                                          called |-> FALSE, noFunction |-> FALSE])
  <2> DEFINE h == [pdu |-> Head(inbox), late |-> ~running,
                   called |-> FALSE, noFunction |-> FALSE]
  <2>1. Head(inbox) \in PeerPdus
    BY <1>3, HeadTailProperties DEF TypeInv, TypeOK
  <2>2. h \in Handling /\ ~h.called
    BY <2>1 DEF Handling, TypeInv, TypeOK
  <2>3. handled' = Append(handled, h)
    BY <1>3
  <2> HIDE DEF h
  <2>4. /\ Served' = Served
        /\ Queries' = IF h.pdu = Query THEN Append(Queries, h) ELSE Queries
        /\ current' = h.pdu /\ ~handled'[Len(handled')].called
    BY <2>2, <2>3, Receives
  <2>5. UNCHANGED <<Responses, Updates>>
    BY <1>1, SendsNeither
  <2>6. InProgress'
    BY <1>3, <2>4 DEF InProgress, Early
  <2>7. ASSUME peer' = "open"
        PROVE  Balanced'
    <3>1. Balanced /\ ResponseOwed = 0 /\ UpdateOwed = 0
      BY <1>1, <2>7 DEF AnswerInv, Active, Ended, ResponseOwed, UpdateOwed
    <3>2. Queries \in Seq(Handling) /\ Len(Queries) \in Nat
      BY KeptTypes, LenProperties
    <3>3. Len(Append(Queries, h)) = Len(Queries) + 1
      BY <2>2, <3>2, AppendProperties
    <3>4. ResponseOwed' = 0 /\ UpdateOwed' = IF h.pdu = Query THEN 1 ELSE 0
      BY <1>3, <2>4 DEF ResponseOwed, UpdateOwed
    <3>5. Len(Queries') - UpdateOwed' = Len(Queries)
      BY <2>4, <3>2, <3>3, <3>4
    <3>6. QED
      BY <2>4, <2>5, <3>1, <3>2, <3>4, <3>5 DEF Balanced
  <2>8. QED
    BY <2>6, <2>7 DEF AnswerInv
<1>4. QED
  BY <1>2, <1>3 DEF Receive

\* A message that answers nothing.
LEMMA OtherAnswer ==
  ASSUME TypeInv, AnswerInv, NEW m \in AgentPdus, ~IsResponse(m), ~IsUpdate(m),
         NEW next, next \notin Early \cup {"dispatch", "callback"}, Send(m, next),
         UNCHANGED <<handled, peer>>, phase # "callback", Active,
         ~(phase = "dispatch" /\ current = Query)
  PROVE  AnswerInv'
<1>1. phase' \in {next, "exited"}
  BY DEF Send
<1>2. UNCHANGED <<Responses, Updates, Served, Queries>>
  BY Sends, SendsNeither, HandlesNone DEF Send
<1>3. InProgress'
  BY <1>1 DEF InProgress, Early
<1>4. ResponseOwed' = 0 /\ ResponseOwed = 0 /\ UpdateOwed' = 0 /\ UpdateOwed = 0
  BY <1>1 DEF ResponseOwed, UpdateOwed
<1>5. Balanced => Balanced'
  BY <1>2, <1>4 DEF Balanced
<1>6. peer' = "open" /\ Active' => Balanced'
  BY <1>5 DEF AnswerInv
<1>7. QED
  BY <1>3, <1>6 DEF AnswerInv

LEMMA QueryAnswer ==
  ASSUME TypeInv, AnswerInv, HandleServiceQuery
  PROVE  AnswerInv'
<1> DEFINE m == ServiceUpdate(ran_functions_registered)
<1>1. m \in AgentPdus /\ IsUpdate(m) /\ ~IsResponse(m)
  BY MessageTypes DEF ServiceUpdate, IsUpdate, IsResponse, TypeInv, TypeOK
<1>2. /\ phase = "dispatch" /\ current.proc = "RICserviceQuery" /\ current.kind = "initiating"
      /\ Send(m, "loop") \/ (phase' = "exited" /\ UNCHANGED sent)
      /\ UNCHANGED <<handled, peer>>
  BY DEF HandleServiceQuery, Dispatch
<1> HIDE DEF m
<1>3. current = Query
  <2>1. current \in PeerPdus /\ "RICserviceQuery" \in PlainProcs
    BY <1>2, LastHandling DEF Serving, PlainProcs
  <2>2. QED
    BY <1>2, <2>1, KnownPlain DEF Query
<1>4. phase' \in {"loop", "exited"}
  BY <1>2 DEF Send
<1>5. InProgress'
  BY <1>4 DEF InProgress, Early
<1>6. ASSUME peer' = "open", Active'
      PROVE  Balanced'
  <2>1. Balanced /\ ResponseOwed = 0 /\ UpdateOwed = 1
    BY <1>2, <1>3, <1>6 DEF AnswerInv, Active, Ended, ResponseOwed, UpdateOwed
  <2>2. ResponseOwed' = 0 /\ UpdateOwed' = 0
    BY <1>4 DEF ResponseOwed, UpdateOwed
  <2>3. sent' = Append(sent, m)
    BY <1>2, <1>6 DEF Send, Active, Ended
  <2>4. UNCHANGED <<Responses, Served, Queries>> /\ Updates' = Append(Updates, m)
    BY <1>1, <1>2, <2>3, Sends, HandlesNone
  <2>5. Len(Updates') = Len(Updates) + 1
    BY <1>1, <2>4, KeptTypes, AppendProperties
  <2>6. Len(Queries) \in Nat
    BY KeptTypes, LenProperties
  <2>7. Len(Updates') = Len(Queries')
    BY <2>1, <2>4, <2>5, <2>6 DEF Balanced
  <2>8. QED
    BY <2>1, <2>2, <2>4, <2>6, <2>7 DEF Balanced
<1>7. QED
  BY <1>5, <1>6 DEF AnswerInv

LEMMA RequestAnswer ==
  ASSUME TypeInv, AnswerInv, HandleSubscriptionRequest
  PROVE  AnswerInv'
<1> DEFINE n == Len(handled)  h == handled[n]
<1>1. phase = "dispatch" /\ UNCHANGED <<sent, peer>>
  BY DEF HandleSubscriptionRequest, Dispatch
<1>2. current \in SubscriptionRequests /\ current # Query
  <2>1. current \in SubscriptionRequests
    BY <1>1, LastHandling, DispatchedRequest DEF HandleSubscriptionRequest, Dispatch, Serving
  <2>2. QED
    BY <2>1, Distinct DEF Query
<1>3. n \in 1 .. n /\ h \in Handling /\ h.pdu = current /\ ~h.called
  BY <1>1, LastHandling DEF Serving, current, AnswerInv, InProgress
<1>4. UNCHANGED <<Responses, Updates>>
  BY <1>1, SendsNeither
<1>5. peer' = "open" => Balanced /\ ResponseOwed = 0 /\ UpdateOwed = 0
  BY <1>1, <1>2 DEF AnswerInv, Active, Ended, ResponseOwed, UpdateOwed
<1>6. PICK f : CallSubscriptionCallback(f) \/ NoSuchFunction(f)
  BY DEF HandleSubscriptionRequest
<1>7. CASE CallSubscriptionCallback(f)
  <2> DEFINE x == [h EXCEPT !.called = TRUE]
  <2>1. x \in Handling /\ x.pdu = current /\ x.called
    BY <1>3 DEF Handling
  <2>2. handled' = [handled EXCEPT ![n] = x] /\ phase' = "callback"
    BY <1>7 DEF CallSubscriptionCallback
  <2>3. current' = current
    BY <1>1, <1>7, MarkedCurrent DEF CallSubscriptionCallback, Serving
  <2> HIDE DEF x
  <2>4. Queries' = Queries /\ Served \in Seq(Handling) /\ Served' = Append(Served, x)
    BY <1>1, <1>2, <1>3, <2>1, <2>2, Marks DEF Serving
  <2>5. /\ Len(Served) \in Nat /\ Len(Served') = Len(Served) + 1 /\ Served' # << >>
        /\ Served'[Len(Served')] = x /\ \A i \in 1 .. Len(Served) : Served'[i] = Served[i]
    <3>1. /\ Len(Served) \in Nat /\ Len(Served') = Len(Served) + 1
          /\ Served'[Len(Served')] = x /\ \A i \in 1 .. Len(Served) : Served'[i] = Served[i]
      BY <2>1, <2>4, AppendProperties, LenProperties
    <3>2. Len(<< >>) = 0 /\ Len(Served') # 0
      BY <3>1
    <3>3. QED
      BY <3>1, <3>2
  <2>6. InProgress'
    BY <2>1, <2>2, <2>3, <2>5 DEF InProgress, Early
  <2>7. ResponseOwed' = 1 /\ UpdateOwed' = 0
    BY <2>2 DEF ResponseOwed, UpdateOwed
  <2>8. peer' = "open" => Balanced'
    BY <1>4, <1>5, <2>4, <2>5, <2>7 DEF Balanced
  <2>9. QED
    BY <2>6, <2>8 DEF AnswerInv
<1>8. CASE NoSuchFunction(f)
  <2> DEFINE x == [h EXCEPT !.noFunction = TRUE]
  <2>1. x \in Handling /\ x.pdu = current /\ ~x.called
    BY <1>3 DEF Handling
  <2>2. handled' = [handled EXCEPT ![n] = x] /\ phase' = "loop"
    BY <1>8 DEF NoSuchFunction
  <2> HIDE DEF x
  <2>3. Queries' = Queries /\ Served' = Served
    BY <1>1, <1>2, <1>3, <2>1, <2>2, Marks DEF Serving
  <2>4. InProgress'
    BY <2>2 DEF InProgress, Early
  <2>5. ResponseOwed' = 0 /\ UpdateOwed' = 0
    BY <2>2 DEF ResponseOwed, UpdateOwed
  <2>6. peer' = "open" => Balanced'
    BY <1>4, <1>5, <2>3, <2>5 DEF Balanced
  <2>7. QED
    BY <2>4, <2>6 DEF AnswerInv
<1>9. QED
  BY <1>6, <1>7, <1>8

LEMMA ResponseAnswer ==
  ASSUME TypeInv, LinkInv, AnswerInv, SendSubscriptionResponse
  PROVE  AnswerInv'
<1> DEFINE m == SubscriptionResponse(sub.req, Admitted(sub.details), Rejected(sub.details))
<1>1. phase = "callback" /\ UNCHANGED <<handled, peer>> /\ phase' \in {"open", "exited"}
  BY DEF SendSubscriptionResponse, Send
<1>2. InProgress'
  BY <1>1 DEF InProgress, Early
<1>3. ASSUME peer' = "open", Active'
      PROVE  Balanced'
  <2>1. sent' = Append(sent, m) /\ sub.req # Unencodable
    BY <1>1, <1>3 DEF SendSubscriptionResponse, Send, CanAnswer, Active, Ended
  <2>2. m \in AgentPdus /\ IsResponse(m) /\ ~IsUpdate(m) /\ m.req = sub.req
    <3>1. /\ Admitted(sub.details) \in SUBSET ActionIds
          /\ Rejected(sub.details) \in SUBSET ActionIds /\ sub.req \in RequestIds
      BY <2>1, ScanTypes DEF TypeInv, TypeOK
    <3>2. m \in AgentPdus
      BY <3>1, MessageTypes
    <3>3. QED
      BY <3>2 DEF SubscriptionResponse, IsResponse, IsUpdate
  <2> HIDE DEF m
  <2>3. Balanced /\ ResponseOwed = 1 /\ UpdateOwed = 0
    BY <1>1, <1>3 DEF AnswerInv, Active, Ended, ResponseOwed, UpdateOwed
  <2>4. ResponseOwed' = 0 /\ UpdateOwed' = 0
    BY <1>1 DEF ResponseOwed, UpdateOwed
  <2>5. UNCHANGED <<Updates, Served, Queries>> /\ Responses' = Append(Responses, m)
    BY <1>1, <2>1, <2>2, Sends, HandlesNone
  <2>6. /\ Len(Responses) \in Nat /\ Len(Responses') = Len(Responses) + 1
        /\ Responses'[Len(Responses) + 1] = m
        /\ \A i \in 1 .. Len(Responses) : Responses'[i] = Responses[i]
    BY <2>2, <2>5, KeptTypes, AppendProperties, LenProperties
  <2>7. Len(Served) \in Nat /\ Len(Served) = Len(Responses) + 1
    BY <2>3, <2>6, KeptTypes, LenProperties DEF Balanced
  <2>8. m.req \in RequestIdsRead(Served[Len(Served)].pdu)
    BY <1>1, <2>2 DEF LinkInv, Requested, AnswerInv, InProgress
  <2>9. \A i \in 1 .. Len(Responses') : Responses'[i].req \in RequestIdsRead(Served'[i].pdu)
    <3> TAKE i \in 1 .. Len(Responses')
    <3>1. CASE i \in 1 .. Len(Responses)
      BY <2>3, <2>5, <2>6, <3>1 DEF Balanced
    <3>2. CASE i = Len(Responses) + 1
      BY <2>5, <2>6, <2>7, <2>8, <3>2
    <3>3. QED
      BY <2>6, <3>1, <3>2
  <2>10. QED
    BY <2>3, <2>4, <2>5, <2>6, <2>7, <2>9 DEF Balanced
<1>4. QED
  BY <1>2, <1>3 DEF AnswerInv

\* The report that cannot be made is marked on the request in hand.
LEMMA OutOfRangeAnswer ==
  ASSUME TypeInv, AnswerInv, ReportOutOfRange, current # Query
  PROVE  AnswerInv'
<1> DEFINE n == Len(handled)  h == handled[n]  x == [h EXCEPT !.noFunction = TRUE]
<1>1. /\ phase = "reporting" /\ phase' \in {"loop", "joining"} /\ UNCHANGED <<sent, peer>>
      /\ handled' = [handled EXCEPT ![n] = x]
  BY DEF ReportOutOfRange, AfterReports
<1>2. h \in Handling /\ h.pdu = current
  BY <1>1, LastHandling DEF Serving, current
<1>3. x \in Handling /\ x.pdu = current /\ x.called = h.called
  BY <1>2 DEF Handling
<1> HIDE DEF h, x
<1>4. Queries' = Queries /\ \E s \in Seq(Handling) :
           /\ Served = IF h.called THEN Append(s, h) ELSE s
           /\ Served' = IF x.called THEN Append(s, x) ELSE s
  BY <1>1, <1>3, Marks DEF Serving, h
<1>5. PICK s \in Seq(Handling) : /\ Served = IF h.called THEN Append(s, h) ELSE s
                                 /\ Served' = IF h.called THEN Append(s, x) ELSE s
  BY <1>3, <1>4
<1>6. /\ Len(Served) \in Nat /\ Len(Served') = Len(Served)
      /\ \A i \in 1 .. Len(Served) : Served'[i].pdu = Served[i].pdu
  <2>1. Len(s) \in Nat
    BY LenProperties
  <2>2. ASSUME NEW e \in Handling
        PROVE  /\ Len(Append(s, e)) = Len(s) + 1 /\ Append(s, e)[Len(s) + 1] = e
               /\ \A i \in 1 .. Len(s) : Append(s, e)[i] = s[i]
    BY AppendProperties
  <2>3. CASE h.called
    <3>1. /\ Len(Served) = Len(s) + 1 /\ Len(Served') = Len(s) + 1
          /\ Served[Len(s) + 1].pdu = Served'[Len(s) + 1].pdu
          /\ \A i \in 1 .. Len(s) : Served'[i] = Served[i]
      BY <1>2, <1>3, <1>5, <2>2, <2>3
    <3>2. \A i \in 1 .. Len(s) + 1 : i = Len(s) + 1 \/ i \in 1 .. Len(s)
      BY <2>1
    <3>3. QED
      BY <2>1, <3>1, <3>2
  <2>4. CASE ~h.called
    BY <1>5, <2>1, <2>4
  <2>5. QED
    BY <2>3, <2>4
<1>7. UNCHANGED <<Responses, Updates>>
  BY <1>1, SendsNeither
<1>8. ResponseOwed = 0 /\ UpdateOwed = 0 /\ ResponseOwed' = 0 /\ UpdateOwed' = 0
  BY <1>1 DEF ResponseOwed, UpdateOwed
<1>9. InProgress'
  BY <1>1 DEF InProgress, Early
<1>10. peer' = "open" => Balanced'
  <2>1. SUFFICES ASSUME peer' = "open" PROVE Balanced'
    OBVIOUS
  <2>2. Balanced
    BY <1>1, <2>1 DEF AnswerInv, Active, Ended
  <2>3. QED
    BY <1>4, <1>6, <1>7, <1>8, <2>2 DEF Balanced
<1>11. QED
  BY <1>9, <1>10 DEF AnswerInv

\* The callback and its report loop work for no service query.
ForRequest == phase \in Answering => current # Query

LEMMA NextForRequest ==
  ASSUME TypeInv, Requested, ForRequest, Next
  PROVE  ForRequest'
<1>1. CASE SendSubscriptionResponse
  <2>1. phase = "callback" /\ UNCHANGED handled
    BY <1>1 DEF SendSubscriptionResponse
  <2>2. current \in SubscriptionRequests /\ current' = current
    BY <2>1 DEF Requested, current
  <2>3. QED
    BY <2>2, Distinct DEF ForRequest, Query
<1>2. CASE ReadLine
  BY <1>2 DEF ReadLine, ForRequest, Answering, current
<1>3. CASE OpenReports \/ SendIndication \/ EndOfLine
  BY <1>3 DEF OpenReports, SendIndication, EndOfLine, ForRequest, Answering, current
<1>4. CASE RicSends \/ RicEnds \/ Signal \/ TesterSendsLine \/ TesterEnds
  BY <1>4 DEF RicSends, RicEnds, Signal, TesterSendsLine, TesterEnds, ForRequest, Answering,
    current
<1>5. CASE Next /\ ~(SendSubscriptionResponse \/ ReadLine \/ OpenReports \/ SendIndication
                     \/ EndOfLine \/ RicSends \/ RicEnds \/ Signal \/ TesterSendsLine
                     \/ TesterEnds)
  <2>1. phase' \notin Answering
    BY <1>5 DEF Next, AgentStep, Environment, Register, Connect, SendSetup, Send,
      CheckRunning, Receive, DecodeFails, HandleE2SetupRequest, SendOwnSubscription,
      HandleServiceQuery, LogOnly, HandleSubscriptionRequest, CallSubscriptionCallback,
      NoSuchFunction, EndOfReports, AfterReports, ReportOutOfRange, ReportFatal,
      JoinConnector, ConnectorAborts, Answering
  <2>2. QED
    BY <2>1 DEF ForRequest
<1>6. QED
  BY <1>1, <1>2, <1>3, <1>4, <1>5

LEMMA SendingAnswer ==
  ASSUME TypeInv, AnswerInv, ForRequest,
         SendSetup \/ HandleE2SetupRequest \/ SendOwnSubscription \/ SendIndication
  PROVE  AnswerInv'
<1>1. CASE SendSetup
  <2> DEFINE m == SetupRequest(ran_functions_registered)
  <2>1. phase = "connected" /\ UNCHANGED <<handled, peer>>
    BY <1>1 DEF SendSetup
  <2>2. m \in AgentPdus /\ ~IsResponse(m) /\ ~IsUpdate(m)
    BY MessageTypes DEF SetupRequest, IsResponse, IsUpdate, TypeInv, TypeOK
  <2> HIDE DEF m
  <2>3. CASE Send(m, "loop")
    BY <2>1, <2>2, <2>3, OtherAnswer DEF Early, Active, Ended
  <2>4. CASE phase' = "exited" /\ UNCHANGED sent
    BY <2>1, <2>4, QuietAnswer DEF Active, Ended
  <2>5. QED
    BY <1>1, <2>3, <2>4 DEF SendSetup, m
<1>2. CASE HandleE2SetupRequest
  <2>1. phase = "dispatch" /\ current.proc = "E2setup" /\ UNCHANGED <<handled, peer>>
        /\ Send(SetupResponse, "sleep")
    BY <1>2 DEF HandleE2SetupRequest, Dispatch
  <2>2. SetupResponse \in AgentPdus /\ ~IsResponse(SetupResponse) /\ ~IsUpdate(SetupResponse)
    BY MessageTypes DEF SetupResponse, Plain, IsResponse, IsUpdate
  <2>3. current # Query
    BY <2>1 DEF Query, Plain
  <2>4. QED
    BY <2>1, <2>2, <2>3, OtherAnswer DEF Early, Active, Ended
<1>3. CASE SendOwnSubscription
  <2> DEFINE m == OwnSubscriptionRequest(OwnRequestId, OwnActionId)
  <2>1. phase = "sleep" /\ UNCHANGED <<handled, peer>> /\ Send(m, "loop")
    BY <1>3 DEF SendOwnSubscription
  <2>2. m \in AgentPdus
    BY OwnRequestType
  <2>3. ~IsResponse(m) /\ ~IsUpdate(m)
    BY DEF OwnSubscriptionRequest, SubscriptionRequest, IsResponse, IsUpdate
  <2> HIDE DEF m
  <2>4. QED
    BY <2>1, <2>2, <2>3, OtherAnswer DEF Early, Active, Ended
<1>4. CASE SendIndication
  <2> DEFINE m == Indication(sub.req, gFuncId, sub.action, <<line, item>>)
  <2>1. phase = "reporting" /\ UNCHANGED <<handled, peer>> /\ Send(m, "reporting")
    BY <1>4 DEF SendIndication
  <2>2. m \in AgentPdus
    <3>1. /\ sub.req \in RequestIds /\ sub.action \in ActionIds /\ gFuncId \in FunctionIds
          /\ input \in Seq(Lines) /\ line \in 0 .. Len(input) /\ item \in Nat
      BY <2>1 DEF TypeInv, TypeOK, PhaseData, Answering
    <3>2. <<line, item>> \in Reports
      BY <3>1, LenProperties DEF Reports
    <3>3. QED
      BY <3>1, <3>2, MessageTypes
  <2>3. ~IsResponse(m) /\ ~IsUpdate(m)
    BY DEF Indication, IsResponse, IsUpdate
  <2> HIDE DEF m
  <2>4. QED
    BY <2>1, <2>2, <2>3, OtherAnswer DEF Early, Active, Ended
<1>5. QED
  BY <1>1, <1>2, <1>3, <1>4

LEMMA OtherStepAnswer ==
  ASSUME TypeInv, AnswerInv,
         \/ Register \/ CheckRunning \/ DecodeFails \/ LogOnly \/ OpenReports \/ ReadLine
         \/ EndOfReports \/ EndOfLine \/ ReportFatal \/ JoinConnector \/ ConnectorAborts
         \/ Environment
  PROVE  AnswerInv'
<1>1. CASE Register
  <2>1. UNCHANGED <<handled, sent, peer>> /\ phase = "main" /\ phase' = "start"
    BY <1>1 DEF Register
  <2>2. UNCHANGED <<Served, Queries, Responses, Updates>>
    BY <2>1, SendsNeither, HandlesNone
  <2>3. InProgress'
    BY <2>1 DEF AnswerInv, InProgress, Early
  <2>4. Balanced => Balanced'
    BY <2>1, <2>2 DEF Balanced, ResponseOwed, UpdateOwed
  <2>5. Active
    BY <2>1 DEF Active, Ended
  <2>6. peer' = "open" => Balanced'
    BY <2>1, <2>4, <2>5 DEF AnswerInv
  <2>7. QED
    BY <2>3, <2>6 DEF AnswerInv
<1>2. CASE CheckRunning
  BY <1>2, QuietAnswer DEF CheckRunning, Active, Ended, Early
<1>3. CASE DecodeFails \/ ReportFatal \/ ConnectorAborts
  BY <1>3, QuietAnswer DEF DecodeFails, ReportFatal, ConnectorAborts, Active, Ended
<1>4. CASE LogOnly
  <2>1. current # Query
    BY <1>4 DEF LogOnly, Query
  <2>2. QED
    BY <1>4, <2>1, QuietAnswer DEF LogOnly, Active, Ended, Early
<1>5. CASE ReadLine
  <2>1. phase' \in {"exited", "reading", "reporting"} /\ phase = "reading"
        /\ UNCHANGED <<handled, sent, peer>>
    BY <1>5 DEF ReadLine
  <2>2. QED
    BY <2>1, QuietAnswer DEF Active, Ended, Early
<1>6. CASE OpenReports \/ EndOfReports \/ EndOfLine \/ JoinConnector
  BY <1>6, QuietAnswer DEF OpenReports, EndOfReports, AfterReports, EndOfLine, JoinConnector,
    Active, Ended, Early
<1>7. CASE Environment
  BY <1>7, QuietAnswer DEF Environment, RicSends, RicEnds, Signal, TesterSendsLine, TesterEnds,
    Active, Ended
<1>8. QED
  BY <1>1, <1>2, <1>3, <1>4, <1>5, <1>6, <1>7

AnswerLinkInv == AnswerInv /\ ForRequest

LEMMA NextAnswer ==
  TypeInv /\ SetupInv /\ LinkInv /\ AnswerLinkInv /\ [Next]_vars => AnswerLinkInv'
<1> SUFFICES ASSUME TypeInv, SetupInv, LinkInv, AnswerLinkInv, [Next]_vars
             PROVE  AnswerLinkInv'
  OBVIOUS
<1>1. CASE UNCHANGED vars
  <2>1. UNCHANGED <<phase, handled, sent, peer>>
    BY <1>1 DEF vars
  <2>2. AnswerInv'
    BY <2>1, QuietAnswer DEF AnswerLinkInv, Active
  <2>3. QED
    BY <2>1, <2>2 DEF AnswerLinkInv, ForRequest, current
<1>2. CASE Next
  <2>1. ForRequest'
    BY <1>2, NextForRequest DEF AnswerLinkInv, LinkInv
  <2>2. CASE ReportOutOfRange
    <3>1. current # Query
      BY <2>2 DEF ReportOutOfRange, AnswerLinkInv, ForRequest, Answering
    <3>2. QED
      BY <2>1, <2>2, <3>1, OutOfRangeAnswer DEF AnswerLinkInv
  <2>3. CASE ~ReportOutOfRange
    <3>1. AnswerInv'
      BY <1>2, <2>3, ConnectAnswer, ReceiveAnswer, QueryAnswer, RequestAnswer,
        ResponseAnswer, SendingAnswer, OtherStepAnswer DEF AnswerLinkInv, Next, AgentStep
    <3>2. QED
      BY <2>1, <3>1 DEF AnswerLinkInv
  <2>4. QED
    BY <2>2, <2>3
<1>3. QED
  BY <1>1, <1>2

LEMMA InitAnswerLink == Init => AnswerLinkInv
BY InitAnswer DEF AnswerLinkInv, ForRequest, Answering, Init

\* However many requests and queries the RIC sends, and whatever else comes
\* between them: while the association stands each has one answer, in order.
THEOREM AnswersInOrder == Spec => []OneAnswerEach
<1>1. AnswerLinkInv => OneAnswerEach
  BY AnswersAre DEF AnswerLinkInv, AnswerInv
<1>2. QED
  BY <1>1, InitAnswerLink, InitType, NextType, InitSetup, NextSetup, InitLink, NextLink, NextAnswer,
    PTL DEF Spec

-----------------------------------------------------------------------------
(* Two statements of the repository that the agent does not keep, and the only *)
(* circumstances under which it breaks each.                                   *)

Asks == RicPdus \cap SubscriptionRequests

\* Of every request all actions are admitted: it has one list at least, not too
\* many, and each of them has one action, to report.
AllAnswerable == \A m \in Asks, r \in RequestIds : CanAnswer(r, m.details)

\* No report is about a UE whose name has no number.
AllInRange == \A l \in Lines : \A i \in 1 .. Len(l.reports) : l.reports[i] # "outOfRange"

\* What is on its way and what has arrived is what the RIC may send.
FromRic == inbox \in Seq(RicPdus) /\ \A i \in 1 .. Len(handled) : handled[i].pdu \in RicPdus

LEMMA CurrentFromRic ==
  ASSUME TypeInv, FromRic, phase \in Serving
  PROVE  current \in RicPdus
BY LastHandling DEF FromRic, current

LEMMA MarkedFromRic ==
  ASSUME TypeInv, FromRic, phase \in Serving, inbox' = inbox,
         \/ handled' = [handled EXCEPT ![Len(handled)].called = TRUE]
         \/ handled' = [handled EXCEPT ![Len(handled)].noFunction = TRUE]
  PROVE  FromRic'
<1> DEFINE n == Len(handled)  h == handled[n]
<1>1. n \in 1 .. n /\ h \in Handling /\ handled \in Seq(Handling)
  BY LastHandling DEF TypeInv, TypeOK
<1>2. /\ [h EXCEPT !.called = TRUE] \in Handling /\ [h EXCEPT !.noFunction = TRUE] \in Handling
      /\ [h EXCEPT !.called = TRUE].pdu = h.pdu /\ [h EXCEPT !.noFunction = TRUE].pdu = h.pdu
  BY <1>1 DEF Handling
<1>3. PICK x \in Handling : handled' = [handled EXCEPT ![n] = x] /\ x.pdu = h.pdu
  BY <1>2
<1>4. Len(handled') = n /\ \A i \in 1 .. n : handled'[i].pdu = handled[i].pdu
  BY <1>1, <1>3, ExceptSeq
<1>5. QED
  BY <1>4 DEF FromRic

LEMMA NextFromRic == TypeInv /\ FromRic /\ [Next]_vars => FromRic'
<1> SUFFICES ASSUME TypeInv, FromRic, [Next]_vars PROVE FromRic'
  OBVIOUS
<1>1. CASE UNCHANGED <<inbox, handled>>
  BY <1>1 DEF FromRic
<1>2. CASE Receive
  <2>1. SUFFICES ASSUME inbox # << >>, inbox' = Tail(inbox),
                        handled' = Append(handled, [pdu |-> Head(inbox), late |-> ~running,
                                                    called |-> FALSE, noFunction |-> FALSE])
                 PROVE  FromRic'
    BY <1>1, <1>2 DEF Receive
  <2> DEFINE h == [pdu |-> Head(inbox), late |-> ~running, called |-> FALSE, noFunction |-> FALSE]
  <2>2. Head(inbox) \in RicPdus /\ Tail(inbox) \in Seq(RicPdus)
    BY <2>1, HeadTailProperties DEF FromRic
  <2>3. h \in Handling /\ h.pdu \in RicPdus
    BY <2>2, AgentAssumption DEF Handling, TypeInv, TypeOK
  <2> HIDE DEF h
  <2>4. /\ Len(handled) \in Nat /\ Len(handled') = Len(handled) + 1
        /\ handled'[Len(handled) + 1] = h
        /\ \A i \in 1 .. Len(handled) : handled'[i] = handled[i]
    BY <2>1, <2>3, AppendProperties, LenProperties DEF h, TypeInv, TypeOK
  <2>5. \A i \in 1 .. Len(handled') : handled'[i].pdu \in RicPdus
    BY <2>3, <2>4 DEF FromRic
  <2>6. QED
    BY <2>1, <2>2, <2>5 DEF FromRic
<1>3. CASE HandleSubscriptionRequest
  BY <1>3, MarkedFromRic DEF HandleSubscriptionRequest, Dispatch, CallSubscriptionCallback,
    NoSuchFunction, Serving
<1>4. CASE ReportOutOfRange
  BY <1>4, MarkedFromRic DEF ReportOutOfRange, Serving
<1>5. CASE RicSends
  BY <1>5, AppendProperties DEF RicSends, FromRic
<1>6. CASE ~(Receive \/ HandleSubscriptionRequest \/ ReportOutOfRange \/ RicSends)
  <2>1. UNCHANGED <<inbox, handled>>
    BY <1>6 DEF vars, Next, AgentStep, Environment, Register, Connect, SendSetup, CheckRunning,
      DecodeFails, HandleE2SetupRequest, SendOwnSubscription, HandleServiceQuery, LogOnly,
      SendSubscriptionResponse, OpenReports, ReadLine, EndOfReports, SendIndication, EndOfLine,
      ReportFatal, JoinConnector, ConnectorAborts, RicEnds, Signal, TesterSendsLine, TesterEnds
  <2>2. QED
    BY <1>1, <2>1
<1>7. QED
  BY <1>2, <1>3, <1>4, <1>5, <1>6

LEMMA InitFromRic == Init => FromRic
<1>1. Len(<< >>) = 0
  OBVIOUS
<1>2. QED
  BY <1>1 DEF Init, FromRic

LEMMA NextNoFunction ==
  ASSUME AllInRange, TypeInv, SeqInv, AnswerLinkInv, NoFunctionMeansNone, [Next]_vars
  PROVE  NoFunctionMeansNone'
<1> DEFINE n == Len(handled)  h == handled[n]
<1>1. CASE UNCHANGED <<handled, subscription_callbacks>>
  BY <1>1 DEF NoFunctionMeansNone
<1>2. CASE Register
  <2>1. handled' = << >> /\ Len(<< >>) = 0
    BY <1>2 DEF Register, AnswerLinkInv, AnswerInv, InProgress, Early
  <2>2. QED
    BY <2>1 DEF NoFunctionMeansNone
<1>3. CASE Receive
  <2>1. CASE UNCHANGED handled
    BY <1>1, <1>3, <2>1 DEF Receive, agentVars
  <2>2. CASE handled' = Append(handled, [pdu |-> Head(inbox), late |-> ~running,
                                         called |-> FALSE, noFunction |-> FALSE])
    <3> DEFINE x == [pdu |-> Head(inbox), late |-> ~running, called |-> FALSE, noFunction |-> FALSE]
    <3>1. inbox \in Seq(PeerPdus) /\ (inbox # << >> => Head(inbox) \in PeerPdus)
      BY HeadTailProperties DEF TypeInv, TypeOK
    <3>2. CASE inbox # << >>
      <4>1. x \in Handling /\ ~x.noFunction
        BY <3>1, <3>2 DEF Handling, TypeInv, TypeOK
      <4> HIDE DEF x
      <4>2. /\ n \in Nat /\ Len(handled') = n + 1 /\ handled'[n + 1] = x
            /\ \A i \in 1 .. n : handled'[i] = handled[i]
        BY <2>2, <4>1, AppendProperties, LenProperties DEF x, TypeInv, TypeOK
      <4>3. subscription_callbacks' = subscription_callbacks
        BY <1>3 DEF Receive, agentVars
      <4>4. QED
        BY <4>1, <4>2, <4>3 DEF NoFunctionMeansNone
    <3>3. CASE inbox = << >>
      BY <1>1, <1>3, <3>3 DEF Receive, agentVars
    <3>4. QED
      BY <3>2, <3>3
  <2>3. QED
    BY <1>3, <2>1, <2>2 DEF Receive
<1>4. CASE HandleSubscriptionRequest
  <2>1. phase \in Serving /\ subscription_callbacks' = subscription_callbacks
    BY <1>4 DEF HandleSubscriptionRequest, Dispatch, Serving, agentVars
  <2>2. PICK f \in FunctionIdsRead(current) : CallSubscriptionCallback(f) \/ NoSuchFunction(f)
    BY <1>4 DEF HandleSubscriptionRequest
  <2>3. n \in 1 .. n /\ h \in Handling /\ handled \in Seq(Handling) /\ h.pdu = current
    BY <2>1, LastHandling DEF TypeInv, TypeOK, current
  <2>4. PICK x \in Handling : /\ handled' = [handled EXCEPT ![n] = x] /\ x.pdu = current
                              /\ x.noFunction => h.noFunction \/ f \notin subscription_callbacks
    <3>1. /\ [h EXCEPT !.called = TRUE] \in Handling /\ [h EXCEPT !.noFunction = TRUE] \in Handling
          /\ [h EXCEPT !.called = TRUE].pdu = h.pdu /\ [h EXCEPT !.noFunction = TRUE].pdu = h.pdu
          /\ [h EXCEPT !.called = TRUE].noFunction = h.noFunction
      BY <2>3 DEF Handling
    <3>2. QED
      BY <2>2, <2>3, <3>1 DEF CallSubscriptionCallback, NoSuchFunction
  <2>5. /\ Len(handled') = n /\ handled'[n] = x
        /\ \A i \in 1 .. n : i # n => handled'[i] = handled[i]
    BY <2>3, <2>4, ExceptSeq
  <2>6. x.noFunction => FunctionIdsRead(x.pdu) \ subscription_callbacks # {}
    BY <2>2, <2>3, <2>4 DEF NoFunctionMeansNone
  <2>7. QED
    BY <2>1, <2>5, <2>6 DEF NoFunctionMeansNone
<1>5. CASE ReportOutOfRange
  <2>1. phase = "reporting" /\ item <= Len(reports) /\ reports[item] = "outOfRange"
    BY <1>5 DEF ReportOutOfRange
  <2>2. line \in 1 .. Len(input) /\ input \in Seq(Lines)
    BY <2>1 DEF TypeInv, TypeOK, PhaseData
  <2>3. input[line] \in Lines
    BY <2>2, ElementOfSeq
  <2>4. item \in 1 .. Len(reports)
    <3>1. reports \in Seq(Fates)
      BY <2>2, LineTypes DEF reports
    <3>2. item \in 1 .. (Len(reports) + 1) /\ Len(reports) \in Nat
      BY <2>1, <3>1, LenProperties DEF SeqInv, Item
    <3>3. QED
      BY <2>1, <3>2
  <2>5. QED
    BY <2>1, <2>3, <2>4 DEF AllInRange, reports
<1>6. CASE ~(Register \/ Receive \/ HandleSubscriptionRequest \/ ReportOutOfRange)
  <2>1. UNCHANGED <<subscription_callbacks, handled>>
    BY <1>6 DEF vars, agentVars, Next, AgentStep, Environment, Connect, SendSetup, CheckRunning,
      DecodeFails, HandleE2SetupRequest, SendOwnSubscription, HandleServiceQuery, LogOnly,
      SendSubscriptionResponse, OpenReports, ReadLine, EndOfReports, SendIndication, EndOfLine,
      ReportFatal, JoinConnector, ConnectorAborts, RicSends, RicEnds, Signal, TesterSendsLine,
      TesterEnds
  <2>2. QED
    BY <1>1, <2>1
<1>7. QED
  BY <1>2, <1>3, <1>4, <1>5, <1>6

\* When no report throws, "no RAN function with this ID" is logged only of a
\* function without a callback.
THEOREM NoFunctionWhenInRange ==
  ASSUME AllInRange
  PROVE  Spec => []NoFunctionMeansNone
<1>1. Init => NoFunctionMeansNone
  <2>1. Len(<< >>) = 0
    OBVIOUS
  <2>2. QED
    BY <2>1 DEF Init, NoFunctionMeansNone
<1>2. TypeInv /\ SeqInv /\ AnswerLinkInv /\ NoFunctionMeansNone /\ [Next]_vars
        => NoFunctionMeansNone'
  BY NextNoFunction
<1>3. QED
  BY <1>1, <1>2, InitType, NextType, InitSetup, NextSetup, InitLink, NextLink, InitSeq, NextSeq,
    InitAnswerLink, NextAnswer, PTL DEF Spec

\* The request of the callback, as the RIC sent it.
LEMMA CallbackAsks ==
  ASSUME TypeInv, FromRic, Requested, phase = "callback"
  PROVE  current \in Asks /\ sub.details = current.details
BY CurrentFromRic DEF Requested, Asks, Serving

\* A process that ends on a standing association has nothing left to answer.
NothingOwed == peer = "open" /\ ~Active /\ sub.req # Unencodable =>
                 Len(Responses) = Len(Served)

LEMMA NextNothingOwed ==
  ASSUME AllAnswerable, TypeInv, FromRic, LinkInv, AnswerLinkInv, NothingOwed, [Next]_vars
  PROVE  NothingOwed'
<1>1. CASE UNCHANGED <<phase, peer, handled, sub, sent>>
  BY <1>1, SendsNeither, HandlesNone DEF NothingOwed, Active
<1>2. CASE Active /\ peer' = "open" /\ phase' \in Ended /\ sub'.req # Unencodable
  <2>1. phase # "callback"
    <3>1. SUFFICES ASSUME phase = "callback" PROVE FALSE
      OBVIOUS
    <3>2. sub' = sub => CanAnswer(sub.req, sub.details)
      <4>1. sub' = sub => sub.req \in RequestIds
        BY <1>2 DEF TypeInv, TypeOK
      <4>2. QED
        BY <3>1, <4>1, CallbackAsks DEF AllAnswerable, LinkInv
    <3>3. ~SendSubscriptionResponse
      BY <1>2, <3>2 DEF SendSubscriptionResponse, Send, Ended
    <3>4. QED
      BY <1>2, <3>1, <3>3 DEF vars, Active, Ended, Next, AgentStep, Environment, Register,
        Connect, SendSetup, CheckRunning, Receive, DecodeFails, HandleE2SetupRequest, Dispatch,
        SendOwnSubscription, HandleServiceQuery, LogOnly, HandleSubscriptionRequest, OpenReports,
        ReadLine, EndOfReports, SendIndication, EndOfLine, ReportOutOfRange, ReportFatal,
        JoinConnector, ConnectorAborts, RicSends, RicEnds, Signal, TesterSendsLine, TesterEnds,
        Feeding
  <2>2. peer = "open" /\ UNCHANGED <<handled, sent>>
    <3>1. CASE ReadLine
      BY <1>2, <3>1 DEF ReadLine
    <3>2. CASE HandleSubscriptionRequest
      BY <1>2, <3>2 DEF HandleSubscriptionRequest, CallSubscriptionCallback, NoSuchFunction, Ended
    <3>3. CASE ReportOutOfRange
      BY <1>2, <3>3 DEF ReportOutOfRange, AfterReports, Ended
    <3>4. CASE ~(ReadLine \/ HandleSubscriptionRequest \/ ReportOutOfRange)
      BY <1>2, <3>4 DEF vars, Active, Ended, Next, AgentStep, Environment, Register,
        Connect, SendSetup, Send, CheckRunning, Receive, DecodeFails, HandleE2SetupRequest,
        SendOwnSubscription, HandleServiceQuery, LogOnly, SendSubscriptionResponse, OpenReports,
        EndOfReports, AfterReports, SendIndication, EndOfLine, ReportFatal,
        JoinConnector, ConnectorAborts, RicSends, RicEnds, Signal, TesterSendsLine, TesterEnds,
        Feeding
    <3>5. QED
      BY <3>1, <3>2, <3>3, <3>4
  <2>3. Balanced /\ ResponseOwed = 0
    BY <1>2, <2>1, <2>2 DEF AnswerLinkInv, AnswerInv, ResponseOwed
  <2>4. Len(Served) \in Nat
    BY KeptTypes, LenProperties
  <2>5. UNCHANGED <<Responses, Served>>
    BY <2>2, SendsNeither, HandlesNone
  <2>6. QED
    BY <2>3, <2>4, <2>5 DEF NothingOwed, Balanced
<1>3. CASE ~Active
  <2>1. UNCHANGED vars
    BY <1>3 DEF vars, Active, Ended, Next, AgentStep, Environment, Register,
      Connect, SendSetup, CheckRunning, Receive, DecodeFails, HandleE2SetupRequest, Dispatch,
      SendOwnSubscription, HandleServiceQuery, LogOnly, HandleSubscriptionRequest,
      SendSubscriptionResponse, OpenReports, ReadLine,
      EndOfReports, SendIndication, EndOfLine, ReportOutOfRange, ReportFatal,
      JoinConnector, ConnectorAborts, RicSends, RicEnds, Signal, TesterSendsLine, TesterEnds,
      Feeding
  <2>2. QED
    BY <1>1, <2>1 DEF vars
<1>4. CASE ~(peer' = "open" /\ phase' \in Ended /\ sub'.req # Unencodable)
  BY <1>4 DEF NothingOwed, Active
<1>5. QED
  BY <1>2, <1>3, <1>4

\* A request of which an action is rejected, or no action is admitted, is all that
\* keeps the agent from answering: when there is none, a process that ends while
\* the association stands has answered every request it called the callback for,
\* unless it read no request ID at all.
THEOREM RejectedWhenAnswerable ==
  ASSUME AllAnswerable
  PROVE  Spec => []OtherActionsAreRejected
<1>1. Init => NothingOwed
  BY DEF Init, NothingOwed, Active, Ended
<1>2. TypeInv /\ FromRic /\ LinkInv /\ AnswerLinkInv /\ NothingOwed /\ [Next]_vars
        => NothingOwed'
  BY NextNothingOwed
<1>3. NothingOwed => OtherActionsAreRejected
  BY DEF NothingOwed, OtherActionsAreRejected, Active, Ended
<1>4. QED
  BY <1>1, <1>2, <1>3, InitType, NextType, InitSetup, NextSetup, InitLink, NextLink,
    InitAnswerLink, NextAnswer, InitFromRic, NextFromRic, PTL DEF Spec

\* The callback holds the action ID its scan left, and while it reports, the
\* response it sent has admitted that action.
ActionRead == phase = "callback" => sub.action \in ActionIdsRead(sub.details)
Admits(m)  == IsResponse(m) /\ m.req = sub.req /\ sub.action \in m.admitted
ActionSent == phase \in Answering /\ peer = "open" => \E j \in 1 .. Len(sent) : Admits(sent[j])

ActionInv == ActionRead /\ ActionSent /\ IndicationsCarryAdmittedAction

LEMMA NextActionRead == ActionRead /\ [Next]_vars => ActionRead'
<1> SUFFICES ASSUME ActionRead, [Next]_vars PROVE ActionRead'
  OBVIOUS
<1>1. CASE UNCHANGED vars
  BY <1>1 DEF vars, ActionRead
<1>2. CASE ReadLine
  <2>1. phase' \in {"exited", "reading", "reporting"}
    BY <1>2 DEF ReadLine
  <2>2. QED
    BY <2>1 DEF ActionRead
<1>3. CASE HandleSubscriptionRequest
  <2>1. PICK f : CallSubscriptionCallback(f) \/ NoSuchFunction(f)
    BY <1>3 DEF HandleSubscriptionRequest
  <2>2. CASE CallSubscriptionCallback(f)
    <3>1. PICK r \in RequestIdsRead(current), a \in ActionIdsRead(current.details) :
            sub' = [req |-> r, details |-> current.details, action |-> a]
      BY <2>2 DEF CallSubscriptionCallback
    <3>2. QED
      BY <3>1 DEF ActionRead
  <2>3. CASE NoSuchFunction(f)
    BY <2>3 DEF NoSuchFunction, ActionRead
  <2>4. QED
    BY <2>1, <2>2, <2>3
<1>4. CASE RicSends \/ RicEnds \/ Signal
  BY <1>4 DEF RicSends, RicEnds, Signal, ActionRead
<1>5. CASE Next /\ ~(ReadLine \/ HandleSubscriptionRequest \/ RicSends \/ RicEnds \/ Signal)
  <2>1. phase' # "callback"
    BY <1>5 DEF Next, AgentStep, Environment, Register, Connect, SendSetup, Send,
      CheckRunning, Receive, DecodeFails, HandleE2SetupRequest, SendOwnSubscription,
      HandleServiceQuery, LogOnly, SendSubscriptionResponse, OpenReports, EndOfReports,
      AfterReports, SendIndication, EndOfLine, ReportOutOfRange, ReportFatal, JoinConnector,
      ConnectorAborts, TesterSendsLine, TesterEnds, Feeding
  <2>2. QED
    BY <2>1 DEF ActionRead
<1>6. QED
  BY <1>1, <1>2, <1>3, <1>4, <1>5

\* Where nothing is rejected, the action read last is an admitted one.
LEMMA LastIsAdmitted ==
  ASSUME NEW ds \in Seq(Details), NEW r, CanAnswer(r, ds), NEW a \in ActionIdsRead(ds)
  PROVE  a \in Admitted(ds)
<1> DEFINE as == ds[Len(ds)]  n == Len(as)
<1>1. Len(ds) # 0 /\ Rejected(ds) = {}
  BY DEF CanAnswer
<1>2. ds # << >>
  BY <1>1, EmptySeq
<1>3. Len(ds) \in DOMAIN ds /\ as \in Details
  BY <1>2, LastOfSeq, LenProperties
<1>4. as \in Seq(Actions) /\ as # << >>
  BY <1>3 DEF Details
<1>5. n \in DOMAIN as
  BY <1>4, LastOfSeq, LenProperties
<1>6. a = as[n].id
  BY <1>2 DEF ActionIdsRead
<1>7. n \in FirstReport(as)
  <2>1. SUFFICES ASSUME n \notin FirstReport(as) PROVE FALSE
    OBVIOUS
  <2>2. as[n].id \in {as[i].id : i \in DOMAIN as \ FirstReport(as)}
    BY <1>5, <2>1
  <2>3. as[n].id \in Rejected(ds)
    BY <1>3, <2>2, Zenon DEF Rejected
  <2>4. QED
    BY <1>1, <2>3
<1>8. QED
  BY <1>3, <1>6, <1>7 DEF Admitted

LEMMA ResponseAdmits ==
  ASSUME TypeInv, ActionRead, SendSubscriptionResponse, peer = "open",
         CanAnswer(sub.req, sub.details)
  PROVE  \E m \in AgentPdus : /\ sent' = Append(sent, m) /\ ~IsIndication(m)
                              /\ IsResponse(m) /\ m.req = sub'.req /\ sub'.action \in m.admitted
<1> DEFINE m == SubscriptionResponse(sub.req, Admitted(sub.details), Rejected(sub.details))
<1>1. phase = "callback" /\ sub' = sub /\ sent' = Append(sent, m)
  BY DEF SendSubscriptionResponse, Send
<1>2. sub.details \in Seq(Details) /\ sub.req \in RequestIds
  BY DEF TypeInv, TypeOK, CanAnswer
<1>3. sub.action \in Admitted(sub.details)
  BY <1>1, <1>2, LastIsAdmitted DEF ActionRead
<1>4. m \in AgentPdus
  BY <1>2, ScanTypes, MessageTypes
<1>5. ~IsIndication(m) /\ IsResponse(m) /\ m.req = sub.req /\ m.admitted = Admitted(sub.details)
  BY DEF SubscriptionResponse, IsIndication, IsResponse
<1> HIDE DEF m
<1>6. QED
  BY <1>1, <1>3, <1>4, <1>5

LEMMA NextAction ==
  ASSUME TypeInv, ActionInv, [Next]_vars
  PROVE  ActionInv'
<1>1. ActionRead'
  BY NextActionRead DEF ActionInv
<1>2. CASE UNCHANGED vars
  BY <1>1, <1>2 DEF vars, ActionInv, ActionSent, Admits, IndicationsCarryAdmittedAction
<1>3. CASE SendSubscriptionResponse /\ CanAnswer(sub.req, sub.details) /\ peer = "open"
  <2>1. PICK m \in AgentPdus : /\ sent' = Append(sent, m) /\ ~IsIndication(m)
                               /\ IsResponse(m) /\ m.req = sub'.req /\ sub'.action \in m.admitted
    BY <1>3, ResponseAdmits DEF ActionInv
  <2>2. /\ Len(sent) \in Nat /\ Len(sent') = Len(sent) + 1
        /\ \A i \in 1 .. Len(sent) : sent'[i] = sent[i]
        /\ sent'[Len(sent) + 1] = m
    BY <2>1, Appended
  <2>3. ActionSent'
    BY <2>1, <2>2 DEF ActionSent, Admits
  <2>4. IndicationsCarryAdmittedAction'
    BY <2>1, <2>2 DEF ActionInv, IndicationsCarryAdmittedAction
  <2>5. QED
    BY <1>1, <2>3, <2>4 DEF ActionInv
<1>4. CASE SendsOne /\ SendsIndication
  <2> DEFINE m == Indication(sub.req, gFuncId, sub.action, <<line, item>>)
  <2>1. IsIndication(m) /\ m.req = sub.req /\ m.action = sub.action
    BY DEF IsIndication, Indication
  <2>2. /\ Len(sent) \in Nat /\ Len(sent') = Len(sent) + 1
        /\ \A i \in 1 .. Len(sent) : sent'[i] = sent[i]
        /\ sent'[Len(sent) + 1] = m
    BY <1>4, Appended DEF SendsIndication
  <2> HIDE DEF m
  <2>3. PICK j \in 1 .. Len(sent) : Admits(sent[j])
    BY <1>4 DEF ActionInv, ActionSent, SendsOne, SendsIndication, Answering
  <2>4. sub' = sub
    BY <1>4 DEF SendsOne
  <2>5. ActionSent'
    BY <2>2, <2>3, <2>4 DEF ActionSent, Admits
  <2>6. IndicationsCarryAdmittedAction'
    <3> SUFFICES ASSUME NEW i \in 1 .. Len(sent'), IsIndication(sent'[i])
                 PROVE  \E k \in 1 .. (i - 1) :
                          /\ IsResponse(sent'[k]) /\ sent'[k].req = sent'[i].req
                          /\ sent'[i].action \in sent'[k].admitted
      BY DEF IndicationsCarryAdmittedAction
    <3>1. CASE i = Len(sent')
      BY <2>1, <2>2, <2>3, <3>1 DEF Admits
    <3>2. CASE i # Len(sent')
      BY <2>2, <3>2 DEF ActionInv, IndicationsCarryAdmittedAction
    <3>3. QED
      BY <3>1, <3>2
  <2>7. QED
    BY <1>1, <2>5, <2>6 DEF ActionInv
<1>5. CASE SendsOne /\ ~SendsIndication /\ phase' \notin Answering
  <2>1. PICK m : sent' = Append(sent, m) /\ ~IsIndication(m)
    <3>1. \A r, x, y : ~IsIndication(SubscriptionResponse(r, x, y))
      BY DEF IsIndication, SubscriptionResponse
    <3>2. \A fs : ~IsIndication(SetupRequest(fs))
      BY DEF IsIndication, SetupRequest
    <3>3. QED
      BY <1>5, <3>1, <3>2 DEF SendsOne, SendsSetup, SendsResponse, SendsOther
  <2>2. /\ Len(sent) \in Nat /\ Len(sent') = Len(sent) + 1
        /\ \A i \in 1 .. Len(sent) : sent'[i] = sent[i]
        /\ sent'[Len(sent) + 1] = m
    BY <2>1, Appended
  <2>3. IndicationsCarryAdmittedAction'
    BY <2>1, <2>2 DEF ActionInv, IndicationsCarryAdmittedAction
  <2>4. QED
    BY <1>1, <1>5, <2>3 DEF ActionInv, ActionSent
<1>6. CASE SendsOne /\ ~SendsIndication /\ phase' \in Answering /\ Next
  <2>1. peer = "open" /\ phase = "callback" /\ phase' = "open"
    BY <1>6 DEF SendsOne, SendsSetup, SendsResponse, SendsOther, Answering
  <2>2. SendSubscriptionResponse /\ CanAnswer(sub.req, sub.details)
    BY <1>6, <2>1 DEF Next, AgentStep, Environment, Register, Connect, SendSetup, CheckRunning,
      Receive, DecodeFails, HandleE2SetupRequest, Dispatch, SendOwnSubscription,
      HandleServiceQuery, LogOnly, HandleSubscriptionRequest, SendSubscriptionResponse,
      OpenReports, ReadLine, EndOfReports, SendIndication, EndOfLine, ReportOutOfRange,
      ReportFatal, JoinConnector, ConnectorAborts, RicSends, RicEnds, Signal, TesterSendsLine,
      TesterEnds, Feeding
  <2>3. QED
    BY <1>3, <2>1, <2>2
<1>7. CASE SendsNothing
  BY <1>1, <1>7 DEF SendsNothing, ActionInv, ActionSent, Admits, IndicationsCarryAdmittedAction,
    Answering, Early
<1>8. QED
  BY <1>2, <1>4, <1>5, <1>6, <1>7, StepSends

\* Whatever the RIC asks for, each indication carries an action that a response
\* with its request ID has admitted: the scan leaves the ID of a rejected action
\* behind, but the process ends before it could report under it.
THEOREM AdmittedOnly == Spec => []IndicationsCarryAdmittedAction
<1>1. Init => ActionInv
  <2>1. Len(<< >>) = 0
    OBVIOUS
  <2>2. QED
    BY <2>1 DEF Init, ActionInv, ActionRead, ActionSent, Answering, IndicationsCarryAdmittedAction
<1>2. TypeInv /\ ActionInv /\ [Next]_vars => ActionInv'
  BY NextAction
<1>3. ActionInv => IndicationsCarryAdmittedAction
  BY DEF ActionInv
<1>4. QED
  BY <1>1, <1>2, <1>3, InitType, NextType, PTL DEF Spec
=============================================================================
