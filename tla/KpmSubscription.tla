--------------------------- MODULE KpmSubscription ---------------------------
(***************************************************************************)
(* One subscription request on its way through the code, element by        *)
(* element: get_function_id_from_subscription looks for the RAN function   *)
(* ID, callback_kpm_subscription_request collects the request ID and sorts *)
(* the actions, and generate_e2apv1_subscription_response_success builds   *)
(* the response.  E2Agent takes each of these for one step:                *)
(* ScanFindsResults says that what the loops compute is what it uses.      *)
(*                                                                         *)
(* A request is a sequence of information elements in any order; the       *)
(* decoder lets any of them be absent, and any be repeated.                *)
(***************************************************************************)
EXTENDS E2AP, SequenceFilter

CONSTANT Requests  \* the requests, as sequences of information elements

\* An information element: its kind and, of that kind, its content.
RequestIdElements == [kind : {"RICrequestID"}, req : RequestIds]
FunctionElements  == [kind : {"RANfunctionID"}, func : FunctionIds]
DetailsElements   == [kind : {"RICsubscriptionDetails"}, actions : Details]
Elements == RequestIdElements \cup FunctionElements \cup DetailsElements

ASSUME RequestsAssumption == Requests \subseteq Seq(Elements)

VARIABLES
  ies,        \* the request
  pc,         \* the loop the code is in
  i, j,       \* the next element, and the next action in it
  func,       \* func_id
  req,        \* reqRequestorId and reqInstanceId
  actionId,   \* reqActionId
  found,      \* foundAction
  accept,     \* actionIdsAccept
  reject,     \* actionIdsReject
  response    \* the message built, or Missing

vars == <<ies, pc, i, j, func, req, actionId, found, accept, reject, response>>

\* func_id, the request ID and the action ID start out uninitialised.
Init ==
  /\ ies \in Requests /\ pc = "lookup" /\ i = 1 /\ j = 1
  /\ func \in FunctionIds /\ req \in RequestIds \cup {Unencodable} /\ actionId \in ActionIds
  /\ found = FALSE /\ accept = << >> /\ reject = << >> /\ response = Missing

-----------------------------------------------------------------------------
\* get_function_id_from_subscription; the callback follows.
Lookup ==
  /\ pc = "lookup"
  /\ \/ /\ i <= Len(ies) /\ i' = i + 1
        /\ func' = IF ies[i].kind = "RANfunctionID" THEN ies[i].func ELSE func
        /\ UNCHANGED pc
     \/ i > Len(ies) /\ i' = 1 /\ pc' = "elements" /\ UNCHANGED func
  /\ UNCHANGED <<ies, j, req, actionId, found, accept, reject, response>>

\* The callback's loop over the elements.
Element ==
  /\ pc = "elements" /\ i <= Len(ies)
  /\ IF ies[i].kind = "RICsubscriptionDetails"
     THEN pc' = "actions" /\ j' = 1 /\ found' = FALSE /\ UNCHANGED <<i, req>>
     ELSE /\ i' = i + 1
          /\ req' = IF ies[i].kind = "RICrequestID" THEN ies[i].req ELSE req
          /\ UNCHANGED <<pc, j, found>>
  /\ UNCHANGED <<ies, func, actionId, accept, reject, response>>

\* Mutant of Action: every REPORT action is admitted.
AdmitAll ==
  /\ pc = "actions" /\ j <= Len(ies[i].actions)
  /\ LET a == ies[i].actions[j]
     IN  /\ actionId' = a.id
         /\ IF a.type = "report"
            THEN accept' = Append(accept, a.id) /\ UNCHANGED reject
            ELSE reject' = Append(reject, a.id) /\ UNCHANGED accept
  /\ found' = TRUE /\ j' = j + 1
  /\ UNCHANGED <<ies, pc, i, func, req, response>>

\* Its loop over the actions: both branches assign reqActionId.
Action ==
  /\ pc = "actions" /\ j <= Len(ies[i].actions)
  /\ LET a == ies[i].actions[j]
     IN  /\ actionId' = a.id
         /\ IF ~found /\ a.type = "report"
            THEN /\ accept' = Append(accept, a.id) /\ found' = TRUE
                 /\ UNCHANGED reject
            ELSE reject' = Append(reject, a.id) /\ UNCHANGED <<accept, found>>
  /\ j' = j + 1
  /\ UNCHANGED <<ies, pc, i, func, req, response>>

\* Mutant of EndOfActions: the counters of the two loops are taken for one.
EndOfBoth ==
  /\ pc = "actions" /\ j > Len(ies[i].actions)
  /\ pc' = "elements" /\ i' = i + j
  /\ UNCHANGED <<ies, j, func, req, actionId, found, accept, reject, response>>

EndOfActions ==
  /\ pc = "actions" /\ j > Len(ies[i].actions)
  /\ pc' = "elements" /\ i' = i + 1
  /\ UNCHANGED <<ies, j, func, req, actionId, found, accept, reject, response>>

\* Both lists are copied into the response, whose encoding fails and ends the
\* process for a request ID out of range, for an admitted list of the wrong
\* length, and for any rejected action: the copy leaves out its cause.
Respond ==
  /\ pc = "elements" /\ i > Len(ies)
  /\ response' = SubscriptionResponse(req, {accept[k] : k \in DOMAIN accept},
                                      {reject[k] : k \in DOMAIN reject})
  /\ pc' = IF req # Unencodable /\ Len(accept) \in 1 .. MaxActions /\ reject = << >>
           THEN "answered" ELSE "exited"
  /\ UNCHANGED <<ies, i, j, func, req, actionId, found, accept, reject>>

Next == Lookup \/ Element \/ Action \/ EndOfActions \/ Respond

Spec == Init /\ [][Next]_vars

-----------------------------------------------------------------------------
(* Properties *)

TypeOK ==
  /\ ies \in Seq(Elements)
  /\ pc \in {"lookup", "elements", "actions", "answered", "exited"}
  /\ i \in 1 .. (Len(ies) + 1)
  /\ pc = "actions" => /\ i <= Len(ies) /\ ies[i].kind = "RICsubscriptionDetails"
                       /\ j \in 1 .. (Len(ies[i].actions) + 1)
  /\ func \in FunctionIds /\ actionId \in ActionIds
  /\ req \in RequestIds \cup {Unencodable}
  /\ found \in BOOLEAN
  /\ accept \in Seq(ActionIds) /\ reject \in Seq(ActionIds)

\* The request as E2Agent has it: of repeated elements the last request ID and
\* the last function ID count, and every list of actions.
LastOf(s, absent) == IF s = << >> THEN absent ELSE s[Len(s)]
ReqIds  == Keep(ies, RequestIdElements)
FuncIds == Keep(ies, FunctionElements)
Lists   == Keep(ies, DetailsElements)
request ==
  SubscriptionRequest(LastOf(ReqIds, [req |-> Missing]).req,
                      LastOf(FuncIds, [func |-> Missing]).func,
                      [k \in DOMAIN Lists |-> Lists[k].actions])

\* Whatever the order of the elements, whichever are absent and whichever are
\* repeated, the loops find the function, the request and the actions E2Agent
\* says they find; they admit the first REPORT action of each list and no other,
\* reject every other action, and the response gets out just when E2AP says so.
ScanFindsResults ==
  pc \in {"answered", "exited"} =>
    /\ func \in FunctionIdsRead(request) /\ req \in RequestIdsRead(request)
    /\ actionId \in ActionIdsRead(request.details)
    /\ response = SubscriptionResponse(req, Admitted(request.details),
                                       Rejected(request.details))
    /\ pc = "answered" <=> CanAnswer(req, request.details)
=============================================================================
