-------------------------------- MODULE E2AP --------------------------------
(***************************************************************************)
(* The E2AP messages of the simulator, cut down to the information         *)
(* elements its control flow and its properties tell apart.  A message is  *)
(* a record with a procedure and a kind (the alternative of E2AP_PDU_PR);  *)
(* the generators of encode_e2apv1.cpp are operators that build them.      *)
(* A RIC request ID (requestor, instance) is one value: the code copies    *)
(* the two numbers together.                                               *)
(***************************************************************************)
EXTENDS Integers, Sequences

CONSTANTS RequestIds,   \* the RIC request IDs
          FunctionIds,  \* the RAN function IDs
          ActionIds,    \* the RIC action IDs
          Missing,      \* stands for an information element that is absent
          Unencodable,  \* stands for the request IDs outside 0 .. 65535
          MaxActions    \* maxofRICactionID: how many actions a list may hold

ASSUME E2APAssumption ==
  /\ FunctionIds \subseteq Nat
  /\ ActionIds # {} /\ RequestIds # {}
  /\ Missing \notin RequestIds \cup FunctionIds
  /\ Unencodable \notin RequestIds \cup {Missing}
  /\ MaxActions \in Nat \ {0}

Kinds == {"initiating", "successful", "unsuccessful"}

(***************************************************************************)
(* Subscription requests.                                                  *)
(***************************************************************************)
ActionTypes == {"report", "insert", "policy"}
Actions     == [id : ActionIds, type : ActionTypes]

\* The list of actions of a RICsubscriptionDetails element; the decoder refuses
\* an empty one.
Details     == Seq(Actions) \ {<< >>}

\* A request as the dispatcher and the callback see it: its request ID and its
\* function ID may be absent (the library's own request, below, has no function
\* ID), and it may hold any number of RICsubscriptionDetails elements.
SubscriptionRequest(r, f, ds) ==
  [proc |-> "RICsubscription", kind |-> "initiating",
   req |-> r, func |-> f, details |-> ds]

SubscriptionRequests ==
  [proc : {"RICsubscription"}, kind : {"initiating"},
   req : RequestIds \cup {Missing}, func : FunctionIds \cup {Missing},
   details : Seq(Details)]

\* What get_function_id_from_subscription may return: its result variable is
\* never initialised, so a request without the element yields any value.
FunctionIdsRead(m) ==
  IF m.func = Missing THEN FunctionIds ELSE {m.func}

\* The same holds of reqRequestorId and reqInstanceId in the KPM callback, which
\* may hold what is no request ID.
RequestIdsRead(m) ==
  IF m.req = Missing THEN RequestIds \cup {Unencodable} ELSE {m.req}

\* The position of the first REPORT action of a list, if there is one: the only
\* action of the list that callback_kpm_subscription_request admits.  It rejects
\* all others.
FirstReport(as) ==
  {i \in DOMAIN as : /\ as[i].type = "report"
                     /\ \A j \in 1 .. (i - 1) : as[j].type # "report"}

Admitted(ds) ==
  UNION {{ds[k][i].id : i \in FirstReport(ds[k])} : k \in DOMAIN ds}
Rejected(ds) ==
  UNION {{ds[k][i].id : i \in DOMAIN ds[k] \ FirstReport(ds[k])} : k \in DOMAIN ds}

\* Mutant of CanAnswer: the cause of a rejected action is set.
CanAnswerWithCause(r, ds) ==
  r # Unencodable /\ Admitted(ds) # {} /\ Len(ds) \in 1 .. MaxActions

\* Whether the response to request ID r and the lists ds can be encoded.  An item
\* of the rejected list cannot: its cause, a mandatory choice, is never set.  The
\* admitted list, with one action of each list then, holds 1 .. MaxActions.
CanAnswer(r, ds) ==
  r # Unencodable /\ Rejected(ds) = {} /\ Len(ds) \in 1 .. MaxActions

\* What reqActionId may hold when the reporting starts: both branches of the
\* scan assign it, so it is the ID of the last action, admitted or not.
ActionIdsRead(ds) ==
  IF ds = << >> THEN ActionIds
  ELSE LET as == ds[Len(ds)] IN {as[Len(as)].id}

(***************************************************************************)
(* Messages that carry nothing a handler looks at, and octets that are not *)
(* a whole E2AP-PDU ("undecodable").                                       *)
(***************************************************************************)
PlainProcs == {"E2setup", "Reset", "RICcontrol", "RICindication",
               "RICserviceQuery", "RICserviceUpdate", "RICsubscriptionDelete",
               "E2nodeConfigurationUpdate", "undecodable"}
Plain(p, k) == [proc |-> p, kind |-> k]

PlainPdus ==
  [proc : PlainProcs, kind : Kinds]
    \cup [proc : {"RICsubscription"}, kind : {"successful", "unsuccessful"}]

\* Everything the peer can put on the association.
PeerPdus == PlainPdus \cup SubscriptionRequests

(***************************************************************************)
(* Messages the agent sends.                                               *)
(***************************************************************************)
SetupRequest(fs) ==
  [proc |-> "E2setup", kind |-> "initiating", funcs |-> fs]

\* RANfunctionID is INTEGER (0 .. 4095); the encoder refuses any other value.
EncodableFunctionIds == 0 .. 4095

\* The list holds one item per registered function, each of them with the RAN
\* function ID 1 whatever the function's own ID is.
ServiceUpdate(fs) ==
  [proc |-> "RICserviceUpdate", kind |-> "initiating",
   funcs |-> IF fs = {} THEN {} ELSE {1}]

\* The RAN function ID of the response is the constant 147.
SubscriptionResponse(r, adm, rej) ==
  [proc |-> "RICsubscription", kind |-> "successful", func |-> 147,
   req |-> r, admitted |-> adm, rejected |-> rej]

\* The sequence number argument never reaches the message: its element is
\* commented out.  "report" stands for the E2SM header and message octets.
Indication(r, f, a, rep) ==
  [proc |-> "RICindication", kind |-> "initiating", func |-> f,
   req |-> r, action |-> a, report |-> rep]

\* The two messages of the library's server role.
SetupResponse == Plain("E2setup", "successful")
OwnSubscriptionRequest(r, a) ==
  SubscriptionRequest(r, Missing, << << [id |-> a, type |-> "report"] >> >>)

IsSetup(m)      == m.proc = "E2setup" /\ m.kind = "initiating"
IsUpdate(m)     == m.proc = "RICserviceUpdate"
IsResponse(m)   == m.proc = "RICsubscription" /\ m.kind = "successful"
IsIndication(m) == m.proc = "RICindication"

\* The order of reports within one run of run_report_loop: <<line, item>>.
Reports == Nat \X Nat

AgentPdus ==
       [proc : {"E2setup"}, kind : {"initiating"}, funcs : SUBSET FunctionIds]
  \cup [proc : {"RICserviceUpdate"}, kind : {"initiating"}, funcs : SUBSET {1}]
  \cup [proc : {"RICsubscription"}, kind : {"successful"}, func : {147},
        req : RequestIds, admitted : SUBSET ActionIds, rejected : SUBSET ActionIds]
  \cup [proc : {"RICindication"}, kind : {"initiating"}, func : FunctionIds,
        req : RequestIds, action : ActionIds, report : Reports]
  \cup {SetupResponse}
  \cup SubscriptionRequests
=============================================================================
