------------------------------ MODULE MCE2Agent ------------------------------
(* Small instances of E2Agent. *)
EXTENDS E2Agent

CONSTANTS r1, r2, a1, a2

MCRequestIds  == {r1, r2}
MCFunctionIds == {1, 2, 5000}   \* 5000 cannot be encoded
MCActionIds   == {a1, a2}

Act(a, t) == [id |-> a, type |-> t]

\* Plain requests, a list for each of two actions, a second action in one list,
\* an unregistered function, and a request without the two IDs.
Subscriptions ==
  { SubscriptionRequest(r1, 1, << <<Act(a1, "report")>> >>),
    SubscriptionRequest(r1, 1, << <<Act(a1, "report")>>, <<Act(a2, "report")>> >>),
    SubscriptionRequest(r2, 1, << <<Act(a1, "report"), Act(a2, "insert")>> >>),
    SubscriptionRequest(r2, 2, << <<Act(a1, "report")>> >>),
    SubscriptionRequest(Missing, Missing, << <<Act(a2, "report")>> >>) }

MCRicPdus ==
  Subscriptions \cup
  { Plain("E2setup", "initiating"), Plain("E2setup", "unsuccessful"),
    Plain("RICserviceQuery", "initiating"), Plain("RICcontrol", "initiating"),
    Plain("undecodable", "initiating") }

\* For liveness: one message per kind of handling.
FewRicPdus ==
  { SubscriptionRequest(r1, 1, << <<Act(a1, "report")>> >>),
    SubscriptionRequest(r2, 2, << <<Act(a1, "report")>> >>),
    Plain("E2setup", "initiating"), Plain("RICserviceQuery", "initiating"),
    Plain("RICcontrol", "initiating") }

Ln(k, rs) == [key |-> k, reports |-> rs]
Ue2  == Ln("ueMeasReport", <<"ok", "ok">>)
Cell == Ln("cellMeasReport", <<"ok">>)
None == Ln("ueMeasReport", << >>)
Oor  == Ln("ueMeasReport", <<"ok", "outOfRange", "ok">>)
Bad  == Ln("cellMeasReport", <<"ok", "fatal">>)
Oth  == Ln("other", << >>)
NoJs == Ln("notJson", << >>)

MCLines == {Ue2, Cell, None, Oor, Bad, Oth, NoJs}
MCReportFiles ==
  { << >>, <<Ue2, Oth, Cell>>, <<None, Cell, None, Ue2>>, <<Cell, Oor, Cell>>,
    <<Cell, Bad>>, <<Cell, NoJs>> }
FewReportFiles == { <<Ue2, Oth, Cell>>, <<Cell, Oor, Cell>> }

\* The filter of the properties is SelectSeq.
ASSUME KeepSelects ==
  \A s \in UNION {[1 .. n -> 1 .. 3] : n \in 0 .. 4} : \A S \in SUBSET (1 .. 3) :
    Keep(s, S) = SelectSeq(s, LAMBDA e : e \in S)
==============================================================================
