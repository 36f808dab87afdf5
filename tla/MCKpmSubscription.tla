-------------------------- MODULE MCKpmSubscription --------------------------
(* A small instance of KpmSubscription: requests with up to three actions in a *)
(* list, their elements in every order, any of them absent, and requests with  *)
(* repeated elements, up to one list more than a response has room for.        *)
EXTENDS KpmSubscription, SequencesExt

CONSTANTS r1, r2, a1, a2

MCRequestIds  == {r1, r2}
MCFunctionIds == {1, 2}
MCActionIds   == {a1, a2}

R(r)  == [kind |-> "RICrequestID", req |-> r]
F(f)  == [kind |-> "RANfunctionID", func |-> f]
D(as) == [kind |-> "RICsubscriptionDetails", actions |-> as]

Lists123 == {D(as) : as \in BoundedSeq(Actions, 3) \ {<< >>}}
Single   == {D(<< [id |-> a, type |-> t] >>) : a \in ActionIds, t \in {"report", "insert"}}

\* Each kind at most once, and each kind any number of times.
OnceEach(d) == SetToAllKPermutations({R(r1), F(1), d})
Repeated ==
  BoundedSeq({R(r1), R(r2), F(1), F(2)} \cup {D(<< [id |-> a1, type |-> "report"] >>)}, 3)
    \cup BoundedSeq(Single, 3)

MCRequests == UNION {OnceEach(d) : d \in Lists123} \cup Repeated
==============================================================================
