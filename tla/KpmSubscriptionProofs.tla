------------------------ MODULE KpmSubscriptionProofs ------------------------
(* Theorems about KpmSubscription, for requests of any length, in any order,   *)
(* with any element repeated, and with any number of actions.                  *)
EXTENDS KpmSubscription, SequenceFilterProofs

-----------------------------------------------------------------------------
(* Requests. *)

LEMMA RequestTypes ==
  ASSUME ies \in Requests
  PROVE  /\ ies \in Seq(Elements) /\ Len(ies) \in Nat /\ DOMAIN ies = 1 .. Len(ies)
         /\ \A x \in DOMAIN ies : ies[x] \in Elements
<1>1. ies \in Seq(Elements)
  BY RequestsAssumption
<1>2. QED
  BY <1>1, LenProperties, ElementOfSeq

\* An element's kind says what else it holds.
LEMMA ElementTypes ==
  ASSUME NEW e \in Elements
  PROVE  /\ e.kind = "RICrequestID" <=> e \in RequestIdElements
         /\ e.kind = "RANfunctionID" <=> e \in FunctionElements
         /\ e.kind = "RICsubscriptionDetails" <=> e \in DetailsElements
         /\ e.kind = "RICrequestID" => e.req \in RequestIds
         /\ e.kind = "RANfunctionID" => e.func \in FunctionIds
         /\ e.kind = "RICsubscriptionDetails" => e.actions \in Details
BY DEF Elements, RequestIdElements, FunctionElements, DetailsElements

LEMMA DetailsTypes ==
  ASSUME NEW acts \in Details
  PROVE  acts \in Seq(Actions) /\ acts # << >> /\ Len(acts) \in Nat \ {0}
<1>1. acts \in Seq(Actions) /\ acts # << >>
  BY DEF Details
<1>2. QED
  BY <1>1, LenProperties, EmptySeq

LEMMA ActionTypes1 ==
  ASSUME NEW acts \in Seq(Actions)
  PROVE  /\ Len(acts) \in Nat /\ DOMAIN acts = 1 .. Len(acts)
         /\ \A k \in 1 .. Len(acts) : acts[k].id \in ActionIds
<1>1. Len(acts) \in Nat /\ DOMAIN acts = 1 .. Len(acts) /\ \A k \in 1 .. Len(acts) : acts[k] \in Actions
  BY LenProperties, ElementOfSeq
<1>2. QED
  BY <1>1 DEF Actions

\* The values of a sequence.
Content(s) == {s[k] : k \in DOMAIN s}

LEMMA AppendOne ==
  ASSUME NEW S, NEW s \in Seq(S), NEW x \in S
  PROVE  /\ Append(s, x) \in Seq(S) /\ Append(s, x) # << >>
         /\ Len(Append(s, x)) = Len(s) + 1 /\ Len(s) \in Nat
         /\ Content(Append(s, x)) = Content(s) \cup {x}
<1> DEFINE t == Append(s, x)
<1>1. DOMAIN s = 1 .. Len(s) /\ Len(s) \in Nat
  BY LenProperties
<1>2. /\ t \in Seq(S) /\ DOMAIN t = 1 .. Len(t) /\ Len(t) = Len(s) + 1
      /\ \A k \in 1 .. Len(s) : t[k] = s[k]
      /\ t[Len(s) + 1] = x
  BY AppendProperties, LenProperties
<1> HIDE DEF t
<1>3. DOMAIN t = DOMAIN s \cup {Len(s) + 1}
  BY <1>1, <1>2
<1>4. Content(t) = Content(s) \cup {x}
  BY <1>1, <1>2, <1>3 DEF Content
<1>5. t # << >>
  BY <1>1, <1>2
<1>6. QED
  BY <1>1, <1>2, <1>4, <1>5 DEF t

-----------------------------------------------------------------------------
(* Type correctness. *)

TypeInv == TypeOK /\ ies \in Requests

LEMMA InitType == Init => TypeInv
<1> SUFFICES ASSUME Init PROVE TypeInv
  OBVIOUS
<1>1. ies \in Seq(Elements) /\ Len(ies) \in Nat
  BY RequestTypes DEF Init
<1>2. << >> \in Seq(ActionIds)
  OBVIOUS
<1>3. i \in 1 .. (Len(ies) + 1) /\ pc = "lookup" /\ accept = << >> /\ reject = << >>
      /\ found = FALSE /\ func \in FunctionIds /\ req \in RequestIds \cup {Unencodable}
      /\ actionId \in ActionIds
      /\ ies \in Requests
  BY <1>1 DEF Init
<1>4. QED
  BY <1>1, <1>2, <1>3 DEF TypeInv, TypeOK

LEMMA NextType == TypeInv /\ [Next]_vars => TypeInv'
<1> SUFFICES ASSUME TypeInv, [Next]_vars PROVE TypeInv'
  OBVIOUS
<1>1. /\ Len(ies) \in Nat /\ DOMAIN ies = 1 .. Len(ies)
      /\ \A x \in 1 .. Len(ies) : ies[x] \in Elements
  BY RequestTypes DEF TypeInv
<1> USE DEF TypeInv, TypeOK
<1>2. CASE Lookup
  <2>1. i <= Len(ies) /\ ies[i].kind = "RANfunctionID" => ies[i].func \in FunctionIds
    BY <1>1, ElementTypes
  <2>2. QED
    BY <1>1, <1>2, <2>1 DEF Lookup
<1>3. CASE Element
  <2>1. i \in 1 .. Len(ies) /\ ies[i] \in Elements
    BY <1>1, <1>3 DEF Element
  <2>2. /\ ies[i].kind = "RICrequestID" => ies[i].req \in RequestIds
        /\ ies[i].kind = "RICsubscriptionDetails" => Len(ies[i].actions) \in Nat
    BY <2>1, ElementTypes, DetailsTypes
  <2>3. CASE ies[i].kind = "RICsubscriptionDetails"
    <3>1. /\ pc' = "actions" /\ j' = 1 /\ found' = FALSE
          /\ UNCHANGED <<ies, i, req, func, actionId, accept, reject>>
      BY <1>3, <2>3 DEF Element
    <3>2. j' \in 1 .. (Len(ies'[i'].actions) + 1)
      BY <2>2, <2>3, <3>1
    <3>3. i' <= Len(ies') /\ ies'[i'].kind = "RICsubscriptionDetails"
      BY <2>1, <2>3, <3>1
    <3>4. QED
      BY <3>1, <3>2, <3>3
  <2>4. CASE ies[i].kind # "RICsubscriptionDetails"
    BY <1>1, <1>3, <2>1, <2>2, <2>4 DEF Element
  <2>5. QED
    BY <2>3, <2>4
<1>4. CASE Action
  <2> DEFINE acts == ies[i].actions  a == acts[j]
  <2>1. acts \in Seq(Actions)
    BY <1>1, <1>4, ElementTypes, DetailsTypes DEF Action
  <2>2. j \in 1 .. Len(acts) /\ Len(acts) \in Nat /\ a.id \in ActionIds
    BY <1>4, <2>1, ActionTypes1 DEF Action
  <2> HIDE DEF a
  <2>3. Append(accept, a.id) \in Seq(ActionIds) /\ Append(reject, a.id) \in Seq(ActionIds)
    BY <2>2, AppendOne
  <2>4. /\ actionId' = a.id /\ j' = j + 1 /\ found' \in BOOLEAN
        /\ accept' \in {accept, Append(accept, a.id)}
        /\ reject' \in {reject, Append(reject, a.id)}
        /\ UNCHANGED <<ies, pc, i, func, req>>
    BY <1>4 DEF Action, a
  <2>5. j' \in 1 .. (Len(ies'[i'].actions) + 1)
    BY <2>2, <2>4
  <2>6. accept' \in Seq(ActionIds) /\ reject' \in Seq(ActionIds) /\ actionId' \in ActionIds
    BY <2>2, <2>3, <2>4
  <2>7. i' <= Len(ies') /\ ies'[i'].kind = "RICsubscriptionDetails"
    BY <1>4, <2>4 DEF Action
  <2>8. ies' \in Requests /\ ies' \in Seq(Elements) /\ pc' = pc /\ i' \in 1 .. (Len(ies') + 1)
        /\ func' \in FunctionIds /\ req' \in RequestIds \cup {Unencodable}
        /\ found' \in BOOLEAN
    BY <2>4
  <2> HIDE DEF acts
  <2>9. QED
    BY <2>5, <2>6, <2>7, <2>8
<1>5. CASE EndOfActions \/ Respond
  BY <1>1, <1>5 DEF EndOfActions, Respond
<1>6. CASE UNCHANGED vars
  BY <1>6 DEF vars
<1>7. QED
  BY <1>2, <1>3, <1>4, <1>5, <1>6 DEF Next

\* Every reachable state is well typed: no loop leaves its element or its list,
\* and nothing is read from an element of another kind.
THEOREM TypeCorrect == Spec => []TypeOK
<1>1. TypeInv => TypeOK
  BY DEF TypeInv
<1>2. QED
  BY <1>1, InitType, NextType, PTL DEF Spec

-----------------------------------------------------------------------------
(* Prefixes of the request and of a list of actions. *)

LEMMA Prefixes ==
  ASSUME NEW T, NEW s \in Seq(T)
  PROVE  /\ Len(s) \in Nat /\ SubSeq(s, 1, Len(s)) = s /\ SubSeq(s, 1, 0) = << >>
         /\ \A n \in 1 .. Len(s) :
              /\ s[n] \in T /\ SubSeq(s, 1, n - 1) \in Seq(T)
              /\ Len(SubSeq(s, 1, n - 1)) = n - 1
              /\ SubSeq(s, 1, n) = Append(SubSeq(s, 1, n - 1), s[n])
<1>1. /\ Len(s) \in Nat /\ SubSeq(s, 1, Len(s)) = s /\ SubSeq(s, 1, 0) = << >>
      /\ \A n \in 1 .. Len(s) : s[n] \in T
  BY LenProperties, SubSeqFull, SubSeqEmpty, ElementOfSeq
<1>2. ASSUME NEW n \in 1 .. Len(s)
      PROVE  /\ SubSeq(s, 1, n - 1) \in Seq(T) /\ Len(SubSeq(s, 1, n - 1)) = n - 1
             /\ SubSeq(s, 1, n) = Append(SubSeq(s, 1, n - 1), s[n])
  <2>1. n - 1 \in Int /\ 1 \in Int /\ n \in Int /\ \A k \in 1 .. (n - 1) : s[k] \in T
    BY <1>1
  <2> DEFINE p == SubSeq(s, 1, n - 1)
  <2>2. p \in Seq(T) /\ Len(p) = IF 1 <= n - 1 THEN (n - 1) - 1 + 1 ELSE 0
    BY <2>1, SubSeqProperties
  <2>3. SubSeq(s, 1, n) = p \o << s[n] >>
    BY <1>1, SubSeqRecursiveSecond
  <2> HIDE DEF p
  <2>4. Append(p, s[n]) = p \o << s[n] >>
    BY <1>1, <2>2, AppendIsConcat
  <2>5. Len(p) = n - 1
    BY <2>2
  <2>6. QED
    BY <2>2, <2>3, <2>4, <2>5 DEF p
<1>3. QED
  BY <1>1, <1>2

\* What the filter keeps of a request when it has one element more.
LEMMA KeptNext ==
  ASSUME NEW s \in Seq(Elements), NEW e \in Elements, NEW S
  PROVE  LET k == Keep(Append(s, e), S)
         IN  /\ e \in S => k # << >> /\ k[Len(k)] = e /\ k = Append(Keep(s, S), e)
             /\ e \notin S => k = Keep(s, S)
             /\ Keep(s, S) \in Seq(S)
<1>1. Keep(s, S) \in Seq(S)
  BY KeepType
<1>2. Keep(Append(s, e), S) = IF e \in S THEN Append(Keep(s, S), e) ELSE Keep(s, S)
  BY KeepAppend
<1>3. e \in S => LET k == Append(Keep(s, S), e) IN k # << >> /\ k[Len(k)] = e
  BY <1>1, AppendProperties
<1>4. QED
  BY <1>1, <1>2, <1>3

-----------------------------------------------------------------------------
(* The lists of actions. *)

ListsOf(s) == [k \in DOMAIN s |-> s[k].actions]

LEMMA ListsType ==
  ASSUME NEW s \in Seq(DetailsElements)
  PROVE  /\ ListsOf(s) \in Seq(Details) /\ Len(ListsOf(s)) = Len(s) /\ Len(s) \in Nat
         /\ DOMAIN ListsOf(s) = 1 .. Len(s)
<1>1. DOMAIN s = 1 .. Len(s) /\ Len(s) \in Nat /\ \A k \in 1 .. Len(s) : s[k] \in DetailsElements
  BY LenProperties, ElementOfSeq
<1>2. ListsOf(s) = [k \in 1 .. Len(s) |-> s[k].actions] /\ \A k \in 1 .. Len(s) : s[k].actions \in Details
  BY <1>1 DEF ListsOf, DetailsElements
<1>3. QED
  BY <1>1, <1>2

LEMMA ListsAppend ==
  ASSUME NEW s \in Seq(DetailsElements), NEW e \in DetailsElements
  PROVE  ListsOf(Append(s, e)) = Append(ListsOf(s), e.actions)
<1> DEFINE t == Append(s, e)  l == ListsOf(s)  m == Append(l, e.actions)
<1>1. /\ t \in Seq(DetailsElements) /\ Len(t) = Len(s) + 1 /\ t[Len(s) + 1] = e
      /\ \A k \in 1 .. Len(s) : t[k] = s[k]
  BY AppendProperties, LenProperties
<1>2. l \in Seq(Details) /\ Len(l) = Len(s) /\ Len(s) \in Nat /\ e.actions \in Details
  BY ListsType DEF DetailsElements
<1>3. \A k \in 1 .. Len(s) : l[k] = s[k].actions
  BY LenProperties DEF ListsOf
<1> HIDE DEF l
<1>4. /\ m \in Seq(Details) /\ Len(m) = Len(s) + 1 /\ m[Len(s) + 1] = e.actions
      /\ \A k \in 1 .. Len(s) : m[k] = l[k]
  BY <1>2, AppendProperties
<1>5. ListsOf(t) \in Seq(Details) /\ Len(ListsOf(t)) = Len(s) + 1
  BY <1>1, ListsType
<1>6. \A k \in 1 .. (Len(s) + 1) : ListsOf(t)[k] = t[k].actions
  BY <1>1, LenProperties DEF ListsOf
<1> HIDE DEF t, m
<1>7. \A k \in 1 .. (Len(s) + 1) : ListsOf(t)[k] = m[k]
  BY <1>1, <1>2, <1>3, <1>4, <1>6
<1>8. ListsOf(t) = m
  BY <1>4, <1>5, <1>7, SeqEqual
<1>9. QED
  BY <1>8 DEF t, m, l

\* The IDs that are admitted of one list, and those that are rejected.
In1(as)  == {as[k].id : k \in FirstReport(as)}
Out1(as) == {as[k].id : k \in DOMAIN as \ FirstReport(as)}

LEMMA NoLists == Admitted(<< >>) = {} /\ Rejected(<< >>) = {}
BY DEF Admitted, Rejected

LEMMA OneList == In1(<< >>) = {} /\ Out1(<< >>) = {} /\ FirstReport(<< >>) = {}
BY DEF In1, Out1, FirstReport

LEMMA InLists ==
  ASSUME NEW ds, NEW x
  PROVE  /\ x \in Admitted(ds) <=> \E k \in DOMAIN ds : x \in In1(ds[k])
         /\ x \in Rejected(ds) <=> \E k \in DOMAIN ds : x \in Out1(ds[k])
<1>1. x \in Admitted(ds) <=> \E k \in DOMAIN ds : x \in In1(ds[k])
  BY DEF Admitted, In1
<1>2. x \in Rejected(ds) <=> \E k \in DOMAIN ds : x \in Out1(ds[k])
  BY DEF Rejected, Out1
<1>3. QED
  BY <1>1, <1>2

LEMMA MoreLists ==
  ASSUME NEW ds \in Seq(Details), NEW as \in Details
  PROVE  /\ Admitted(Append(ds, as)) = Admitted(ds) \cup In1(as)
         /\ Rejected(Append(ds, as)) = Rejected(ds) \cup Out1(as)
<1> DEFINE t == Append(ds, as)
<1>1. /\ t \in Seq(Details) /\ Len(t) = Len(ds) + 1 /\ t[Len(ds) + 1] = as
      /\ \A k \in 1 .. Len(ds) : t[k] = ds[k]
  <2>1. t \in Seq(Details) /\ Len(t) = Len(ds) + 1
    BY AppendProperties
  <2>2. t[Len(ds) + 1] = as
    BY AppendProperties, Zenon
  <2>3. ASSUME NEW k \in 1 .. Len(ds) PROVE t[k] = ds[k]
    BY AppendProperties, LenProperties
  <2>4. QED
    BY <2>1, <2>2, <2>3
<1> HIDE DEF t
<1>2. DOMAIN ds = 1 .. Len(ds) /\ Len(ds) \in Nat /\ DOMAIN t = 1 .. Len(t)
  BY <1>1, LenProperties
<1>3. DOMAIN t = DOMAIN ds \cup {Len(ds) + 1} /\ \A k \in DOMAIN ds : t[k] = ds[k]
  BY <1>1, <1>2
<1>4. ASSUME NEW x
      PROVE  /\ x \in Admitted(t) <=> x \in Admitted(ds) \/ x \in In1(as)
             /\ x \in Rejected(t) <=> x \in Rejected(ds) \/ x \in Out1(as)
  <2>1. /\ x \in Admitted(t) <=> \E k \in DOMAIN t : x \in In1(t[k])
        /\ x \in Rejected(t) <=> \E k \in DOMAIN t : x \in Out1(t[k])
        /\ x \in Admitted(ds) <=> \E k \in DOMAIN ds : x \in In1(ds[k])
        /\ x \in Rejected(ds) <=> \E k \in DOMAIN ds : x \in Out1(ds[k])
    BY InLists
  <2>2. QED
    BY <1>1, <1>3, <2>1
<1>5. QED
  BY <1>4 DEF t

HasReport(as) == \E k \in DOMAIN as : as[k].type = "report"

\* One more action of a list: the first REPORT action is admitted, any other is
\* rejected.
LEMMA SortedNext ==
  ASSUME NEW p \in Seq(Actions), NEW a \in Actions
  PROVE  LET q == Append(p, a)  next == a.type = "report" /\ ~HasReport(p)
         IN  /\ HasReport(q) <=> HasReport(p) \/ a.type = "report"
             /\ next => In1(q) = In1(p) \cup {a.id} /\ Out1(q) = Out1(p)
             /\ ~next => In1(q) = In1(p) /\ Out1(q) = Out1(p) \cup {a.id}
<1> DEFINE q == Append(p, a)  n == Len(p) + 1
           next == a.type = "report" /\ ~HasReport(p)
<1>1. /\ q \in Seq(Actions) /\ Len(q) = n /\ q[n] = a /\ \A k \in 1 .. Len(p) : q[k] = p[k]
      /\ DOMAIN p = 1 .. Len(p) /\ DOMAIN q = 1 .. Len(q) /\ Len(p) \in Nat
  BY AppendProperties, LenProperties
<1> HIDE DEF q
<1>2. /\ DOMAIN q = DOMAIN p \cup {n} /\ n \notin DOMAIN p /\ n - 1 = Len(p)
      /\ \A k \in DOMAIN p : q[k] = p[k]
      /\ \A k \in DOMAIN p : 1 .. (k - 1) \subseteq DOMAIN p
  BY <1>1
<1>3. HasReport(q) <=> HasReport(p) \/ a.type = "report"
  BY <1>1, <1>2 DEF HasReport
<1>4. n \in FirstReport(q) <=> next
  BY <1>1, <1>2 DEF FirstReport, HasReport
<1>5. \A k \in DOMAIN p : k \in FirstReport(q) <=> k \in FirstReport(p)
  BY <1>2 DEF FirstReport
<1>6. FirstReport(p) \subseteq DOMAIN p /\ FirstReport(q) \subseteq DOMAIN q
  BY DEF FirstReport
<1> HIDE DEF next
<1>7. FirstReport(q) = IF next THEN FirstReport(p) \cup {n} ELSE FirstReport(p)
  <2>1. \A k : k \in FirstReport(q) <=> k \in FirstReport(p) \/ (k = n /\ next)
    BY <1>2, <1>4, <1>5, <1>6
  <2>2. QED
    BY <2>1
<1>8. DOMAIN q \ FirstReport(q) = IF next THEN DOMAIN p \ FirstReport(p)
                                 ELSE (DOMAIN p \ FirstReport(p)) \cup {n}
  BY <1>2, <1>6, <1>7
<1>9. \A K \in SUBSET DOMAIN p :
        /\ {q[k].id : k \in K} = {p[k].id : k \in K}
        /\ {q[k].id : k \in K \cup {n}} = {p[k].id : k \in K} \cup {a.id}
  BY <1>1, <1>2
<1>10. In1(q) = IF next THEN In1(p) \cup {a.id} ELSE In1(p)
  BY <1>6, <1>7, <1>9 DEF In1
<1>11. Out1(q) = IF next THEN Out1(p) ELSE Out1(p) \cup {a.id}
  BY <1>8, <1>9 DEF Out1
<1>12. QED
  BY <1>3, <1>10, <1>11 DEF q, next

-----------------------------------------------------------------------------
(* What the loops have found: the lists done with are ds, and of the list in   *)
(* hand the actions p.                                                         *)

Results(ds, p, acc, rej, act) ==
  /\ Content(acc) = Admitted(ds) \cup In1(p)
  /\ Content(rej) = Rejected(ds) \cup Out1(p)
  /\ rej = << >> => Len(acc) = Len(ds) + (IF p = << >> THEN 0 ELSE 1)
  /\ p # << >> => act = p[Len(p)].id
  /\ p = << >> /\ ds # << >> => LET as == ds[Len(ds)] IN act = as[Len(as)].id

Before == SubSeq(ies, 1, i - 1)
Met    == ListsOf(Keep(Before, DetailsElements))
Part   == IF pc = "actions" THEN SubSeq(ies[i].actions, 1, j - 1) ELSE << >>

FuncInv == LET k == Keep(IF pc = "lookup" THEN Before ELSE ies, FunctionElements)
           IN  k # << >> => func = k[Len(k)].func
ReqInv == pc # "lookup" => LET k == Keep(Before, RequestIdElements)
                           IN  k # << >> => req = k[Len(k)].req
ScanInv ==
  /\ pc = "lookup" => accept = << >> /\ reject = << >>
  /\ pc # "lookup" => Results(Met, Part, accept, reject, actionId)
  /\ pc = "actions" => /\ found <=> HasReport(Part)
                       /\ Part # << >> /\ reject = << >> => found
EndInv == pc \in {"answered", "exited"} =>
  /\ i > Len(ies) /\ response = SubscriptionResponse(req, Content(accept), Content(reject))
  /\ pc = "answered" <=>
       req # Unencodable /\ Len(accept) \in 1 .. MaxActions /\ reject = << >>

Inv == FuncInv /\ ReqInv /\ ScanInv /\ EndInv

\* The prefix of the request that a loop has behind it.
LEMMA BeforeNext ==
  ASSUME TypeInv
  PROVE  /\ ies \in Seq(Elements) /\ Len(ies) \in Nat /\ i \in 1 .. (Len(ies) + 1)
         /\ SubSeq(ies, 1, Len(ies)) = ies /\ SubSeq(ies, 1, 0) = << >>
         /\ Before \in Seq(Elements)
         /\ i <= Len(ies) => /\ ies[i] \in Elements
                             /\ SubSeq(ies, 1, i) = Append(Before, ies[i])
         /\ i > Len(ies) => Before = ies
<1>1. ies \in Seq(Elements) /\ i \in 1 .. (Len(ies) + 1)
  BY DEF TypeInv, TypeOK
<1>2. /\ Len(ies) \in Nat /\ SubSeq(ies, 1, Len(ies)) = ies /\ SubSeq(ies, 1, 0) = << >>
      /\ \A n \in 1 .. Len(ies) :
           /\ ies[n] \in Elements /\ SubSeq(ies, 1, n - 1) \in Seq(Elements)
           /\ SubSeq(ies, 1, n) = Append(SubSeq(ies, 1, n - 1), ies[n])
  BY <1>1, Prefixes
<1>3. CASE i > Len(ies)
  <2>1. i - 1 = Len(ies)
    BY <1>1, <1>2, <1>3
  <2>2. Before = ies
    BY <1>2, <2>1 DEF Before
  <2>3. QED
    BY <1>1, <1>2, <1>3, <2>2
<1>4. CASE i <= Len(ies)
  <2>1. i \in 1 .. Len(ies)
    BY <1>1, <1>2, <1>4
  <2>2. QED
    BY <1>1, <1>2, <1>4, <2>1 DEF Before
<1>5. QED
  BY <1>1, <1>2, <1>3, <1>4

\* The lists a loop has behind it.
LEMMA MetType ==
  ASSUME TypeInv
  PROVE  Met \in Seq(Details) /\ Len(Met) \in Nat
<1>1. Keep(Before, DetailsElements) \in Seq(DetailsElements)
  BY BeforeNext, KeepType
<1>2. QED
  BY <1>1, ListsType DEF Met

LEMMA NothingMet ==
  /\ ListsOf(Keep(<< >>, DetailsElements)) = << >>
  /\ Results(<< >>, << >>, << >>, << >>, actionId)
<1>1. Keep(<< >>, DetailsElements) = << >>
  BY KeepEmpty
<1>2. ListsOf(<< >>) = << >>
  <2>1. << >> \in Seq(DetailsElements) /\ Len(<< >>) = 0
    BY EmptySeq
  <2>2. ListsOf(<< >>) \in Seq(Details) /\ Len(ListsOf(<< >>)) = 0
    BY <2>1, ListsType
  <2>3. QED
    BY <2>2, EmptySeq
<1>3. Content(<< >>) = {} /\ Len(<< >>) = 0
  BY EmptySeq DEF Content
<1>4. QED
  BY <1>1, <1>2, <1>3, NoLists, OneList DEF Results

LEMMA InitInv == Init => Inv
<1> SUFFICES ASSUME Init PROVE Inv
  OBVIOUS
<1>1. pc = "lookup" /\ i = 1 /\ accept = << >> /\ reject = << >>
  BY DEF Init
<1>2. Before = << >>
  BY <1>1, SubSeqEmpty DEF Before
<1>3. Keep(Before, FunctionElements) = << >>
  BY <1>2, KeepEmpty
<1>4. QED
  BY <1>1, <1>3 DEF Inv, FuncInv, ReqInv, ScanInv, EndInv

LEMMA LookupInv ==
  ASSUME TypeInv, Inv, Lookup
  PROVE  Inv'
<1>1. /\ pc = "lookup" /\ UNCHANGED <<ies, j, req, actionId, found, accept, reject, response>>
      /\ \/ /\ i <= Len(ies) /\ i' = i + 1 /\ pc' = pc
            /\ func' = IF ies[i].kind = "RANfunctionID" THEN ies[i].func ELSE func
         \/ i > Len(ies) /\ i' = 1 /\ pc' = "elements" /\ func' = func
  BY DEF Lookup
<1> DEFINE k == Keep(Before, FunctionElements)
<1>2. k # << >> => func = k[Len(k)].func
  BY <1>1 DEF Inv, FuncInv
<1>3. accept = << >> /\ reject = << >>
  BY <1>1 DEF Inv, ScanInv
<1>4. CASE i <= Len(ies) /\ i' = i + 1 /\ pc' = pc
            /\ func' = IF ies[i].kind = "RANfunctionID" THEN ies[i].func ELSE func
  <2> DEFINE l == Keep(Append(Before, ies[i]), FunctionElements)
  <2>1. Before' = Append(Before, ies[i]) /\ ies[i] \in Elements /\ Before \in Seq(Elements)
    <3>1. i' - 1 = i
      BY <1>4, BeforeNext
    <3>2. QED
      BY <1>1, <1>4, <3>1, BeforeNext DEF Before
  <2>2. /\ ies[i] \in FunctionElements => l[Len(l)] = ies[i]
        /\ ies[i] \notin FunctionElements => l = k
        /\ ies[i].kind = "RANfunctionID" <=> ies[i] \in FunctionElements
    <3>1. /\ ies[i] \in FunctionElements => l[Len(l)] = ies[i]
          /\ ies[i] \notin FunctionElements => l = k
      BY <2>1, KeptNext, Zenon
    <3>2. ies[i].kind = "RANfunctionID" <=> ies[i] \in FunctionElements
      BY <2>1, ElementTypes
    <3>3. QED
      BY <3>1, <3>2
  <2> HIDE DEF k, l
  <2>3. l # << >> => func' = l[Len(l)].func
    BY <1>2, <1>4, <2>2
  <2>4. FuncInv'
    BY <1>1, <1>4, <2>1, <2>3 DEF FuncInv, l
  <2>5. QED
    BY <1>1, <1>3, <1>4, <2>4 DEF Inv, ReqInv, ScanInv, EndInv
<1>5. CASE i > Len(ies) /\ i' = 1 /\ pc' = "elements" /\ func' = func
  <2>1. Before = ies /\ Before' = << >>
    <3>1. i' - 1 = 0
      BY <1>5
    <3>2. QED
      BY <1>1, <1>5, <3>1, BeforeNext DEF Before
  <2>2. FuncInv'
    BY <1>1, <1>2, <1>5, <2>1 DEF FuncInv
  <2>3. ReqInv'
    <3>1. Keep(<< >>, RequestIdElements) = << >>
      BY KeepEmpty
    <3>2. QED
      BY <2>1, <3>1 DEF ReqInv
  <2>4. Met' = << >> /\ Part' = << >>
    BY <1>5, <2>1, NothingMet DEF Met, Part
  <2>5. ScanInv'
    BY <1>1, <1>3, <1>5, <2>4, NothingMet DEF ScanInv
  <2>6. EndInv'
    BY <1>5 DEF EndInv
  <2>7. QED
    BY <2>2, <2>3, <2>5, <2>6 DEF Inv
<1>6. QED
  BY <1>1, <1>4, <1>5

\* One more action of the list in hand.
LEMMA ResultsAction ==
  ASSUME NEW ds \in Seq(Details), NEW p \in Seq(Actions), NEW a \in Actions,
         NEW acc \in Seq(ActionIds), NEW rej \in Seq(ActionIds), NEW act,
         Results(ds, p, acc, rej, act), p # << >> /\ rej = << >> => HasReport(p)
  PROVE  LET q == Append(p, a)  next == a.type = "report" /\ ~HasReport(p)
         IN  /\ next => Results(ds, q, Append(acc, a.id), rej, a.id)
             /\ ~next => Results(ds, q, acc, Append(rej, a.id), a.id)
<1> DEFINE q == Append(p, a)  next == a.type = "report" /\ ~HasReport(p)
<1>1. a.id \in ActionIds
  BY DEF Actions
<1>2. /\ next => In1(q) = In1(p) \cup {a.id} /\ Out1(q) = Out1(p)
      /\ ~next => In1(q) = In1(p) /\ Out1(q) = Out1(p) \cup {a.id}
  BY SortedNext
<1>3. q # << >> /\ q[Len(q)] = a
  BY AppendProperties
<1>4. \A s \in Seq(ActionIds), x \in ActionIds :
        /\ Append(s, x) # << >> /\ Len(Append(s, x)) = Len(s) + 1
        /\ Content(Append(s, x)) = Content(s) \cup {x}
  BY AppendOne
<1>5. /\ Append(rej, a.id) # << >> /\ Content(Append(rej, a.id)) = Content(rej) \cup {a.id}
      /\ Len(Append(acc, a.id)) = Len(acc) + 1 /\ Content(Append(acc, a.id)) = Content(acc) \cup {a.id}
  BY <1>1, <1>4
<1>6. Len(ds) \in Nat
  BY LenProperties
<1>7. /\ Content(acc) = Admitted(ds) \cup In1(p) /\ Content(rej) = Rejected(ds) \cup Out1(p)
      /\ rej = << >> => Len(acc) = Len(ds) + (IF p = << >> THEN 0 ELSE 1)
  BY DEF Results
<1> HIDE DEF q
<1>8. CASE next
  <2>1. rej = << >> => Len(Append(acc, a.id)) = Len(ds) + (IF q = << >> THEN 0 ELSE 1)
    BY <1>3, <1>5, <1>6, <1>7, <1>8
  <2>2. Results(ds, q, Append(acc, a.id), rej, a.id)
    BY <1>2, <1>3, <1>5, <1>7, <1>8, <2>1 DEF Results
  <2>3. QED
    BY <1>8, <2>2 DEF q
<1>9. CASE ~next
  <2>1. Results(ds, q, acc, Append(rej, a.id), a.id)
    BY <1>2, <1>3, <1>5, <1>7, <1>9 DEF Results
  <2>2. QED
    BY <1>9, <2>1 DEF q
<1>10. QED
  BY <1>8, <1>9

\* The list in hand is done with.
LEMMA ResultsEnd ==
  ASSUME NEW ds \in Seq(Details), NEW p \in Details, NEW acc, NEW rej, NEW act,
         Results(ds, p, acc, rej, act)
  PROVE  Results(Append(ds, p), << >>, acc, rej, act)
<1> DEFINE t == Append(ds, p)
<1>1. t \in Seq(Details) /\ Len(t) = Len(ds) + 1 /\ t # << >>
  BY AppendOne
<1>2. t[Len(ds) + 1] = p /\ Len(ds) \in Nat
  <2>1. t[Len(ds) + 1] = p
    BY AppendProperties, Zenon
  <2>2. QED
    BY <2>1, LenProperties
<1>3. Admitted(t) = Admitted(ds) \cup In1(p) /\ Rejected(t) = Rejected(ds) \cup Out1(p)
  BY MoreLists
<1>4. p # << >>
  BY DetailsTypes
<1> HIDE DEF t
<1>5. Results(t, << >>, acc, rej, act)
  <2>1. rej = << >> => Len(acc) = Len(t) + (IF << >> = << >> THEN 0 ELSE 1)
    BY <1>1, <1>2, <1>4 DEF Results
  <2>2. Content(acc) = Admitted(t) \cup In1(<< >>) /\ Content(rej) = Rejected(t) \cup Out1(<< >>)
    BY <1>3, OneList DEF Results
  <2>3. act = p[Len(p)].id /\ t[Len(t)] = p
    BY <1>1, <1>2, <1>4 DEF Results
  <2>4. QED
    BY <2>1, <2>2, <2>3 DEF Results
<1>6. QED
  BY <1>5 DEF t

\* The list in hand while the scan is in it.
LEMMA InHand ==
  ASSUME TypeInv, pc = "actions"
  PROVE  LET acts == ies[i].actions
         IN  /\ i \in 1 .. Len(ies) /\ ies[i] \in DetailsElements /\ acts \in Details
             /\ Len(acts) \in Nat /\ j \in 1 .. (Len(acts) + 1)
             /\ Part \in Seq(Actions)
             /\ j <= Len(acts) => /\ acts[j] \in Actions
                                  /\ SubSeq(acts, 1, j) = Append(Part, acts[j])
             /\ j > Len(acts) => Part = acts
<1> DEFINE acts == ies[i].actions
<1>1. i \in 1 .. Len(ies) /\ ies[i].kind = "RICsubscriptionDetails" /\ j \in 1 .. (Len(acts) + 1)
  BY DEF TypeInv, TypeOK
<1>2. ies[i] \in Elements
  BY <1>1, BeforeNext
<1>3. ies[i] \in DetailsElements /\ acts \in Details
  BY <1>1, <1>2, ElementTypes
<1>4. acts \in Seq(Actions)
  BY <1>3, DetailsTypes
<1>5. Part = SubSeq(acts, 1, j - 1)
  BY DEF Part
<1> HIDE DEF acts
<1>6. /\ Len(acts) \in Nat /\ SubSeq(acts, 1, Len(acts)) = acts /\ SubSeq(acts, 1, 0) = << >>
      /\ \A n \in 1 .. Len(acts) :
           /\ acts[n] \in Actions /\ SubSeq(acts, 1, n - 1) \in Seq(Actions)
           /\ SubSeq(acts, 1, n) = Append(SubSeq(acts, 1, n - 1), acts[n])
  BY <1>4, Prefixes
<1>7. CASE j > Len(acts)
  <2>1. j - 1 = Len(acts)
    BY <1>1, <1>6, <1>7
  <2>2. Part = acts
    BY <1>5, <1>6, <2>1
  <2>3. QED
    BY <1>1, <1>3, <1>4, <1>6, <1>7, <2>2 DEF acts
<1>8. CASE j <= Len(acts)
  <2>1. j \in 1 .. Len(acts)
    BY <1>1, <1>6, <1>8
  <2>2. acts[j] \in Actions /\ Part \in Seq(Actions) /\ SubSeq(acts, 1, j) = Append(Part, acts[j])
    BY <1>5, <1>6, <2>1
  <2>3. QED
    BY <1>1, <1>3, <1>6, <1>8, <2>2 DEF acts
<1>9. QED
  BY <1>1, <1>6, <1>7, <1>8

LEMMA ActionInv ==
  ASSUME TypeInv, Inv, Action
  PROVE  Inv'
<1> DEFINE acts == ies[i].actions  a == acts[j]  q == Append(Part, a)
           next == a.type = "report" /\ ~HasReport(Part)
<1>1. /\ pc = "actions" /\ j <= Len(acts) /\ actionId' = a.id /\ j' = j + 1
      /\ IF ~found /\ a.type = "report"
         THEN accept' = Append(accept, a.id) /\ found' = TRUE /\ UNCHANGED reject
         ELSE reject' = Append(reject, a.id) /\ UNCHANGED <<accept, found>>
      /\ UNCHANGED <<ies, pc, i, func, req, response>>
  BY DEF Action
<1>2. a \in Actions /\ Part \in Seq(Actions) /\ SubSeq(acts, 1, j) = q /\ j \in Int
  <2>1. j \in 1 .. (Len(acts) + 1)
    BY <1>1, InHand, Zenon
  <2>2. a \in Actions /\ Part \in Seq(Actions) /\ SubSeq(acts, 1, j) = q
    BY <1>1, InHand, Zenon
  <2>3. QED
    BY <2>1, <2>2
<1>3. Results(Met, Part, accept, reject, actionId) /\ (found <=> HasReport(Part))
      /\ (Part # << >> /\ reject = << >> => HasReport(Part))
  BY <1>1 DEF Inv, ScanInv
<1>4. Met \in Seq(Details) /\ accept \in Seq(ActionIds) /\ reject \in Seq(ActionIds)
  BY MetType DEF TypeInv, TypeOK
<1>5. /\ next => Results(Met, q, Append(accept, a.id), reject, a.id)
      /\ ~next => Results(Met, q, accept, Append(reject, a.id), a.id)
  <2> HIDE DEF a
  <2>1. QED
    BY <1>2, <1>3, <1>4, ResultsAction
<1>6. HasReport(q) <=> HasReport(Part) \/ a.type = "report"
  <2> HIDE DEF a
  <2>1. QED
    BY <1>2, SortedNext
<1>7. Met' = Met /\ Before' = Before
  BY <1>1 DEF Met, Before
<1>8. Part' = q
  <2>1. j' - 1 = j
    BY <1>1, <1>2
  <2>2. QED
    BY <1>1, <1>2, <2>1 DEF Part
<1>9. a.id \in ActionIds /\ Append(reject, a.id) # << >>
  <2> HIDE DEF a
  <2>1. a.id \in ActionIds
    BY <1>2 DEF Actions
  <2>2. QED
    BY <1>4, <2>1, AppendOne
<1>10. ScanInv'
  <2> HIDE DEF a, q
  <2>1. Results(Met', Part', accept', reject', actionId')
    BY <1>1, <1>3, <1>5, <1>7, <1>8
  <2>2. found' <=> HasReport(Part')
    BY <1>1, <1>3, <1>6, <1>8
  <2>3. Part' # << >> /\ reject' = << >> => found'
    BY <1>1, <1>9
  <2>4. QED
    BY <1>1, <2>1, <2>2, <2>3 DEF ScanInv
<1>11. FuncInv' /\ ReqInv' /\ EndInv'
  BY <1>1, <1>7 DEF Inv, FuncInv, ReqInv, EndInv
<1>12. QED
  BY <1>10, <1>11 DEF Inv

\* The loop's prefix of the request grows by the element in hand.
LEMMA BeforeGrows ==
  ASSUME TypeInv, i <= Len(ies), i' = i + 1, ies' = ies
  PROVE  /\ ies[i] \in Elements /\ Before \in Seq(Elements)
         /\ Before' = Append(Before, ies[i])
<1>1. i' - 1 = i
  BY BeforeNext
<1>2. QED
  BY <1>1, BeforeNext DEF Before

LEMMA ElementInv ==
  ASSUME TypeInv, Inv, Element
  PROVE  Inv'
<1>1. pc = "elements" /\ i <= Len(ies) /\ UNCHANGED <<ies, func, actionId, accept, reject, response>>
  BY DEF Element
<1>2. Results(Met, << >>, accept, reject, actionId)
  BY <1>1 DEF Inv, ScanInv, Part
<1>3. CASE ies[i].kind = "RICsubscriptionDetails"
  <2>1. pc' = "actions" /\ j' = 1 /\ found' = FALSE /\ UNCHANGED <<i, req>>
    BY <1>3 DEF Element
  <2>2. Before' = Before /\ Met' = Met
    BY <1>1, <2>1 DEF Before, Met
  <2>3. Part' = << >>
    <3>1. j' - 1 = 0
      BY <2>1
    <3>2. QED
      BY <2>1, <3>1, SubSeqEmpty DEF Part
  <2>4. ~HasReport(<< >>)
    BY DEF HasReport
  <2>5. ScanInv'
    BY <1>1, <1>2, <2>1, <2>2, <2>3, <2>4 DEF ScanInv
  <2>6. FuncInv' /\ ReqInv' /\ EndInv'
    BY <1>1, <2>1, <2>2 DEF Inv, FuncInv, ReqInv, EndInv
  <2>7. QED
    BY <2>5, <2>6 DEF Inv
<1>4. CASE ies[i].kind # "RICsubscriptionDetails"
  <2>1. /\ i' = i + 1 /\ UNCHANGED <<pc, j, found>>
        /\ req' = IF ies[i].kind = "RICrequestID" THEN ies[i].req ELSE req
    BY <1>4 DEF Element
  <2>2. ies[i] \in Elements /\ Before \in Seq(Elements) /\ Before' = Append(Before, ies[i])
    BY <1>1, <2>1, BeforeGrows
  <2>3. /\ ies[i] \notin DetailsElements
        /\ ies[i].kind = "RICrequestID" <=> ies[i] \in RequestIdElements
    BY <1>4, <2>2, ElementTypes
  <2>4. Met' = Met
    <3>1. Keep(Append(Before, ies[i]), DetailsElements) = Keep(Before, DetailsElements)
      BY <2>2, <2>3, KeptNext, Zenon
    <3>2. QED
      BY <2>2, <3>1 DEF Met
  <2>5. Part' = << >>
    BY <1>1, <2>1 DEF Part
  <2>6. ScanInv'
    BY <1>1, <1>2, <2>1, <2>4, <2>5 DEF ScanInv
  <2>7. ReqInv'
    <3> DEFINE k == Keep(Before, RequestIdElements)
               l == Keep(Append(Before, ies[i]), RequestIdElements)
    <3>1. k # << >> => req = k[Len(k)].req
      BY <1>1 DEF Inv, ReqInv
    <3>2. /\ ies[i] \in RequestIdElements => l[Len(l)] = ies[i]
          /\ ies[i] \notin RequestIdElements => l = k
      BY <2>2, KeptNext, Zenon
    <3> HIDE DEF k, l
    <3>3. l # << >> => req' = l[Len(l)].req
      BY <2>1, <2>3, <3>1, <3>2
    <3>4. QED
      BY <2>2, <3>3 DEF ReqInv, l
  <2>8. FuncInv' /\ EndInv'
    BY <1>1, <2>1 DEF Inv, FuncInv, EndInv
  <2>9. QED
    BY <2>6, <2>7, <2>8 DEF Inv
<1>5. QED
  BY <1>3, <1>4

LEMMA EndOfActionsInv ==
  ASSUME TypeInv, Inv, EndOfActions
  PROVE  Inv'
<1> DEFINE acts == ies[i].actions
<1>1. /\ pc = "actions" /\ j > Len(acts) /\ pc' = "elements" /\ i' = i + 1
      /\ UNCHANGED <<ies, j, func, req, actionId, found, accept, reject, response>>
  BY DEF EndOfActions
<1>2. i \in 1 .. Len(ies) /\ ies[i] \in DetailsElements /\ acts \in Details /\ Part = acts
  BY <1>1, InHand, Zenon
<1>3. ies[i] \in Elements /\ Before \in Seq(Elements) /\ Before' = Append(Before, ies[i])
  <2>1. i <= Len(ies)
    BY <1>2
  <2>2. QED
    BY <1>1, <2>1, BeforeGrows
<1>4. Met' = Append(Met, acts)
  <2>1. Keep(Append(Before, ies[i]), DetailsElements)
          = Append(Keep(Before, DetailsElements), ies[i])
    BY <1>2, <1>3, KeptNext, Zenon
  <2>2. Keep(Before, DetailsElements) \in Seq(DetailsElements)
    BY <1>3, KeepType
  <2>3. ListsOf(Append(Keep(Before, DetailsElements), ies[i])) = Append(Met, acts)
    BY <1>2, <2>2, ListsAppend DEF Met
  <2>4. QED
    BY <1>3, <2>1, <2>3 DEF Met
<1>5. Results(Met, acts, accept, reject, actionId)
  BY <1>1, <1>2 DEF Inv, ScanInv
<1>6. Results(Append(Met, acts), << >>, accept, reject, actionId)
  BY <1>2, <1>5, MetType, ResultsEnd
<1>7. ScanInv'
  BY <1>1, <1>4, <1>6 DEF ScanInv, Part
<1>8. ReqInv'
  <2> DEFINE k == Keep(Before, RequestIdElements)
  <2>1. ies[i] \notin RequestIdElements
    <3>1. ies[i].kind = "RICsubscriptionDetails"
      BY <1>2, <1>3, ElementTypes
    <3>2. QED
      BY <3>1 DEF RequestIdElements
  <2>2. Keep(Append(Before, ies[i]), RequestIdElements) = k
    BY <1>3, <2>1, KeptNext, Zenon
  <2>3. k # << >> => req = k[Len(k)].req
    BY <1>1 DEF Inv, ReqInv
  <2>4. QED
    BY <1>1, <1>3, <2>2, <2>3 DEF ReqInv
<1>9. FuncInv' /\ EndInv'
  BY <1>1 DEF Inv, FuncInv, EndInv
<1>10. QED
  BY <1>7, <1>8, <1>9 DEF Inv

LEMMA RespondInv ==
  ASSUME TypeInv, Inv, Respond
  PROVE  Inv'
<1>1. /\ pc = "elements" /\ i > Len(ies) /\ pc' \in {"answered", "exited"}
      /\ response' = SubscriptionResponse(req, Content(accept), Content(reject))
      /\ pc' = "answered" <=>
           req # Unencodable /\ Len(accept) \in 1 .. MaxActions /\ reject = << >>
      /\ UNCHANGED <<ies, i, j, func, req, actionId, found, accept, reject>>
  BY DEF Respond, Content
<1>2. Before' = Before /\ Met' = Met /\ Part = << >> /\ Part' = << >>
  BY <1>1 DEF Before, Met, Part
<1>3. Results(Met, << >>, accept, reject, actionId)
  BY <1>1, <1>2 DEF Inv, ScanInv
<1>4. ScanInv'
  BY <1>1, <1>2, <1>3 DEF ScanInv
<1>5. FuncInv' /\ ReqInv'
  BY <1>1, <1>2 DEF Inv, FuncInv, ReqInv
<1>6. EndInv'
  BY <1>1 DEF EndInv
<1>7. QED
  BY <1>4, <1>5, <1>6 DEF Inv

LEMMA NextInv == TypeInv /\ Inv /\ [Next]_vars => Inv'
<1> SUFFICES ASSUME TypeInv, Inv, [Next]_vars PROVE Inv'
  OBVIOUS
<1>1. CASE UNCHANGED vars
  <2>1. UNCHANGED <<ies, pc, i, j, func, req, actionId, found, accept, reject, response>>
    BY <1>1 DEF vars
  <2>2. Before' = Before /\ Met' = Met /\ Part' = Part
    BY <2>1 DEF Before, Met, Part
  <2>3. QED
    BY <2>1, <2>2 DEF Inv, FuncInv, ReqInv, ScanInv, EndInv
<1>2. QED
  BY <1>1, LookupInv, ElementInv, ActionInv, EndOfActionsInv, RespondInv DEF Next

-----------------------------------------------------------------------------
(* The end of the loops. *)

LEMMA NoContent ==
  ASSUME NEW S, NEW s \in Seq(S)
  PROVE  s = << >> <=> Content(s) = {}
<1>1. DOMAIN s = 1 .. Len(s) /\ Len(s) \in Nat
  BY LenProperties
<1>2. CASE s = << >>
  BY <1>2 DEF Content
<1>3. CASE s # << >>
  <2>1. Len(s) # 0
    BY <1>3, EmptySeq
  <2>2. s[1] \in Content(s)
    BY <1>1, <2>1 DEF Content
  <2>3. QED
    BY <1>3, <2>2
<1>4. QED
  BY <1>2, <1>3

\* The request that E2Agent is given.
LEMMA RequestRead ==
  LET lists == ListsOf(Keep(ies, DetailsElements))
  IN  /\ request.details = lists
      /\ request.req = LastOf(ReqIds, [req |-> Missing]).req
      /\ request.func = LastOf(FuncIds, [func |-> Missing]).func
BY DEF request, SubscriptionRequest, Lists, ListsOf

LEMMA EndFunction ==
  ASSUME TypeInv, FuncInv, pc # "lookup"
  PROVE  func \in FunctionIdsRead(request)
<1>1. FuncIds \in Seq(FunctionElements) /\ func \in FunctionIds
  <2>1. ies \in Seq(Elements) /\ func \in FunctionIds
    BY DEF TypeInv, TypeOK
  <2>2. QED
    BY <2>1, KeepType DEF FuncIds
<1>2. CASE FuncIds = << >>
  <2>1. request.func = Missing
    BY <1>2, RequestRead DEF LastOf
  <2>2. QED
    BY <1>1, <2>1 DEF FunctionIdsRead
<1>3. CASE FuncIds # << >>
  <2>1. func = FuncIds[Len(FuncIds)].func
    BY <1>3 DEF FuncInv, FuncIds
  <2>2. request.func = func
    BY <1>3, <2>1, RequestRead DEF LastOf
  <2>3. func # Missing
    BY <1>1, E2APAssumption
  <2>4. QED
    BY <2>2, <2>3 DEF FunctionIdsRead
<1>4. QED
  BY <1>2, <1>3

LEMMA EndRequest ==
  ASSUME TypeInv, ReqInv, pc # "lookup", i > Len(ies)
  PROVE  req \in RequestIdsRead(request)
<1>1. req \in RequestIds \cup {Unencodable} /\ Before = ies
  <2>1. req \in RequestIds \cup {Unencodable}
    BY DEF TypeInv, TypeOK
  <2>2. QED
    BY <2>1, BeforeNext
<1>2. CASE ReqIds = << >>
  <2>1. request.req = Missing
    BY <1>2, RequestRead DEF LastOf
  <2>2. QED
    BY <1>1, <2>1 DEF RequestIdsRead
<1>3. CASE ReqIds # << >>
  <2>1. req = ReqIds[Len(ReqIds)].req
    BY <1>1, <1>3 DEF ReqInv, ReqIds
  <2>2. request.req = req
    BY <1>3, <2>1, RequestRead DEF LastOf
  <2>3. req # Missing
    BY <1>1, E2APAssumption
  <2>4. QED
    BY <2>2, <2>3 DEF RequestIdsRead
<1>4. QED
  BY <1>2, <1>3

LEMMA EndScan ==
  ASSUME TypeInv, ScanInv, pc \notin {"lookup", "actions"}, i > Len(ies)
  PROVE  LET ds == request.details
         IN  /\ actionId \in ActionIdsRead(ds)
             /\ Content(accept) = Admitted(ds) /\ Content(reject) = Rejected(ds)
             /\ reject = << >> <=> Rejected(ds) = {}
             /\ reject = << >> => Len(accept) = Len(ds)
<1> DEFINE ds == request.details
<1>1. Before = ies
  BY BeforeNext
<1>2. Met = ds
  BY <1>1, RequestRead DEF Met
<1>3. Results(ds, << >>, accept, reject, actionId)
  BY <1>2 DEF ScanInv, Part
<1>4. ds \in Seq(Details) /\ Len(ds) \in Nat
  BY <1>2, MetType
<1>5. /\ accept \in Seq(ActionIds) /\ reject \in Seq(ActionIds) /\ actionId \in ActionIds
  BY DEF TypeInv, TypeOK
<1> HIDE DEF ds
<1>6. Content(accept) = Admitted(ds) /\ Content(reject) = Rejected(ds)
  BY <1>3, OneList DEF Results
<1>7. reject = << >> <=> Rejected(ds) = {}
  BY <1>5, <1>6, NoContent
<1>8. reject = << >> => Len(accept) = Len(ds)
  BY <1>3, <1>4 DEF Results
<1>9. actionId \in ActionIdsRead(ds)
  BY <1>3, <1>5 DEF Results, ActionIdsRead
<1>10. QED
  BY <1>6, <1>7, <1>8, <1>9 DEF ds

LEMMA InvScan == TypeInv /\ Inv => ScanFindsResults
<1> SUFFICES ASSUME TypeInv, Inv, pc \in {"answered", "exited"}
             PROVE  /\ func \in FunctionIdsRead(request) /\ req \in RequestIdsRead(request)
                    /\ actionId \in ActionIdsRead(request.details)
                    /\ response = SubscriptionResponse(req, Admitted(request.details),
                                                       Rejected(request.details))
                    /\ pc = "answered" <=> CanAnswer(req, request.details)
  BY Zenon DEF ScanFindsResults
<1>1. /\ i > Len(ies) /\ response = SubscriptionResponse(req, Content(accept), Content(reject))
      /\ pc = "answered" <=>
           req # Unencodable /\ Len(accept) \in 1 .. MaxActions /\ reject = << >>
      /\ pc \notin {"lookup", "actions"}
  BY DEF Inv, EndInv
<1>2. func \in FunctionIdsRead(request) /\ req \in RequestIdsRead(request)
  BY <1>1, EndFunction, EndRequest DEF Inv
<1>3. /\ actionId \in ActionIdsRead(request.details)
      /\ Content(accept) = Admitted(request.details) /\ Content(reject) = Rejected(request.details)
      /\ reject = << >> <=> Rejected(request.details) = {}
      /\ reject = << >> => Len(accept) = Len(request.details)
  BY <1>1, EndScan, Zenon DEF Inv
<1>4. pc = "answered" <=> CanAnswer(req, request.details)
  BY <1>1, <1>3 DEF CanAnswer
<1>5. QED
  BY <1>1, <1>2, <1>3, <1>4, Zenon

\* The loops compute, for a request of any length, with its elements in any order
\* and repeated at will, what E2Agent takes from it in one step: the last function
\* ID, the last request ID (an uninitialised one if there is none), the first
\* REPORT action of each list admitted and every other action rejected; and the
\* response gets out only if nothing is rejected, the request ID can be encoded
\* and there are one to MaxActions lists; anything else ends the process.
THEOREM ScanCorrect == Spec => []ScanFindsResults
<1>1. Init => TypeInv /\ Inv
  BY InitType, InitInv
<1>2. TypeInv /\ Inv /\ [Next]_vars => TypeInv' /\ Inv'
  BY NextType, NextInv
<1>3. TypeInv /\ Inv => ScanFindsResults
  BY InvScan
<1>4. QED
  BY <1>1, <1>2, <1>3, PTL DEF Spec
=============================================================================
