---------------------------- MODULE E2ReportProofs ----------------------------
(* The reports of each subscription, from the first to the last, for all       *)
(* inputs and all values of E2Agent's constants.                               *)
EXTENDS E2ContractProofs

-----------------------------------------------------------------------------
(* Where the report loop is in its input. *)

\* The report r is one of the input's.
Placed(r) == /\ r[1] \in 1 .. Len(input)
             /\ r[2] \in 1 .. Len(input[r[1]].reports)
AllPlaced == \A k \in 1 .. Len(sent) : IsIndication(sent[k]) => Placed(sent[k].report)

\* The connector's input is empty until it is made.
Unfed == source = "viavi" /\ ~portBound =>
           input = << >> /\ phase \notin {"reading", "reporting"}

\* After the message m, the next report due is the one in hand; or no report of
\* the lines read is due any more.
Due(m)  == IF IsIndication(m) THEN IsNext(m.report, <<line, item>>)
           ELSE IsFirst(<<line, item>>)
Done(m) == IF IsIndication(m)
           THEN /\ m.report[1] <= line /\ m.report[2] = Len(input[m.report[1]].reports)
                /\ \A l \in (m.report[1] + 1) .. line : Silent(l)
           ELSE \A l \in 1 .. line : Silent(l)
InPlace ==
  peer = "open" => /\ phase = "reading" => Done(sent[Len(sent)])
                   /\ phase = "reporting" => Due(sent[Len(sent)])
Item == phase = "reporting" => item \in 1 .. (Len(reports) + 1)

SeqInv == ReportsInSequence /\ AllPlaced /\ Unfed /\ InPlace /\ Item

\* The lines of the input are lines.
LEMMA LineTypes ==
  ASSUME TypeInv
  PROVE  /\ Len(input) \in Nat /\ line \in 0 .. Len(input) /\ item \in Nat
         /\ \A l \in 1 .. Len(input) : input[l].reports \in Seq(Fates)
         /\ \A l \in 1 .. Len(input) : Len(input[l].reports) \in Nat
         /\ \A l \in 1 .. Len(input) : input[l].reports = << >> <=> Len(input[l].reports) = 0
<1>1. Len(input) \in Nat /\ line \in 0 .. Len(input) /\ item \in Nat
  BY LenProperties DEF TypeInv, TypeOK
<1>2. \A l \in 1 .. Len(input) : input[l] \in [key : Keys, reports : Seq(Fates)]
  BY ElementOfSeq, AgentAssumption DEF TypeInv, TypeOK
<1>3. \A l \in 1 .. Len(input) : input[l].reports \in Seq(Fates)
  BY <1>2
<1>4. \A s \in Seq(Fates) : Len(s) \in Nat /\ (s = << >> <=> Len(s) = 0)
  BY EmptySeq, LenProperties
<1>5. QED
  BY <1>1, <1>3, <1>4

\* What a report's place was, it stays, when lines are added to the input.
Grows == Len(input) <= Len(input') /\ \A l \in 1 .. Len(input) : input'[l] = input[l]

LEMMA PlacesKept ==
  ASSUME TypeInv, Grows, Len(input') \in Nat
  PROVE  /\ \A r : Placed(r) => Placed(r)'
         /\ \A l \in 1 .. Len(input) : Silent(l)' = Silent(l)
<1>1. Len(input) \in Nat
  BY LineTypes
<1>2. \A l \in 1 .. Len(input) : l \in 1 .. Len(input') /\ input'[l] = input[l]
  BY <1>1 DEF Grows
<1>3. \A r : Placed(r) => Placed(r)'
  BY <1>2 DEF Placed
<1>4. \A l \in 1 .. Len(input) : Silent(l)' = Silent(l)
  BY <1>2 DEF Silent
<1>5. QED
  BY <1>3, <1>4

LEMMA OrderKept ==
  ASSUME TypeInv, Grows, Len(input') \in Nat
  PROVE  /\ \A r, s : Placed(r) /\ s[1] \in 1 .. Len(input) /\ IsNext(r, s) => IsNext(r, s)'
         /\ \A s : s[1] \in 1 .. Len(input) /\ IsFirst(s) => IsFirst(s)'
<1>1. Len(input) \in Nat
  BY LineTypes
<1>2. ASSUME NEW r, NEW s, Placed(r), s[1] \in 1 .. Len(input), IsNext(r, s)
      PROVE  IsNext(r, s)'
  <2>1. input'[r[1]] = input[r[1]] /\ r[1] \in 1 .. Len(input)
    BY <1>2 DEF Placed, Grows
  <2>2. \A l \in (r[1] + 1) .. (s[1] - 1) : l \in 1 .. Len(input)
    BY <1>1, <1>2, <2>1
  <2>3. \A l \in (r[1] + 1) .. (s[1] - 1) : Silent(l)' = Silent(l)
    BY <2>2, PlacesKept
  <2>4. QED
    BY <1>2, <2>1, <2>3 DEF IsNext
<1>3. ASSUME NEW s, s[1] \in 1 .. Len(input), IsFirst(s)
      PROVE  IsFirst(s)'
  <2>1. \A l \in 1 .. (s[1] - 1) : l \in 1 .. Len(input)
    BY <1>1, <1>3
  <2>2. QED
    BY <1>3, <2>1, PlacesKept DEF IsFirst
<1>4. QED
  BY <1>2, <1>3

\* A step that sends nothing keeps the order of what was sent.
LEMMA SentKept ==
  ASSUME TypeInv, ReportsInSequence, AllPlaced, Grows, Len(input') \in Nat, sent' = sent
  PROVE  ReportsInSequence' /\ AllPlaced'
<1>1. AllPlaced'
  BY PlacesKept DEF AllPlaced
<1>2. Len(sent) \in Nat
  BY LenProperties DEF TypeInv, TypeOK
<1>3. ASSUME NEW k \in 2 .. Len(sent), IsIndication(sent[k])
      PROVE  IF IsIndication(sent[k - 1])
             THEN IsNext(sent[k - 1].report, sent[k].report)'
             ELSE IsFirst(sent[k].report)'
  <2>1. k \in 1 .. Len(sent) /\ k - 1 \in 1 .. Len(sent)
    BY <1>2
  <2> DEFINE r == sent[k - 1].report  s == sent[k].report
  <2>2. Placed(s) /\ s[1] \in 1 .. Len(input)
    BY <1>3, <2>1 DEF AllPlaced, Placed
  <2>3. IsIndication(sent[k - 1]) => Placed(r)
    BY <2>1 DEF AllPlaced
  <2>4. IF IsIndication(sent[k - 1]) THEN IsNext(r, s) ELSE IsFirst(s)
    BY <1>3 DEF ReportsInSequence
  <2>5. PICK q, t : q = r /\ t = s
    OBVIOUS
  <2>6. /\ IsIndication(sent[k - 1]) => IsNext(q, t)'
        /\ ~IsIndication(sent[k - 1]) => IsFirst(t)'
    BY <2>2, <2>3, <2>4, <2>5, OrderKept
  <2>7. r' = q /\ s' = t
    BY <2>5
  <2>8. QED
    BY <2>6, <2>7
<1>4. ReportsInSequence'
  BY <1>3 DEF ReportsInSequence
<1>5. QED
  BY <1>1, <1>4
\* A step that touches neither the input nor the place in it.
LEMMA QuietSeq ==
  ASSUME TypeInv, SeqInv, UNCHANGED <<source, portBound, input, line, item, sent>>,
         peer' = "open" => peer = "open",
         phase' = phase \/ phase' \notin {"reading", "reporting"}
  PROVE  SeqInv'
<1>1. ReportsInSequence' /\ AllPlaced'
  BY LineTypes, SentKept DEF SeqInv, Grows
<1>2. Unfed'
  BY DEF SeqInv, Unfed
<1>3. Item'
  BY DEF SeqInv, Item, reports
<1>4. InPlace'
  BY DEF SeqInv, InPlace, Done, Due, IsNext, IsFirst, Silent
<1>5. QED
  BY <1>1, <1>2, <1>3, <1>4 DEF SeqInv

\* A message that is no indication.
LEMMA OtherSeq ==
  ASSUME TypeInv, SeqInv, UNCHANGED <<source, portBound, input, line, item>>,
         NEW m, sent' = Append(sent, m), ~IsIndication(m),
         phase' \notin {"reading", "reporting"}
  PROVE  SeqInv'
<1>1. /\ Len(sent) \in Nat /\ Len(sent') = Len(sent) + 1
      /\ \A k \in 1 .. Len(sent) : sent'[k] = sent[k]
      /\ sent'[Len(sent) + 1] = m
  BY Appended
<1>2. \A k \in 1 .. Len(sent') : IsIndication(sent'[k]) => k \in 1 .. Len(sent)
  BY <1>1
<1>3. AllPlaced'
  <2>1. \A k \in 1 .. Len(sent') : IsIndication(sent'[k]) => Placed(sent[k].report)
    BY <1>1, <1>2 DEF SeqInv, AllPlaced
  <2>2. \A k \in 1 .. Len(sent') : IsIndication(sent'[k]) => Placed(sent'[k].report)
    BY <1>1, <1>2, <2>1
  <2>3. QED
    BY <2>2 DEF AllPlaced, Placed
<1>4. ReportsInSequence'
  <2>1. ASSUME NEW k \in 2 .. Len(sent'), IsIndication(sent'[k])
        PROVE  IF IsIndication(sent'[k - 1])
               THEN IsNext(sent'[k - 1].report, sent'[k].report)
               ELSE IsFirst(sent'[k].report)
    <3>1. k \in 2 .. Len(sent) /\ sent'[k] = sent[k] /\ sent'[k - 1] = sent[k - 1]
      BY <1>1, <1>2, <2>1
    <3>2. QED
      BY <2>1, <3>1 DEF SeqInv, ReportsInSequence
  <2>2. QED
    BY <2>1 DEF ReportsInSequence, IsNext, IsFirst, Silent
<1>5. Unfed' /\ Item' /\ InPlace'
  BY DEF SeqInv, Unfed, Item, InPlace
<1>6. QED
  BY <1>3, <1>4, <1>5 DEF SeqInv

\* The start of the input: whatever was reported before, the first report is due.
LEMMA OpenSeq ==
  ASSUME TypeInv, LinkInv, SeqInv, OpenReports
  PROVE  SeqInv'
<1>1. /\ phase = "open" /\ line' = 0 /\ item' = 0 /\ UNCHANGED <<source, peer, sent>>
      /\ input' = input
  BY DEF OpenReports, SeqInv, Unfed
<1>2. ReportsInSequence' /\ AllPlaced'
  BY <1>1, LineTypes, SentKept DEF SeqInv, Grows
<1>3. Unfed'
  BY DEF OpenReports, SeqInv, Unfed
<1>4. phase' # "reporting"
  BY DEF OpenReports
<1>5. peer = "open" => ~IsIndication(sent[Len(sent)])
  BY <1>1 DEF LinkInv, LastSent, Answered, IsResponse, IsIndication
<1>6. InPlace'
  BY <1>1, <1>4, <1>5 DEF InPlace, Done
<1>7. QED
  BY <1>2, <1>3, <1>4, <1>6 DEF SeqInv, Item

LEMMA ReadSeq ==
  ASSUME TypeInv, LinkInv, SeqInv, ReadLine
  PROVE  SeqInv'
<1>1. /\ phase = "reading" /\ line < Len(input) /\ line' = line + 1 /\ item' = 1
      /\ UNCHANGED <<source, portBound, input, peer, sent>>
      /\ \/ phase' = "exited"
         \/ phase' = "reading" /\ input[line + 1].key = "other"
         \/ phase' = "reporting"
  BY DEF ReadLine
<1>2. /\ Len(input) \in Nat /\ line \in 0 .. Len(input) /\ line + 1 \in 1 .. Len(input)
      /\ Len(input[line + 1].reports) \in Nat
  BY <1>1, LineTypes
<1>3. ReportsInSequence' /\ AllPlaced'
  BY <1>1, <1>2, SentKept DEF SeqInv, Grows
<1>4. Unfed'
  BY <1>1 DEF SeqInv, Unfed
<1>5. Item'
  BY <1>1, <1>2 DEF Item, reports
<1>6. InPlace'
  <2> SUFFICES ASSUME peer = "open"
               PROVE  /\ phase' = "reading" => Done(sent[Len(sent)])'
                      /\ phase' = "reporting" => Due(sent[Len(sent)])'
    BY <1>1 DEF InPlace
  <2>1. PICK m : m = sent[Len(sent)]
    OBVIOUS
  <2>2. Done(m)
    BY <1>1, <2>1 DEF SeqInv, InPlace
  <2>3. IsIndication(m) => m.report[1] \in Int
    BY <1>1, <2>1 DEF LinkInv, LastSent, Answered, IsResponse, IsIndication, Reported, Reports
  <2>4. ASSUME phase' = "reading" PROVE Done(m)'
    <3>1. Silent(line + 1)
      BY <1>1, <2>4 DEF Silent
    <3>2. CASE IsIndication(m)
      <4>1. \A l \in (m.report[1] + 1) .. (line + 1) : Silent(l)
        BY <1>2, <2>2, <2>3, <3>1, <3>2 DEF Done
      <4>2. m.report[1] <= line + 1 /\ m.report[2] = Len(input[m.report[1]].reports)
        BY <1>2, <2>2, <2>3, <3>2 DEF Done
      <4>3. QED
        BY <1>1, <3>2, <4>1, <4>2 DEF Done, Silent
    <3>3. CASE ~IsIndication(m)
      <4>1. \A l \in 1 .. (line + 1) : Silent(l)
        BY <1>2, <2>2, <3>1, <3>3 DEF Done
      <4>2. QED
        BY <1>1, <3>3, <4>1 DEF Done, Silent
    <3>4. QED
      BY <3>2, <3>3
  <2>5. Due(m)'
    <3>1. CASE IsIndication(m)
      <4>1. /\ line + 1 > m.report[1] /\ m.report[2] = Len(input[m.report[1]].reports)
            /\ \A l \in (m.report[1] + 1) .. ((line + 1) - 1) : Silent(l)
        BY <1>2, <2>2, <2>3, <3>1 DEF Done
      <4>2. IsNext(m.report, <<line + 1, 1>>)
        BY <4>1 DEF IsNext
      <4>3. IsNext(m.report, <<line, item>>)'
        BY <1>1, <4>2 DEF IsNext, Silent
      <4>4. QED
        BY <3>1, <4>3 DEF Due
    <3>2. CASE ~IsIndication(m)
      <4>1. IsFirst(<<line + 1, 1>>)
        BY <1>2, <2>2, <3>2 DEF Done, IsFirst
      <4>2. QED
        BY <1>1, <3>2, <4>1 DEF Due, IsFirst, Silent
    <3>3. QED
      BY <3>1, <3>2
  <2>6. sent'[Len(sent')] = m
    BY <1>1, <2>1
  <2>7. QED
    BY <2>4, <2>5, <2>6
<1>7. QED
  BY <1>3, <1>4, <1>5, <1>6 DEF SeqInv
LEMMA ReportSeq ==
  ASSUME TypeInv, SetupInv, SeqInv, SendIndication
  PROVE  SeqInv'
<1>1. /\ phase = "reporting" /\ item <= Len(reports) /\ item' = item + 1
      /\ UNCHANGED <<source, portBound, input, line, peer>>
  BY DEF SendIndication
<1>2. line \in 1 .. Len(input) /\ Len(input) \in Nat /\ item \in 1 .. Len(reports)
      /\ Len(reports) \in Nat
  BY <1>1, LineTypes DEF SeqInv, Item, TypeInv, PhaseData, reports
<1>3. Item' /\ Unfed'
  BY <1>1, <1>2 DEF Item, reports, SeqInv, Unfed
<1>4. CASE peer = "open"
  <2>1. PICK m : m = Indication(sub.req, gFuncId, sub.action, <<line, item>>)
    OBVIOUS
  <2>2. IsIndication(m) /\ m.report = <<line, item>>
    BY <2>1 DEF Indication, IsIndication
  <2>3. sent' = Append(sent, m) /\ phase' = "reporting"
    BY <1>4, <2>1 DEF SendIndication, Send
  <2>4. /\ Len(sent) \in Nat /\ Len(sent') = Len(sent) + 1
        /\ \A k \in 1 .. Len(sent) : sent'[k] = sent[k]
        /\ sent'[Len(sent) + 1] = m
    BY <2>3, Appended
  <2>5. AllPlaced'
    <3>1. Placed(m.report)'
      BY <1>1, <1>2, <2>2 DEF Placed, reports
    <3>2. \A k \in 1 .. Len(sent) : IsIndication(sent[k]) => Placed(sent[k].report)
      BY DEF SeqInv, AllPlaced
    <3>3. \A k \in 1 .. Len(sent') : k \in 1 .. Len(sent) \/ k = Len(sent) + 1
      BY <2>4
    <3>4. QED
      BY <1>1, <2>4, <3>1, <3>2, <3>3 DEF AllPlaced, Placed
  <2>6. ReportsInSequence'
    <3>1. Due(sent[Len(sent)])
      BY <1>1, <1>4 DEF SeqInv, InPlace
    <3>2. ASSUME NEW k \in 2 .. Len(sent'), IsIndication(sent'[k])
          PROVE  IF IsIndication(sent'[k - 1])
                 THEN IsNext(sent'[k - 1].report, sent'[k].report)
                 ELSE IsFirst(sent'[k].report)
      <4>1. CASE k = Len(sent')
        <5>1. sent'[k] = m /\ sent'[k - 1] = sent[Len(sent)]
          BY <2>4, <3>2, <4>1
        <5>2. QED
          BY <2>2, <3>1, <5>1 DEF Due
      <4>2. CASE k # Len(sent')
        <5>1. k \in 2 .. Len(sent) /\ sent'[k] = sent[k] /\ sent'[k - 1] = sent[k - 1]
          BY <2>4, <3>2, <4>2
        <5>2. QED
          BY <3>2, <5>1 DEF SeqInv, ReportsInSequence
      <4>3. QED
        BY <4>1, <4>2
    <3>3. QED
      BY <1>1, <3>2 DEF ReportsInSequence, IsNext, IsFirst, Silent
  <2>7. InPlace'
    <3>1. IsNext(m.report, <<line, item + 1>>)
      BY <2>2 DEF IsNext
    <3>2. Due(m)'
      BY <1>1, <2>2, <3>1 DEF Due, IsNext, Silent
    <3>3. sent'[Len(sent')] = m
      BY <2>4
    <3>4. QED
      BY <2>3, <3>2, <3>3 DEF InPlace
  <2>8. QED
    BY <1>3, <2>5, <2>6, <2>7 DEF SeqInv
<1>5. CASE peer # "open"
  <2>1. sent' = sent
    BY <1>5 DEF SendIndication, Send
  <2>2. ReportsInSequence' /\ AllPlaced'
    BY <1>1, <1>2, <2>1, SentKept DEF SeqInv, Grows
  <2>3. QED
    BY <1>1, <1>3, <1>5, <2>2 DEF SeqInv, InPlace
<1>6. QED
  BY <1>4, <1>5

LEMMA LineDoneSeq ==
  ASSUME TypeInv, LinkInv, SeqInv, EndOfLine
  PROVE  SeqInv'
<1>1. /\ phase = "reporting" /\ item > Len(reports) /\ phase' = "reading"
      /\ UNCHANGED <<source, portBound, input, line, item, peer, sent>>
  BY DEF EndOfLine, reportVars
<1>2. line \in 1 .. Len(input) /\ Len(input) \in Nat /\ item \in 1 .. (Len(reports) + 1)
      /\ Len(reports) \in Nat /\ (reports = << >> <=> Len(reports) = 0)
  BY <1>1, LineTypes DEF SeqInv, Item, TypeInv, PhaseData, reports
<1>3. item = Len(reports) + 1
  BY <1>1, <1>2
<1>4. ReportsInSequence' /\ AllPlaced'
  BY <1>1, <1>2, SentKept DEF SeqInv, Grows
<1>5. Unfed' /\ Item'
  BY <1>1 DEF SeqInv, Unfed, Item
<1>6. InPlace'
  <2> SUFFICES ASSUME peer = "open" PROVE Done(sent[Len(sent)])'
    BY <1>1 DEF InPlace
  <2>1. PICK m : m = sent[Len(sent)]
    OBVIOUS
  <2>2. Due(m)
    BY <1>1, <2>1 DEF SeqInv, InPlace
  <2>3. IsIndication(m) => m.report[1] \in Int /\ m.report[2] \in Int
    BY <1>1, <2>1 DEF LinkInv, LastSent, Answered, IsResponse, IsIndication, Reported, Reports
  <2>4. item = 1 => Silent(line)
    BY <1>2, <1>3 DEF Silent, reports
  <2>5. Done(m)
    <3>1. CASE IsIndication(m) /\ line = m.report[1] /\ item = m.report[2] + 1
      BY <1>2, <1>3, <2>3, <3>1 DEF Done, reports
    <3>2. CASE /\ IsIndication(m) /\ line > m.report[1] /\ item = 1
               /\ m.report[2] = Len(input[m.report[1]].reports)
               /\ \A l \in (m.report[1] + 1) .. (line - 1) : Silent(l)
      BY <1>2, <2>3, <2>4, <3>2 DEF Done
    <3>3. CASE ~IsIndication(m)
      <4>1. item = 1 /\ \A l \in 1 .. (line - 1) : Silent(l)
        BY <2>2, <3>3 DEF Due, IsFirst
      <4>2. QED
        BY <1>2, <2>4, <3>3, <4>1 DEF Done
    <3>4. QED
      BY <2>2, <3>1, <3>2, <3>3 DEF Due, IsNext
  <2>6. Done(m)'
    BY <1>1, <2>5 DEF Done, Silent
  <2>7. sent'[Len(sent')] = m
    BY <1>1, <2>1
  <2>8. QED
    BY <2>6, <2>7
<1>7. QED
  BY <1>4, <1>5, <1>6 DEF SeqInv

\* The tester adds lines behind the loop's place.
LEMMA FeedSeq ==
  ASSUME TypeInv, SetupInv, SeqInv, TesterSendsLine
  PROVE  SeqInv'
<1>1. /\ phase \in {"reading", "reporting"}
      /\ UNCHANGED <<phase, source, portBound, line, item, peer, sent>>
  BY DEF TesterSendsLine, Feeding
<1>2. PICK x \in Lines : input' = Append(input, x)
  BY DEF TesterSendsLine
<1>3. /\ Len(input) \in Nat /\ Len(input') = Len(input) + 1 /\ line \in 0 .. Len(input)
      /\ \A l \in 1 .. Len(input) : input'[l] = input[l]
  BY <1>2, AppendProperties, LineTypes DEF TypeInv, TypeOK
<1>4. Grows /\ Len(input') \in Nat
  BY <1>3 DEF Grows
<1>5. ReportsInSequence' /\ AllPlaced'
  BY <1>1, <1>4, SentKept DEF SeqInv
<1>6. Unfed'
  BY <1>1 DEF SeqInv, Unfed
<1>7. phase = "reporting" => line \in 1 .. Len(input)
  BY <1>3 DEF TypeInv, PhaseData
<1>8. Item'
  BY <1>1, <1>3, <1>7 DEF SeqInv, Item, reports
<1>9. InPlace'
  <2> SUFFICES ASSUME peer = "open"
               PROVE  /\ phase = "reading" => Done(sent[Len(sent)])'
                      /\ phase = "reporting" => Due(sent[Len(sent)])'
    BY <1>1 DEF InPlace
  <2>1. PICK m : m = sent[Len(sent)]
    OBVIOUS
  <2>2. IsIndication(m) => Placed(m.report)
    <3>1. sent # << >>
      BY <1>1, Introduced DEF Early, Ended
    <3>2. Len(sent) \in 1 .. Len(sent)
      BY <3>1, LastOfSeq DEF TypeInv, TypeOK
    <3>3. QED
      BY <2>1, <3>2 DEF SeqInv, AllPlaced
  <2>3. sent'[Len(sent')] = m
    BY <1>1, <2>1
  <2>4. ASSUME phase = "reading" PROVE Done(m)'
    <3>1. Done(m)
      BY <2>1, <2>4 DEF SeqInv, InPlace
    <3>2. CASE IsIndication(m)
      <4>1. m.report[1] \in 1 .. Len(input) /\ input'[m.report[1]] = input[m.report[1]]
        BY <1>3, <2>2, <3>2 DEF Placed
      <4>2. \A l \in (m.report[1] + 1) .. line : l \in 1 .. Len(input)
        BY <1>3, <4>1
      <4>3. \A l \in (m.report[1] + 1) .. line : Silent(l)'
        BY <1>4, <3>1, <3>2, <4>2, PlacesKept DEF Done
      <4>4. QED
        BY <1>1, <3>1, <3>2, <4>1, <4>3 DEF Done
    <3>3. CASE ~IsIndication(m)
      <4>1. \A l \in 1 .. line : Silent(l)'
        BY <1>3, <1>4, <3>1, <3>3, PlacesKept DEF Done
      <4>2. QED
        BY <1>1, <3>3, <4>1 DEF Done
    <3>4. QED
      BY <3>2, <3>3
  <2>5. ASSUME phase = "reporting" PROVE Due(m)'
    <3>1. Due(m) /\ line \in 1 .. Len(input)
      BY <1>7, <2>1, <2>5 DEF SeqInv, InPlace
    <3>2. PICK p : p = <<line, item>>
      OBVIOUS
    <3>3. p[1] \in 1 .. Len(input)
      BY <3>1, <3>2
    <3>4. /\ IsIndication(m) => IsNext(m.report, p)'
          /\ ~IsIndication(m) => IsFirst(p)'
      BY <1>4, <2>2, <3>1, <3>2, <3>3, OrderKept DEF Due
    <3>5. <<line, item>>' = p
      BY <1>1, <3>2
    <3>6. QED
      BY <3>4, <3>5 DEF Due
  <2>6. QED
    BY <2>3, <2>4, <2>5
<1>10. QED
  BY <1>5, <1>6, <1>8, <1>9 DEF SeqInv
\* The messages that are no indications.
LEMMA SendSeq ==
  ASSUME TypeInv, SeqInv,
         SendSetup \/ HandleE2SetupRequest \/ SendOwnSubscription \/ HandleServiceQuery
           \/ SendSubscriptionResponse
  PROVE  SeqInv'
<1> DEFINE ms == {SetupRequest(ran_functions_registered), SetupResponse,
                  OwnSubscriptionRequest(OwnRequestId, OwnActionId),
                  ServiceUpdate(ran_functions_registered),
                  SubscriptionResponse(sub.req, Admitted(sub.details), Rejected(sub.details))}
<1>1. \A m \in ms : ~IsIndication(m)
  BY DEF IsIndication, SetupRequest, SetupResponse, Plain, OwnSubscriptionRequest,
    SubscriptionRequest, ServiceUpdate, SubscriptionResponse
<1>2. /\ UNCHANGED <<source, portBound, input, line, item, peer>>
      /\ phase' \notin {"reading", "reporting"}
  BY DEF SendSetup, HandleE2SetupRequest, SendOwnSubscription, HandleServiceQuery,
    SendSubscriptionResponse, Send, reportVars
<1>3. sent' = sent \/ \E m \in ms : sent' = Append(sent, m)
  BY DEF SendSetup, HandleE2SetupRequest, SendOwnSubscription, HandleServiceQuery,
    SendSubscriptionResponse, Send
<1> HIDE DEF ms
<1>4. CASE sent' = sent
  BY <1>2, <1>4, QuietSeq
<1>5. CASE \E m \in ms : sent' = Append(sent, m)
  BY <1>1, <1>2, <1>5, OtherSeq
<1>6. QED
  BY <1>3, <1>4, <1>5

\* All other steps.
LEMMA ElseSeq ==
  ASSUME TypeInv, SeqInv, LinkInv,
         Register \/ Connect \/ CheckRunning \/ Receive \/ DecodeFails \/ LogOnly
           \/ HandleSubscriptionRequest \/ EndOfReports \/ ReportOutOfRange \/ ReportFatal
           \/ JoinConnector \/ ConnectorAborts \/ RicSends \/ RicEnds \/ Signal \/ TesterEnds
  PROVE  SeqInv'
<1>1. CASE Connect
  <2>1. UNCHANGED <<source, portBound, input, line, item, sent>>
    BY <1>1 DEF Connect, reportVars
  <2>2. phase' \in {"connected", "exited"}
    BY <1>1 DEF Connect
  <2>3. ReportsInSequence' /\ AllPlaced'
    BY <2>1, LineTypes, SentKept DEF SeqInv, Grows
  <2>4. QED
    BY <2>1, <2>2, <2>3 DEF SeqInv, Unfed, InPlace, Item
<1>2. CASE ~Connect
  <2>1. /\ UNCHANGED <<source, portBound, input, line, item, sent>>
        /\ phase' = phase \/ phase' \notin {"reading", "reporting"}
        /\ peer' = "open" => peer = "open"
    BY <1>2 DEF Register, CheckRunning, Receive, DecodeFails, LogOnly,
      HandleSubscriptionRequest, CallSubscriptionCallback, NoSuchFunction, EndOfReports,
      AfterReports, ReportOutOfRange, ReportFatal, JoinConnector, ConnectorAborts, RicSends,
      RicEnds, Signal, TesterEnds, reportVars
  <2>2. QED
    BY <2>1, QuietSeq
<1>3. QED
  BY <1>1, <1>2

LEMMA NextSeq == TypeInv /\ SetupInv /\ LinkInv /\ SeqInv /\ [Next]_vars => SeqInv'
<1>1. ASSUME TypeInv, SeqInv, UNCHANGED vars PROVE SeqInv'
  BY <1>1, QuietSeq DEF vars, reportVars
<1>2. QED
  BY <1>1, OpenSeq, ReadSeq, ReportSeq, LineDoneSeq, FeedSeq, SendSeq, ElseSeq
  DEF Next, AgentStep, Environment

LEMMA InitSeq == Init => SeqInv
<1>1. Len(<< >>) = 0
  OBVIOUS
<1>2. QED
  BY <1>1 DEF Init, SeqInv, ReportsInSequence, AllPlaced, Unfed, InPlace, Item

\* Each subscription is sent the reports of the input from the first one on, in
\* order, none left out and none twice, however many subscriptions were served
\* before it and whatever ended them.
THEOREM ReportsInOrder == Spec => []ReportsInSequence
<1>1. SeqInv => ReportsInSequence
  BY DEF SeqInv
<1>2. QED
  BY <1>1, InitType, NextType, InitSetup, NextSetup, InitLink, NextLink, InitSeq, NextSeq,
     PTL DEF Spec

-----------------------------------------------------------------------------
(* The last report. *)

\* The PDU in hand is one whose callback has returned by itself.
Returned == /\ handled # << >> /\ handled[Len(handled)].called
            /\ ~handled[Len(handled)].noFunction
AllSent  == LET last == sent[Len(sent)]
            IN  IF IsIndication(last) THEN IsLast(last.report)
                ELSE IsResponse(last) /\ \A l \in 1 .. Len(input) : Silent(l)

\* No callback has run before the PDU is dispatched.
Uncalled == phase \in Early \cup {"dispatch", "sleep"} => ~Returned

CompleteInv == ReportsComplete /\ Uncalled

\* A step that leaves the callback's work as it is.
LEMMA QuietComplete ==
  ASSUME CompleteInv, UNCHANGED <<handled, sent, input>>, peer' = "open" => peer = "open",
         \/ phase' = phase
         \/ phase' \in {"loop", "recv"} /\ phase \in {"loop", "joining"}
         \/ phase' \notin Early \cup {"dispatch", "sleep", "loop", "recv", "joining"}
  PROVE  CompleteInv'
<1>1. Uncalled'
  BY DEF CompleteInv, Uncalled, Returned, Early
<1>2. ReportsComplete'
  BY DEF CompleteInv, ReportsComplete, IsLast, Silent
<1>3. QED
  BY <1>1, <1>2 DEF CompleteInv

\* A PDU that no callback has dealt with.
LEMMA UncalledComplete ==
  ASSUME ~Returned'
  PROVE  CompleteInv'
BY DEF CompleteInv, Uncalled, ReportsComplete, Returned

\* A step to a place where nothing is claimed.
LEMMA AwayComplete ==
  ASSUME phase' \notin Early \cup {"dispatch", "sleep", "loop", "recv", "joining"}
  PROVE  CompleteInv'
BY DEF CompleteInv, Uncalled, ReportsComplete

\* The callback returns: its input is at its end.
LEMMA EndComplete ==
  ASSUME TypeInv, LinkInv, SeqInv, EndOfReports
  PROVE  CompleteInv'
<1>1. /\ phase = "reading" /\ line = Len(input) /\ phase' \in {"loop", "joining"}
      /\ UNCHANGED <<input, sent, peer, handled>>
  BY DEF EndOfReports, AfterReports, reportVars
<1>2. Uncalled'
  BY <1>1 DEF Uncalled, Early
<1>3. ASSUME peer = "open" PROVE AllSent
  <2>1. PICK m : m = sent[Len(sent)]
    OBVIOUS
  <2>2. Done(m) /\ (IsIndication(m) \/ IsResponse(m))
    BY <1>1, <1>3, <2>1 DEF SeqInv, InPlace, LinkInv, LastSent, Answered, Reported
  <2>3. IF IsIndication(m) THEN IsLast(m.report)
        ELSE IsResponse(m) /\ \A l \in 1 .. Len(input) : Silent(l)
    BY <1>1, <2>2 DEF Done, IsLast
  <2>4. QED
    BY <2>1, <2>3 DEF AllSent
<1>4. ReportsComplete'
  BY <1>1, <1>3 DEF ReportsComplete, AllSent, IsLast, Silent
<1>5. QED
  BY <1>2, <1>4 DEF CompleteInv
\* A failed lookup, or an exception that is taken for one.
LEMMA MarkedComplete ==
  ASSUME TypeInv, phase \in Serving,
         handled' = [handled EXCEPT ![Len(handled)].noFunction = TRUE]
  PROVE  CompleteInv'
<1> DEFINE n == Len(handled)  h == handled[n]
<1>1. n \in 1 .. n /\ h \in Handling /\ handled \in Seq(Handling)
  BY LastHandling DEF TypeInv, TypeOK
<1>2. [h EXCEPT !.noFunction = TRUE] \in Handling /\ [h EXCEPT !.noFunction = TRUE].noFunction
  BY <1>1 DEF Handling
<1>3. PICK x \in Handling : handled' = [handled EXCEPT ![n] = x] /\ x.noFunction
  BY <1>2
<1>4. Len(handled') = n /\ handled'[n] = x
  BY <1>1, <1>3, ExceptSeq
<1>5. QED
  BY <1>3, <1>4, UncalledComplete DEF Returned

LEMMA ReceiveComplete ==
  ASSUME TypeInv, CompleteInv, Receive
  PROVE  CompleteInv'
<1>1. CASE inbox # << >> /\ phase' = "dispatch"
  <2> DEFINE h == [pdu |-> Head(inbox), late |-> ~running, called |-> FALSE, noFunction |-> FALSE]
  <2>1. inbox \in Seq(PeerPdus) /\ handled \in Seq(Handling)
    BY DEF TypeInv, TypeOK
  <2>2. handled' = Append(handled, h)
    BY <1>1 DEF Receive
  <2>3. h \in Handling /\ ~h.called
    BY <1>1, <2>1, HeadTailProperties DEF Handling, TypeInv, TypeOK
  <2> HIDE DEF h
  <2>4. handled'[Len(handled')] = h
    BY <2>1, <2>2, <2>3, AppendProperties
  <2>5. QED
    BY <2>3, <2>4, UncalledComplete DEF Returned
<1>2. CASE phase' \in {"returned", "exited"}
  BY <1>2, AwayComplete DEF Early
<1>3. QED
  BY <1>1, <1>2 DEF Receive

LEMMA NextComplete ==
  TypeInv /\ LinkInv /\ SeqInv /\ CompleteInv /\ [Next]_vars => CompleteInv'
<1> SUFFICES ASSUME TypeInv, LinkInv, SeqInv, CompleteInv, [Next]_vars PROVE CompleteInv'
  OBVIOUS
<1>1. CASE UNCHANGED vars
  BY <1>1, QuietComplete DEF vars, reportVars
<1>2. CASE Register \/ Connect \/ SendSetup \/ HandleE2SetupRequest \/ SendOwnSubscription
           \/ HandleServiceQuery \/ LogOnly
  <2>1. phase \in Early \cup {"dispatch", "sleep"} /\ handled' = handled
    BY <1>2 DEF Register, Connect, SendSetup, HandleE2SetupRequest, SendOwnSubscription,
      HandleServiceQuery, LogOnly, Dispatch, Early
  <2>2. ~Returned
    BY <2>1 DEF CompleteInv, Uncalled
  <2>3. QED
    BY <2>1, <2>2, UncalledComplete DEF Returned
<1>3. CASE HandleSubscriptionRequest
  <2>1. PICK f : CallSubscriptionCallback(f) \/ NoSuchFunction(f)
    BY <1>3 DEF HandleSubscriptionRequest
  <2>2. CASE CallSubscriptionCallback(f)
    BY <2>2, AwayComplete DEF CallSubscriptionCallback, Early
  <2>3. CASE NoSuchFunction(f)
    BY <1>3, <2>3, MarkedComplete DEF HandleSubscriptionRequest, Dispatch, NoSuchFunction, Serving
  <2>4. QED
    BY <2>1, <2>2, <2>3
<1>4. CASE ReportOutOfRange
  BY <1>4, MarkedComplete DEF ReportOutOfRange, Serving
<1>5. CASE ReadLine
  <2>1. phase' \in {"exited", "reading", "reporting"}
    BY <1>5 DEF ReadLine
  <2>2. QED
    BY <2>1, AwayComplete DEF Early
<1>6. CASE DecodeFails \/ SendSubscriptionResponse \/ OpenReports \/ SendIndication \/ EndOfLine
           \/ ReportFatal \/ ConnectorAborts \/ TesterSendsLine \/ TesterEnds
  BY <1>6, AwayComplete DEF DecodeFails, SendSubscriptionResponse, OpenReports, SendIndication,
    EndOfLine, ReportFatal, ConnectorAborts, TesterSendsLine, TesterEnds, Feeding, Send, Early
<1>7. CASE CheckRunning \/ JoinConnector
  <2>1. phase' \in {"loop", "recv", "returned"} /\ phase \in {"loop", "joining"}
    BY <1>7 DEF CheckRunning, JoinConnector
  <2>2. UNCHANGED <<handled, sent, input, peer>>
    BY <1>7 DEF CheckRunning, JoinConnector, reportVars
  <2>3. QED
    BY <2>1, <2>2, QuietComplete DEF Early
<1>8. CASE RicSends \/ RicEnds \/ Signal
  BY <1>8, QuietComplete DEF RicSends, RicEnds, Signal, reportVars, Early
<1>9. QED
  BY <1>1, <1>2, <1>3, <1>4, <1>5, <1>6, <1>7, <1>8, EndComplete, ReceiveComplete
  DEF Next, AgentStep, Environment

LEMMA InitComplete == Init => CompleteInv
BY DEF Init, CompleteInv, ReportsComplete, Uncalled, Returned

\* A callback that has returned by itself has sent the last report of its
\* input, while the association stands; none is left out at the end.
THEOREM ReportsSentToTheEnd == Spec => []ReportsComplete
<1>1. CompleteInv => ReportsComplete
  BY DEF CompleteInv
<1>2. QED
  BY <1>1, InitType, NextType, InitSetup, NextSetup, InitLink, NextLink, InitSeq, NextSeq,
     InitComplete, NextComplete, PTL DEF Spec
=============================================================================
