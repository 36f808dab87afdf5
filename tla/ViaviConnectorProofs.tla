------------------------- MODULE ViaviConnectorProofs -------------------------
(* Theorems about ViaviConnector, for any number of connections and pieces and *)
(* any capacity of the pipe.                                                   *)
EXTENDS ViaviConnector, SequenceFilterProofs, FiniteSetTheorems
LOCAL INSTANCE SequencesExt

-----------------------------------------------------------------------------
(* Sequences. *)

LEMMA Nonempty ==
  ASSUME NEW S, NEW s \in Seq(S), NEW x \in S
  PROVE  Append(s, x) \in Seq(S) /\ Append(s, x) # << >>
         /\ Len(Append(s, x)) = Len(s) + 1
BY AppendProperties, LenProperties

LEMMA HeadAndTail ==
  ASSUME NEW S, NEW s \in Seq(S), s # << >>
  PROVE  Head(s) \in S /\ Tail(s) \in Seq(S) /\ Len(s) \in Nat /\ Len(s) > 0
         /\ Len(Tail(s)) = Len(s) - 1
<1>1. Len(s) \in Nat /\ Len(s) # 0
  BY EmptySeq, LenProperties, Zenon
<1>2. QED
  BY <1>1, HeadTailProperties

\* A concatenation is empty only if both parts are.
LEMMA ConcatNonempty ==
  ASSUME NEW S, NEW s \in Seq(S), NEW t \in Seq(S), s # << >> \/ t # << >>
  PROVE  s \o t \in Seq(S) /\ s \o t # << >>
<1>1. Len(s) \in Nat /\ Len(t) \in Nat /\ (Len(s) # 0 \/ Len(t) # 0)
  BY EmptySeq, LenProperties, Zenon
<1>2. s \o t \in Seq(S) /\ Len(s \o t) = Len(s) + Len(t)
  BY ConcatProperties
<1>3. Len(s \o t) # 0 /\ Len(<< >>) = 0
  BY <1>1, <1>2
<1>4. QED
  BY <1>2, <1>3

-----------------------------------------------------------------------------
(* Type correctness. *)

\* The vector owns the server thread from the start, which leaves room when its
\* capacity doubles; the line in use has a piece.
TypeInv ==
  /\ TypeOK
  /\ range \in [left : Seq(Threads), valid : BOOLEAN]
  /\ threads # << >>
  /\ main = "using" => text # << >>

LEMMA InitType == Init => TypeInv
<1> SUFFICES ASSUME Init PROVE TypeInv
  OBVIOUS
<1>1. /\ << >> \in Seq(Threads) /\ << >> \in Seq(Pieces) /\ Len(<< >>) = 0
      /\ << "server" >> \in Seq(Threads) /\ Len(<< "server" >>) = 1
      /\ << "server" >> # << >>
  BY DEF Threads
<1>2. range \in [left : Seq(Threads), valid : BOOLEAN]
  BY <1>1 DEF Init
<1>3. 0 <= PipeCapacity
  BY ConnectorAssumption
<1>4. QED
  BY <1>1, <1>2, <1>3 DEF Init, TypeInv, TypeOK, Mains, Services

\* One lemma per kind of thread.
LEMMA ServerType ==
  ASSUME TypeInv, ServerStep \/ AcceptFails
  PROVE  TypeInv'
<1> USE DEF TypeInv, TypeOK, Mains, Services
<1>1. CASE ServerChecks
  BY <1>1 DEF ServerChecks, threadVars, connVars, pipeVars, textVars
<1>2. CASE AcceptFails
  BY <1>2 DEF AcceptFails, threadVars, connVars, pipeVars, textVars
<1>3. ASSUME NEW c \in Connections, Accept(c)
      PROVE  TypeInv'
  <2>1. /\ threads' = Append(threads, c) /\ service' \in [Connections -> Services]
        /\ capacity' = (IF Len(threads) = capacity THEN 2 * capacity ELSE capacity)
        /\ server' = "check"
        /\ range' = [range EXCEPT !.valid =
                       @ /\ ~(Len(threads) = capacity /\ main = "joining")]
        /\ UNCHANGED <<main, alive, joined, read, outbuf, pipeVars, textVars>>
    BY <1>3 DEF Accept
  <2>2. c \in Threads
    BY DEF Threads
  <2>3. /\ threads' \in Seq(Threads) /\ threads' # << >>
        /\ Len(threads') = Len(threads) + 1
    BY <2>1, <2>2, Nonempty
  <2>4. Len(threads) \in Nat /\ Len(threads) > 0
    BY HeadAndTail
  <2>5. capacity' \in Nat /\ Len(threads') <= capacity'
    BY <2>1, <2>3, <2>4
  <2>6. /\ range' \in [left : Seq(Threads), valid : BOOLEAN]
        /\ range'.left \in Seq(Threads) /\ range'.valid \in BOOLEAN
    <3>1. \A b \in BOOLEAN :
            [range EXCEPT !.valid = b] \in [left : Seq(Threads), valid : BOOLEAN]
      OBVIOUS
    <3>2. range' \in [left : Seq(Threads), valid : BOOLEAN]
      BY <2>1, <3>1
    <3>3. QED
      BY <3>2
  <2>7. QED
    BY <2>1, <2>3, <2>5, <2>6 DEF pipeVars, textVars
<1>4. QED
  BY <1>1, <1>2, <1>3 DEF ServerStep

\* What get returns is a piece of its connection.
LEMMA PieceGot ==
  ASSUME NEW c \in Connections, NEW s \in Seq(Pieces),
         NEW p \in {Piece(c, Len(s) + 1), Stale(c)}
  PROVE  p \in Pieces
BY LenProperties DEF Piece, Stale, Pieces

LEMMA ServiceType ==
  ASSUME TypeInv, NEW c \in Connections, ServiceStep(c) \/ Tester(c)
  PROVE  TypeInv'
<1> USE DEF TypeInv, TypeOK, Mains, Services
<1>1. CASE TesterConnects(c) \/ ServiceChecks(c) \/ BeginWrite(c) \/ ServiceEnds(c)
  BY <1>1 DEF TesterConnects, ServiceChecks, BeginWrite, ServiceEnds, threadVars, connVars,
    pipeVars, textVars
<1>2. CASE ServiceGets(c)
  <2>1. PICK p \in {Piece(c, Len(read[c]) + 1), Stale(c)} :
          /\ read' = [read EXCEPT ![c] = Append(@, p)]
          /\ outbuf' = [outbuf EXCEPT ![c] = Append(@, p)]
    BY <1>2 DEF ServiceGets
  <2>2. read[c] \in Seq(Pieces) /\ outbuf[c] \in Seq(Pieces)
    OBVIOUS
  <2>3. p \in Pieces
    BY <2>2, PieceGot
  <2>4. Append(read[c], p) \in Seq(Pieces) /\ Append(outbuf[c], p) \in Seq(Pieces)
    BY <2>2, <2>3, Nonempty
  <2>5. read' \in [Connections -> Seq(Pieces)] /\ outbuf' \in [Connections -> Seq(Pieces)]
    BY <2>1, <2>4
  <2>6. service' \in [Connections -> Services]
    BY <1>2 DEF ServiceGets
  <2>7. UNCHANGED <<main, alive, server, threadVars, pipeVars, textVars>>
    BY <1>2 DEF ServiceGets
  <2>8. QED
    BY <2>5, <2>6, <2>7 DEF threadVars, pipeVars, textVars
<1>3. CASE Flush(c)
  <2>1. outbuf[c] \in Seq(Pieces) /\ outbuf[c] # << >>
    BY <1>3 DEF Flush
  <2>2. Head(outbuf[c]) \in Pieces /\ Tail(outbuf[c]) \in Seq(Pieces)
    BY <2>1, HeadAndTail
  <2>3. outbuf' = [outbuf EXCEPT ![c] = Tail(@)]
    BY <1>3 DEF Flush
  <2>4. outbuf' \in [Connections -> Seq(Pieces)]
    BY <2>2, <2>3
  <2>5. service' \in [Connections -> Services]
    <3>1. service' = [service EXCEPT ![c] = Flushed(outbuf'[c], @)]
      BY <1>3 DEF Flush
    <3>2. Flushed(outbuf'[c], service[c]) \in Services
      BY DEF Flushed
    <3>3. QED
      BY <3>1, <3>2
  <2>6. pipe' \in Seq(Pieces) /\ Len(pipe') <= PipeCapacity
    <3>1. CASE UNCHANGED pipe
      BY <3>1
    <3>2. CASE Len(pipe) < PipeCapacity /\ pipe' = Append(pipe, Head(outbuf[c]))
      <4>1. pipe' \in Seq(Pieces) /\ Len(pipe') = Len(pipe) + 1 /\ Len(pipe) \in Nat
        BY <2>2, <3>2, Nonempty, LenProperties
      <4>2. QED
        BY <3>2, <4>1, ConnectorAssumption
    <3>3. QED
      BY <1>3, <3>1, <3>2 DEF Flush
  <2>7. /\ writing' \subseteq Connections
        /\ UNCHANGED <<main, alive, server, threadVars, read, pipeOpen, textVars>>
    BY <1>3 DEF Flush
  <2>8. QED
    BY <2>4, <2>5, <2>6, <2>7 DEF threadVars, textVars
<1>4. QED
  BY <1>1, <1>2, <1>3 DEF ServiceStep, Tester

LEMMA MainType ==
  ASSUME TypeInv, MainStep
  PROVE  TypeInv'
<1> USE DEF TypeInv, TypeOK, Mains
<1>1. CASE ReadPiece
  <2>1. /\ Head(pipe) \in Pieces /\ Tail(pipe) \in Seq(Pieces)
        /\ Len(pipe) \in Nat /\ Len(Tail(pipe)) = Len(pipe) - 1
    BY <1>1, HeadAndTail DEF ReadPiece
  <2>2. text' \in Seq(Pieces) /\ text' # << >>
    BY <1>1, <2>1, Nonempty DEF ReadPiece
  <2>3. pipe' \in Seq(Pieces) /\ Len(pipe') <= PipeCapacity
    BY <1>1, <2>1, ConnectorAssumption DEF ReadPiece
  <2>4. main' \in {"reading", "using"}
        /\ UNCHANGED <<alive, got, server, threadVars, connVars, pipeOpen, writing>>
    BY <1>1 DEF ReadPiece
  <2>5. QED
    BY <2>2, <2>3, <2>4 DEF threadVars, connVars
<1>2. CASE ReadLastLine
  BY <1>2 DEF ReadLastLine, threadVars, connVars, pipeVars, textVars
<1>3. CASE UseLine
  <2>1. main' \in {"reading", "stopping", "aborted"} /\ alive' \in BOOLEAN
    BY <1>3 DEF UseLine
  <2>2. text # << >>
    BY <1>3 DEF UseLine
  <2>3. got' \in Seq(Pieces)
    BY <1>3, <2>2, ConcatNonempty DEF UseLine
  <2>4. text' = << >> /\ << >> \in Seq(Pieces)
    BY <1>3 DEF UseLine
  <2>5. UNCHANGED <<server, threadVars, connVars, pipeVars>>
    BY <1>3 DEF UseLine
  <2>6. QED
    BY <2>1, <2>3, <2>4, <2>5 DEF threadVars, connVars, pipeVars
<1>4. CASE EndOfInput
  BY <1>4 DEF EndOfInput, threadVars, connVars, pipeVars, textVars
<1>5. CASE BeginJoin
  BY <1>5 DEF BeginJoin, connVars, pipeVars, textVars
<1>6. CASE Join
  <2>1. /\ Head(range.left) \in Threads /\ Tail(range.left) \in Seq(Threads)
    BY <1>6, HeadAndTail DEF Join
  <2>2. /\ range' \in [left : Seq(Threads), valid : BOOLEAN]
        /\ range'.left \in Seq(Threads) /\ range'.valid \in BOOLEAN
    <3>1. \A l \in Seq(Threads) :
            [range EXCEPT !.left = l] \in [left : Seq(Threads), valid : BOOLEAN]
      OBVIOUS
    <3>2. range' \in [left : Seq(Threads), valid : BOOLEAN]
      BY <1>6, <2>1, <3>1 DEF Join
    <3>3. QED
      BY <3>2
  <2>3. joined' \subseteq Threads
    BY <1>6, <2>1 DEF Join
  <2>4. QED
    BY <1>6, <2>2, <2>3 DEF Join, connVars, pipeVars, textVars
<1>7. CASE JoinMoved \/ DestroyThreads
  BY <1>7 DEF JoinMoved, DestroyThreads, threadVars, connVars, pipeVars, textVars
<1>8. QED
  BY <1>1, <1>2, <1>3, <1>4, <1>5, <1>6, <1>7 DEF MainStep

LEMMA NextType == TypeInv /\ [Next]_vars => TypeInv'
<1> SUFFICES ASSUME TypeInv, [Next]_vars PROVE TypeInv'
  OBVIOUS
<1>1. CASE UNCHANGED vars
  BY <1>1 DEF TypeInv, TypeOK, vars, threadVars, connVars, pipeVars, textVars
<1>2. CASE Next
  BY <1>2, ServerType, ServiceType, MainType DEF Next
<1>3. QED
  BY <1>1, <1>2

\* Every reachable state is well typed: the pipe never holds more than its
\* capacity and the vector never more threads than it has room for.
THEOREM TypeCorrect == Spec => []TypeOK
<1>1. TypeInv => TypeOK
  BY DEF TypeInv
<1>2. QED
  BY <1>1, InitType, NextType, PTL DEF Spec

-----------------------------------------------------------------------------
(* The connector is destroyed only when no thread is left. *)

Unserved == {"none", "pending"}

\* The vector owns the server thread and the thread of each connection that was
\* accepted, and the destructor has joined only threads that have ended.
Vector == /\ "server" \in Owned
          /\ \A c \in Connections : service[c] \notin Unserved => c \in Owned
JoinedEnded == \A t \in joined : HasEnded(t)
SafeInv == Vector /\ JoinedEnded /\ SafeDestruction

LEMMA OwnedAppend ==
  ASSUME TypeInv, NEW t \in Threads, threads' = Append(threads, t)
  PROVE  Owned' = Owned \cup {t}
<1>1. threads \in Seq(Threads) /\ DOMAIN threads = 1 .. Len(threads)
      /\ Len(threads) \in Nat
  BY LenProperties DEF TypeInv, TypeOK
<1>2. /\ threads' \in Seq(Threads) /\ Len(threads') = Len(threads) + 1
      /\ DOMAIN threads' = 1 .. Len(threads')
      /\ \A i \in 1 .. Len(threads) : threads'[i] = threads[i]
      /\ threads'[Len(threads) + 1] = t
  BY <1>1, AppendProperties, LenProperties
<1>3. DOMAIN threads' = DOMAIN threads \cup {Len(threads) + 1}
  BY <1>1, <1>2
<1>4. QED
  BY <1>1, <1>2, <1>3 DEF Owned

\* A thread that has ended stays so; a connection that was accepted stays so.
LEMMA EndsStay ==
  ASSUME TypeInv, Next
  PROVE  /\ \A t \in Threads : HasEnded(t) => HasEnded(t)'
         /\ \/ threads' = threads
               /\ \A c \in Connections : service[c] \in Unserved => service'[c] \in Unserved
            \/ \E c \in Connections : Accept(c)
<1> USE DEF HasEnded, TypeInv, TypeOK, Threads, Unserved
<1>1. CASE \E c \in Connections : Accept(c)
  BY <1>1 DEF Accept
<1>2. CASE ServerChecks \/ AcceptFails
  BY <1>2 DEF ServerChecks, AcceptFails, threadVars, connVars
<1>3. ASSUME NEW c \in Connections, ServiceStep(c) \/ Tester(c)
      PROVE  /\ service' = [service EXCEPT ![c] = service'[c]]
             /\ service[c] # "ended"
             /\ service[c] \in Unserved => service'[c] \in Unserved
             /\ UNCHANGED <<server, threads>>
  BY <1>3 DEF ServiceStep, Tester, TesterConnects, ServiceChecks, ServiceGets,
    BeginWrite, Flush, ServiceEnds, threadVars, connVars
<1>4. CASE \E c \in Connections : ServiceStep(c) \/ Tester(c)
  <2>1. PICK c \in Connections : ServiceStep(c) \/ Tester(c)
    BY <1>4
  <2>2. QED
    BY <2>1, <1>3
<1>5. CASE MainStep
  BY <1>5 DEF MainStep, ReadPiece, ReadLastLine, UseLine, EndOfInput, BeginJoin,
    Join, JoinMoved, DestroyThreads, threadVars, connVars
<1>6. QED
  BY <1>1, <1>2, <1>4, <1>5 DEF Next, ServerStep

LEMMA InitSafe == Init => SafeInv
<1> SUFFICES ASSUME Init PROVE SafeInv
  OBVIOUS
<1>1. << "server" >>[1] = "server" /\ 1 \in DOMAIN << "server" >>
  OBVIOUS
<1>2. "server" \in Owned
  BY <1>1 DEF Init, Owned
<1>3. QED
  BY <1>2 DEF Init, SafeInv, Vector, JoinedEnded, SafeDestruction, Unserved

LEMMA NextSafe == TypeInv /\ SafeInv /\ [Next]_vars => SafeInv'
<1> SUFFICES ASSUME TypeInv, SafeInv, [Next]_vars PROVE SafeInv'
  OBVIOUS
<1>1. CASE UNCHANGED vars
  BY <1>1 DEF SafeInv, Vector, JoinedEnded, SafeDestruction, Owned, HasEnded,
    vars, threadVars, connVars
<1>2. CASE Next
  <2>1. Vector'
    <3>1. CASE /\ threads' = threads
               /\ \A c \in Connections : service[c] \in Unserved => service'[c] \in Unserved
      BY <3>1 DEF SafeInv, Vector, Owned
    <3>2. ASSUME NEW c \in Connections, Accept(c) PROVE Vector'
      <4>1. threads' = Append(threads, c) /\ c \in Threads
            /\ service' = [service EXCEPT ![c] = "check"]
        BY <3>2 DEF Accept, Threads
      <4>2. Owned' = Owned \cup {c}
        BY <4>1, OwnedAppend
      <4>3. QED
        BY <4>1, <4>2 DEF SafeInv, Vector, TypeInv, TypeOK
    <3>3. QED
      BY <1>2, <3>1, <3>2, EndsStay
  <2>2. JoinedEnded'
    <3>1. joined \subseteq Threads
      BY DEF TypeInv, TypeOK
    <3>2. CASE Join
      <4>1. Head(range.left) \in Threads /\ HasEnded(Head(range.left))
        BY <3>2, HeadAndTail DEF Join, TypeInv, TypeOK
      <4>2. joined' = joined \cup {Head(range.left)}
        BY <3>2 DEF Join
      <4>3. QED
        BY <1>2, <3>1, <4>1, <4>2, EndsStay DEF SafeInv, JoinedEnded
    <3>3. CASE joined' = joined
      BY <1>2, <3>1, <3>3, EndsStay DEF SafeInv, JoinedEnded
    <3>4. Join \/ joined' = joined
      BY <1>2 DEF Next, ServerStep, ServerChecks, Accept, AcceptFails, ServiceStep,
        ServiceChecks, BeginWrite, Flush, ServiceEnds, Tester, TesterConnects, ServiceGets,
        MainStep, ReadPiece, ReadLastLine, UseLine, EndOfInput, BeginJoin,
        JoinMoved, DestroyThreads, threadVars
    <3>5. QED
      BY <3>2, <3>3, <3>4
  <2>3. SafeDestruction'
    <3>1. CASE DestroyThreads
      <4>1. CASE Owned \subseteq joined
        <5>1. HasEnded("server") /\ "server" \notin Connections
          BY <4>1, ConnectorAssumption DEF SafeInv, Vector, JoinedEnded
        <5>2. \A c \in Connections : service[c] \in {"none", "pending", "ended"}
          BY <4>1, ConnectorAssumption
          DEF SafeInv, Vector, JoinedEnded, HasEnded, Unserved
        <5>3. UNCHANGED <<server, service>>
          BY <3>1 DEF DestroyThreads, connVars
        <5>4. QED
          BY <5>1, <5>2, <5>3 DEF SafeDestruction, HasEnded
      <4>2. CASE ~(Owned \subseteq joined)
        BY <3>1, <4>2 DEF DestroyThreads, SafeDestruction
      <4>3. QED
        BY <4>1, <4>2
    <3>2. CASE ~DestroyThreads
      <4>1. main' # "destroyed"
        BY <1>2, <3>2 DEF Next, ServerStep, ServerChecks, Accept, AcceptFails,
          ServiceStep, ServiceChecks, BeginWrite, Flush, ServiceEnds, Tester,
          TesterConnects, ServiceGets, MainStep, ReadPiece, ReadLastLine, UseLine, EndOfInput,
          BeginJoin, Join, JoinMoved, Running
      <4>2. QED
        BY <4>1 DEF SafeDestruction
    <3>3. QED
      BY <3>1, <3>2
  <2>4. QED
    BY <2>1, <2>2, <2>3 DEF SafeInv
<1>3. QED
  BY <1>1, <1>2

\* The process goes on after the report loop only when every thread that was
\* started has ended, however the vector has grown meanwhile.
THEOREM DestroyedSafely == Spec => []SafeDestruction
<1>1. SafeInv => SafeDestruction
  BY DEF SafeInv
<1>2. QED
  BY <1>1, InitType, NextType, InitSafe, NextSafe, PTL DEF Spec

-----------------------------------------------------------------------------
(* The connector is a source of reports. *)

\* The main thread has had, or finds in the pipe, a piece at least.
Begun == pipe # << >> \/ text # << >> \/ got # << >>

\* The loop runs while the flag is set; a thread that closes then has read
\* something; what was read and flushed while the pipe was open is there.
SourceInv ==
  /\ main \in {"reading", "using"} => alive
  /\ \A c \in Connections : service[c] = "closing" /\ alive => read[c] # << >>
  /\ \A c \in Connections :
       pipeOpen /\ read[c] # << >> /\ outbuf[c] = << >> => Begun
  /\ ~pipeOpen /\ alive => Begun

LEMMA InitSource == Init => SourceInv /\ Source!Init
BY DEF Init, SourceInv, Begun, Source!Init

\* A connection's step leaves the main thread where it is.
LEMMA ConnectionSource ==
  ASSUME TypeInv, SourceInv, NEW c \in Connections, ServiceStep(c) \/ Tester(c)
  PROVE  SourceInv' /\ UNCHANGED <<main, textVars>>
<1> USE DEF SourceInv, Begun, TypeInv, TypeOK
<1>1. CASE TesterConnects(c)
  BY <1>1 DEF TesterConnects, pipeVars, textVars
<1>2. CASE ServiceChecks(c)
  <2>1. alive /\ ~Good(c) => read[c] # << >>
    BY DEF Good, AtEnd
  <2>2. QED
    BY <1>2, <2>1 DEF ServiceChecks, pipeVars, textVars
<1>3. CASE ServiceGets(c)
  <2>1. PICK p \in {Piece(c, Len(read[c]) + 1), Stale(c)} :
          /\ read' = [read EXCEPT ![c] = Append(@, p)]
          /\ outbuf' = [outbuf EXCEPT ![c] = Append(@, p)]
    BY <1>3 DEF ServiceGets
  <2>2. read[c] \in Seq(Pieces) /\ outbuf[c] \in Seq(Pieces)
    OBVIOUS
  <2>3. p \in Pieces
    BY <2>2, PieceGot
  <2>4. Append(read[c], p) # << >> /\ Append(outbuf[c], p) # << >>
    BY <2>2, <2>3, Nonempty
  <2>5. \A d \in Connections : outbuf'[d] = << >> => read'[d] = read[d] /\ outbuf[d] = << >>
    BY <2>1, <2>4
  <2>6. \A d \in Connections : read[d] # << >> => read'[d] # << >>
    BY <2>1, <2>4
  <2>7. /\ \A d \in Connections : service'[d] = "closing" => service[d] = "closing"
        /\ UNCHANGED <<main, alive, pipe, pipeOpen, text, got>>
    BY <1>3 DEF ServiceGets, pipeVars, textVars
  <2>8. QED
    BY <2>5, <2>6, <2>7 DEF textVars
<1>4. CASE Flush(c)
  <2>1. /\ \A d \in Connections : service'[d] = "closing" => service[d] = "closing"
        /\ \A d \in Connections \ {c} : outbuf'[d] = outbuf[d]
        /\ UNCHANGED <<main, alive, read, pipeOpen, text, got>>
    BY <1>4 DEF Flush, Flushed, textVars
  <2>2. CASE c \in writing
    <3>1. outbuf[c] \in Seq(Pieces) /\ outbuf[c] # << >>
      BY <1>4 DEF Flush
    <3>2. pipe' = Append(pipe, Head(outbuf[c])) /\ Head(outbuf[c]) \in Pieces
      BY <1>4, <2>2, <3>1, HeadAndTail DEF Flush
    <3>3. pipe' # << >>
      BY <3>2, Nonempty
    <3>4. QED
      BY <2>1, <2>2, <3>3 DEF textVars
  <2>3. CASE c \notin writing
    BY <1>4, <2>1, <2>3 DEF Flush, textVars
  <2>4. QED
    BY <2>2, <2>3
<1>5. CASE BeginWrite(c)
  BY <1>5 DEF BeginWrite, connVars, textVars
<1>6. CASE ServiceEnds(c)
  BY <1>6 DEF ServiceEnds, textVars
<1>7. QED
  BY <1>1, <1>2, <1>3, <1>4, <1>5, <1>6 DEF ServiceStep, Tester

LEMMA ServerSource ==
  ASSUME TypeInv, SourceInv, ServerStep \/ AcceptFails
  PROVE  SourceInv' /\ [Source!Next]_(Source!rvars)
<1> USE DEF SourceInv, Begun, TypeInv, TypeOK
<1>1. CASE ServerStep
  <2>1. /\ \A c \in Connections : service'[c] = "closing" => service[c] = "closing"
        /\ UNCHANGED <<main, alive, read, outbuf, pipe, pipeOpen, text, got>>
    BY <1>1 DEF ServerStep, ServerChecks, Accept, connVars, pipeVars, textVars
  <2>2. QED
    BY <2>1 DEF Source!rvars
<1>2. CASE AcceptFails
  <2>1. UNCHANGED <<alive, connVars, pipeVars, textVars>> /\ main' = "aborted" /\ Running
    BY <1>2 DEF AcceptFails
  <2>2. SourceInv'
    BY <2>1 DEF connVars, pipeVars, textVars
  <2>3. Source!Abort
    BY <2>1 DEF Source!Abort, Running, Mains
  <2>4. QED
    BY <2>2, <2>3 DEF Source!Next
<1>3. QED
  BY <1>1, <1>2

LEMMA MainSource ==
  ASSUME TypeInv, SourceInv, MainStep
  PROVE  SourceInv' /\ [Source!Next]_(Source!rvars)
<1> USE DEF SourceInv, Begun
<1>1. CASE ReadPiece
  <2>1. text' = Append(text, Head(pipe)) /\ text \in Seq(Pieces) /\ pipe \in Seq(Pieces)
        /\ pipe # << >> /\ main = "reading" /\ main' \in {"reading", "using"}
        /\ UNCHANGED <<alive, got, service, read, outbuf, pipeOpen>>
    BY <1>1 DEF ReadPiece, TypeInv, TypeOK, connVars
  <2>2. text' # << >>
    BY <2>1, HeadAndTail, Nonempty
  <2>3. SourceInv'
    BY <2>1, <2>2
  <2>4. CASE main' = "using"
    BY <2>1, <2>3, <2>4 DEF Source!Next, Source!Deliver
  <2>5. CASE main' = "reading"
    BY <2>1, <2>3, <2>5 DEF Source!rvars
  <2>6. QED
    BY <2>1, <2>4, <2>5
<1>2. CASE ReadLastLine
  <2>1. SourceInv'
    BY <1>2 DEF ReadLastLine, connVars, pipeVars, textVars
  <2>2. Source!Deliver
    BY <1>2 DEF ReadLastLine, textVars, Source!Deliver
  <2>3. QED
    BY <2>1, <2>2 DEF Source!Next
<1>3. CASE UseLine
  <2>1. /\ got' = got \o text /\ got \in Seq(Pieces) /\ text \in Seq(Pieces) /\ text # << >>
        /\ main = "using" /\ main' \in {"reading", "stopping", "aborted"}
        /\ alive' = (main' # "stopping") /\ alive
        /\ UNCHANGED <<service, read, outbuf, pipe, pipeOpen>>
    BY <1>3 DEF UseLine, TypeInv, TypeOK, connVars, pipeVars
  <2>2. got' # << >>
    BY <2>1, ConcatNonempty
  <2>3. SourceInv'
    BY <2>1, <2>2
  <2>4. CASE main' \in {"reading", "stopping"}
    <3>1. Source!Use
      BY <2>1, <2>2, <2>4 DEF Source!Use
    <3>2. QED
      BY <2>3, <3>1 DEF Source!Next
  <2>5. CASE main' = "aborted"
    <3>1. Source!Abort
      BY <2>1, <2>5 DEF Source!Abort
    <3>2. QED
      BY <2>3, <3>1 DEF Source!Next
  <2>6. QED
    BY <2>1, <2>4, <2>5
<1>4. CASE EndOfInput
  <2>1. SourceInv' /\ got # << >>
    BY <1>4 DEF EndOfInput, InputEnded, connVars, pipeVars, textVars
  <2>2. Source!End
    BY <1>4, <2>1 DEF EndOfInput, textVars, Source!End
  <2>3. QED
    BY <2>1, <2>2 DEF Source!Next
<1>5. CASE BeginJoin \/ Join
  <2>1. /\ main \in {"stopping", "joining"} /\ main' = "joining"
        /\ UNCHANGED <<alive, service, read, outbuf, pipe, pipeOpen, text, got>>
    BY <1>5 DEF BeginJoin, Join, connVars, pipeVars, textVars
  <2>2. QED
    BY <2>1 DEF Source!rvars
<1>6. CASE JoinMoved \/ DestroyThreads
  <2>1. /\ main = "joining" /\ main' \in {"destroyed", "aborted"}
        /\ UNCHANGED <<alive, service, read, outbuf, pipe, pipeOpen, text, got>>
    BY <1>6 DEF JoinMoved, DestroyThreads, connVars, pipeVars, textVars
  <2>2. SourceInv'
    BY <2>1
  <2>3. Source!Destroy \/ Source!Abort
    BY <2>1 DEF Source!Destroy, Source!Abort
  <2>4. QED
    BY <2>2, <2>3 DEF Source!Next
<1>7. QED
  BY <1>1, <1>2, <1>3, <1>4, <1>5, <1>6 DEF MainStep

LEMMA NextSource ==
  TypeInv /\ SourceInv /\ [Next]_vars => SourceInv' /\ [Source!Next]_(Source!rvars)
<1> SUFFICES ASSUME TypeInv, SourceInv, [Next]_vars
             PROVE  SourceInv' /\ [Source!Next]_(Source!rvars)
  OBVIOUS
<1>1. CASE UNCHANGED vars
  BY <1>1 DEF SourceInv, Begun, vars, connVars, pipeVars, textVars, Source!rvars
<1>2. CASE \E c \in Connections : ServiceStep(c) \/ Tester(c)
  BY <1>2, ConnectionSource DEF Source!rvars, textVars
<1>3. QED
  BY <1>1, <1>2, ServerSource, MainSource DEF Next

\* For the report loop the connector is the source that ReportSource describes,
\* however many connections cut into each other: its input ends only after a
\* line.  E2Agent's loop rests on this.
THEOREM RefinesSource == Spec => ImplementsSource
<1>1. Init => Source!Init
  BY InitSource
<1>2. Init => SourceInv
  BY InitSource
<1>3. QED
  BY <1>1, <1>2, InitType, NextType, NextSource, PTL DEF Spec, ImplementsSource, Source!Spec

-----------------------------------------------------------------------------
(* One more connection at most, once the destructor joins. *)

Elements(s) == {s[i] : i \in DOMAIN s}
Distinct(s) == \A i, j \in DOMAIN s : s[i] = s[j] => i = j

LEMMA AppendDistinct ==
  ASSUME NEW S, NEW s \in Seq(S), NEW x \in S, Distinct(s), x \notin Elements(s)
  PROVE  Distinct(Append(s, x))
<1> DEFINE t == Append(s, x)
<1>1. DOMAIN s = 1 .. Len(s) /\ Len(s) \in Nat
  BY LenProperties
<1>2. /\ t \in Seq(S) /\ DOMAIN t = 1 .. Len(t) /\ Len(t) = Len(s) + 1
      /\ \A i \in 1 .. Len(s) : t[i] = s[i]
      /\ t[Len(s) + 1] = x
  BY AppendProperties, LenProperties
<1> HIDE DEF t
<1>3. DOMAIN t = DOMAIN s \cup {Len(s) + 1}
  BY <1>1, <1>2
<1>4. \A i \in DOMAIN s : t[i] # x
  BY <1>1, <1>2 DEF Elements
<1>5. Distinct(t)
  BY <1>1, <1>2, <1>3, <1>4 DEF Distinct
<1>6. QED
  BY <1>5 DEF t

LEMMA TailDistinct ==
  ASSUME NEW S, NEW s \in Seq(S), s # << >>, Distinct(s)
  PROVE  /\ Distinct(Tail(s)) /\ Head(s) \notin Elements(Tail(s))
         /\ Elements(Tail(s)) \subseteq Elements(s) /\ Head(s) \in Elements(s)
<1> DEFINE t == Tail(s)
<1>1. DOMAIN s = 1 .. Len(s) /\ Len(s) \in Nat /\ Len(s) > 0
  BY HeadAndTail, LenProperties
<1>2. /\ t \in Seq(S) /\ Len(t) = Len(s) - 1 /\ DOMAIN t = 1 .. Len(t)
      /\ \A i \in 1 .. Len(t) : t[i] = s[i + 1]
  BY HeadTailProperties, LenProperties, HeadAndTail
<1>3. Head(s) = s[1]
  BY HeadTailProperties
<1> HIDE DEF t
<1>4. \A i \in DOMAIN t : i + 1 \in DOMAIN s /\ i + 1 # 1 /\ t[i] = s[i + 1]
  BY <1>1, <1>2
<1>5. Distinct(t)
  <2> SUFFICES ASSUME NEW i \in DOMAIN t, NEW j \in DOMAIN t, t[i] = t[j]
               PROVE  i = j
    BY DEF Distinct
  <2>1. i + 1 = j + 1
    BY <1>4 DEF Distinct
  <2>2. QED
    BY <1>2, <2>1
<1>6. s[1] \notin Elements(t)
  BY <1>1, <1>4 DEF Elements, Distinct
<1>7. Elements(t) \subseteq Elements(s) /\ s[1] \in Elements(s)
  BY <1>1, <1>4 DEF Elements
<1>8. QED
  BY <1>3, <1>5, <1>6, <1>7 DEF t

LEMMA ThreadsFinite == IsFiniteSet(Threads)
BY ConnectorAssumption, FS_Singleton, FS_Union DEF Threads

\* No thread is in the vector twice, nor left to join once joined.
Once == /\ Distinct(threads)
        /\ \A c \in Connections : service[c] \in Unserved => c \notin Elements(threads)
        /\ main = "joining" =>
             Distinct(range.left) /\ Elements(range.left) \cap joined = {}

\* The flag is cleared before the destructor runs: the server thread accepts
\* once more only if it has looked at the flag already.
Counted ==
  /\ main \in {"reading", "using", "stopping"} => joined = {}
  /\ main \in {"stopping", "joining"} => ~alive
  /\ main = "joining" => Len(threads) <= Cardinality(joined) + Len(range.left)
                                         + IF server = "accept" THEN 0 ELSE 1

CountInv == Once /\ Counted

LEMMA InitCount == Init => CountInv
<1> SUFFICES ASSUME Init PROVE CountInv
  OBVIOUS
<1>1. DOMAIN << "server" >> = {1} /\ << "server" >>[1] = "server"
  OBVIOUS
<1>2. Distinct(threads) /\ Elements(threads) = {"server"}
  BY <1>1 DEF Init, Distinct, Elements
<1>3. QED
  BY <1>2, ConnectorAssumption DEF Init, CountInv, Once, Counted

LEMMA ServerCount ==
  ASSUME TypeInv, CountInv, ServerStep
  PROVE  CountInv'
<1>1. CASE ServerChecks
  <2>1. /\ server = "check" /\ server' = IF alive THEN "accept" ELSE "ended"
        /\ UNCHANGED <<main, alive, threads, joined, range, service>>
    BY <1>1 DEF ServerChecks, threadVars, connVars
  <2>2. QED
    BY <2>1 DEF CountInv, Once, Counted
<1>2. ASSUME NEW c \in Connections, Accept(c)
      PROVE  CountInv'
  <2>1. /\ threads' = Append(threads, c) /\ service[c] = "pending"
        /\ service' = [service EXCEPT ![c] = "check"]
        /\ server = "accept" /\ server' = "check"
        /\ UNCHANGED <<main, alive, joined>>
    BY <1>2 DEF Accept
  <2>2. range'.left = range.left
    <3>1. range \in [left : Seq(Threads), valid : BOOLEAN]
      BY DEF TypeInv
    <3>2. \A b : [range EXCEPT !.valid = b].left = range.left
      BY <3>1
    <3>3. range' = [range EXCEPT !.valid =
                      @ /\ ~(Len(threads) = capacity /\ main = "joining")]
      BY <1>2 DEF Accept
    <3>4. QED
      BY <3>2, <3>3
  <2>3. c \in Threads /\ threads \in Seq(Threads) /\ service \in [Connections -> Services]
        /\ "server" \notin Connections
    BY ConnectorAssumption DEF Threads, TypeInv, TypeOK
  <2>4. Len(threads') = Len(threads) + 1 /\ Len(threads) \in Nat
    BY <2>1, <2>3, Nonempty, LenProperties
  <2>5. Distinct(threads')
    <3>1. c \notin Elements(threads) /\ Distinct(threads)
      BY <2>1 DEF CountInv, Once, Unserved
    <3>2. QED
      BY <2>1, <2>3, <3>1, AppendDistinct
  <2>6. Elements(threads') = Elements(threads) \cup {c}
    BY <2>1, <2>3, OwnedAppend DEF Owned, Elements
  <2>7. Once'
    BY <2>1, <2>2, <2>3, <2>5, <2>6 DEF CountInv, Once, Unserved
  <2>8. Counted'
    <3>1. IsFiniteSet(joined) /\ Cardinality(joined) \in Nat
      BY ThreadsFinite, FS_Subset, FS_CardinalityType DEF TypeInv, TypeOK
    <3>2. Len(range.left) \in Nat
      BY LenProperties DEF TypeInv, TypeOK
    <3>3. QED
      BY <2>1, <2>2, <2>4, <3>1, <3>2 DEF CountInv, Counted
  <2>9. QED
    BY <2>7, <2>8 DEF CountInv
<1>3. QED
  BY <1>1, <1>2 DEF ServerStep

LEMMA ConnectionCount ==
  ASSUME TypeInv, CountInv, NEW c \in Connections, ServiceStep(c) \/ Tester(c)
  PROVE  CountInv'
<1>1. /\ \A d \in Connections : service'[d] \in Unserved => service[d] \in Unserved
      /\ UNCHANGED <<main, alive, server, threads, joined, range>>
  BY DEF ServiceStep, Tester, TesterConnects, ServiceChecks, ServiceGets,
    BeginWrite, Flush, Flushed, ServiceEnds, threadVars, connVars, Unserved, TypeInv, TypeOK
<1>2. QED
  BY <1>1 DEF CountInv, Once, Counted

LEMMA MainCount ==
  ASSUME TypeInv, CountInv, MainStep \/ AcceptFails
  PROVE  CountInv'
<1>1. CASE ReadPiece \/ ReadLastLine \/ UseLine \/ EndOfInput
  <2>1. /\ main \in {"reading", "using"}
        /\ main' \in {"reading", "using", "stopping", "aborted"}
        /\ main' = "stopping" => ~alive'
        /\ UNCHANGED <<service, server, threads, joined>>
    BY <1>1 DEF ReadPiece, ReadLastLine, UseLine, EndOfInput, threadVars, connVars
  <2>2. QED
    BY <2>1 DEF CountInv, Once, Counted
<1>2. CASE BeginJoin
  <2>1. /\ main = "stopping" /\ main' = "joining" /\ range' = [left |-> threads, valid |-> TRUE]
        /\ UNCHANGED <<alive, server, threads, joined, service>>
    BY <1>2 DEF BeginJoin, connVars
  <2>2. range'.left = threads /\ Len(threads) \in Nat
    BY <2>1, LenProperties DEF TypeInv, TypeOK
  <2>3. joined = {} /\ Cardinality({}) = 0
    BY <2>1, FS_EmptySet DEF CountInv, Counted
  <2>4. QED
    BY <2>1, <2>2, <2>3 DEF CountInv, Once, Counted
<1>3. CASE Join
  <2> DEFINE t == Head(range.left)
  <2>1. /\ main = "joining" /\ main' = "joining" /\ range.left # << >>
        /\ joined' = joined \cup {t}
        /\ range' = [range EXCEPT !.left = Tail(@)]
        /\ UNCHANGED <<alive, server, threads, service>>
    BY <1>3 DEF Join, connVars
  <2>2. /\ range \in [left : Seq(Threads), valid : BOOLEAN]
        /\ range.left \in Seq(Threads) /\ joined \subseteq Threads
    BY DEF TypeInv, TypeOK
  <2>3. range'.left = Tail(range.left)
    BY <2>1, <2>2
  <2>4. /\ Distinct(Tail(range.left)) /\ t \notin Elements(Tail(range.left))
        /\ Elements(Tail(range.left)) \subseteq Elements(range.left)
        /\ t \in Elements(range.left)
    BY <2>1, <2>2, TailDistinct DEF CountInv, Once
  <2>5. t \notin joined
    BY <2>1, <2>4 DEF CountInv, Once
  <2>6. IsFiniteSet(joined) /\ Cardinality(joined) \in Nat
    BY <2>2, ThreadsFinite, FS_Subset, FS_CardinalityType
  <2>7. Cardinality(joined') = Cardinality(joined) + 1
    BY <2>1, <2>5, <2>6, FS_AddElement
  <2>8. Len(range.left) \in Nat /\ Len(Tail(range.left)) = Len(range.left) - 1
    BY <2>1, <2>2, HeadAndTail
  <2>9. Once'
    BY <2>1, <2>3, <2>4 DEF CountInv, Once
  <2>10. Counted'
    BY <2>1, <2>3, <2>6, <2>7, <2>8 DEF CountInv, Counted
  <2>11. QED
    BY <2>9, <2>10 DEF CountInv
<1>4. CASE JoinMoved \/ DestroyThreads \/ AcceptFails
  <2>1. /\ main' \in {"destroyed", "aborted"}
        /\ UNCHANGED <<service, threads>>
    BY <1>4 DEF JoinMoved, DestroyThreads, AcceptFails, threadVars, connVars
  <2>2. QED
    BY <2>1 DEF CountInv, Once, Counted
<1>5. QED
  BY <1>1, <1>2, <1>3, <1>4 DEF MainStep

LEMMA NextCount == TypeInv /\ CountInv /\ [Next]_vars => CountInv'
<1> SUFFICES ASSUME TypeInv, CountInv, [Next]_vars PROVE CountInv'
  OBVIOUS
<1>1. CASE UNCHANGED vars
  BY <1>1 DEF CountInv, Once, Counted, vars, threadVars, connVars
<1>2. CASE Next
  BY <1>2, ServerCount, ConnectionCount, MainCount DEF Next
<1>3. QED
  BY <1>1, <1>2

\* While the destructor joins, the vector outgrows what is joined and left to
\* join by one thread at most, however many connections the tester makes.
THEOREM OneMoreThread == Spec => []OneMoreConnection
<1>1. TypeInv /\ CountInv => OneMoreConnection
  <2> SUFFICES ASSUME TypeInv, CountInv PROVE OneMoreConnection
    OBVIOUS
  <2>1. IsFiniteSet(joined) /\ Cardinality(joined) \in Nat
    BY ThreadsFinite, FS_Subset, FS_CardinalityType DEF TypeInv, TypeOK
  <2>2. Len(range.left) \in Nat /\ Len(threads) \in Nat
    BY LenProperties DEF TypeInv, TypeOK
  <2>3. QED
    BY <2>1, <2>2 DEF CountInv, Counted, OneMoreConnection
<1>2. QED
  BY <1>1, InitType, NextType, InitCount, NextCount, PTL DEF Spec

-----------------------------------------------------------------------------
(* The streams. *)

Own(c) == [conn : {c}, num : Nat]
Moved  == got \o text \o pipe

\* What the thread of c writes reaches the pipe.
Attached(c) == pipeOpen \/ c \in writing

\* What has come out of a connection and a rest are what was read from it; as
\* long as its thread writes to the pipe, the rest is what is buffered.
Streams ==
  \A c \in Connections :
    /\ outbuf[c] \in Seq(Own(c))
    /\ \E rest \in Seq(Own(c)) :
         Passed(c) \o rest = read[c] /\ (Attached(c) => rest = outbuf[c])

\* A thread closes, while the flag is set, at the end of its connection only;
\* and the connection that has closed the pipe had all it read pass before.
Ends ==
  /\ main \in {"reading", "using"} => alive
  /\ \A c \in Connections : service[c] = "closing" /\ alive => AtEnd(c)
  /\ ~pipeOpen /\ alive =>
       \E c \in Connections : service[c] = "ended" /\ AtEnd(c) /\ Passed(c) = read[c]

StreamInv == Streams /\ Ends

LEMMA MovedType ==
  ASSUME TypeInv
  PROVE  Moved \in Seq(Pieces)
<1>1. got \in Seq(Pieces) /\ text \in Seq(Pieces) /\ pipe \in Seq(Pieces)
  BY DEF TypeInv, TypeOK
<1>2. got \o text \in Seq(Pieces)
  BY <1>1, ConcatProperties
<1>3. QED
  BY <1>1, <1>2, ConcatProperties DEF Moved

LEMMA PassedIs ==
  ASSUME NEW c \in Connections
  PROVE  Passed(c) = Keep(Moved, Own(c)) /\ (TypeInv => Passed(c) \in Seq(Own(c)))
<1>1. Passed(c) = Keep(Moved, Own(c))
  BY DEF Passed, Of, Own, Moved
<1>2. QED
  BY <1>1, MovedType, KeepType

\* What the steps of the threads do to the streams.
Unmoved ==
  /\ Moved' = Moved /\ UNCHANGED <<read, outbuf>>
  /\ \A c \in Connections : Attached(c)' => Attached(c)

\* The main thread takes from the pipe what it has then.
LEMMA MainMoves ==
  ASSUME TypeInv, MainStep
  PROVE  Unmoved /\ UNCHANGED <<service, pipeOpen>>
<1>1. got \in Seq(Pieces) /\ text \in Seq(Pieces) /\ pipe \in Seq(Pieces)
  BY DEF TypeInv, TypeOK
<1>2. CASE ReadPiece
  <2>1. /\ pipe # << >> /\ text' = Append(text, Head(pipe)) /\ pipe' = Tail(pipe)
        /\ UNCHANGED <<got, service, read, outbuf, pipeOpen, writing>>
    BY <1>2 DEF ReadPiece, connVars
  <2>2. Head(pipe) \in Pieces /\ Tail(pipe) \in Seq(Pieces)
    BY <1>1, <2>1, HeadAndTail
  <2>3. got \o Append(text, Head(pipe)) = Append(got \o text, Head(pipe))
    BY <1>1, <2>2, AppendConcat
  <2>4. got \o text \in Seq(Pieces)
    BY <1>1, ConcatProperties
  <2>5. Append(got \o text, Head(pipe)) \o Tail(pipe) = (got \o text) \o pipe
    <3>1. \A s \in Seq(Pieces) : Append(s, Head(pipe)) \o Tail(pipe) = s \o pipe
      BY <1>1, <2>1, ConcatMove
    <3>2. QED
      BY <2>4, <3>1
  <2>6. Moved' = Moved
    BY <2>1, <2>3, <2>5 DEF Moved
  <2>7. QED
    BY <2>1, <2>6 DEF Unmoved, Attached
<1>3. CASE UseLine
  <2>1. /\ got' = got \o text /\ text' = << >>
        /\ UNCHANGED <<pipe, service, read, outbuf, pipeOpen, writing>>
    BY <1>3 DEF UseLine, connVars, pipeVars
  <2>2. got \o text \in Seq(Pieces)
    BY <1>1, ConcatProperties
  <2>3. (got \o text) \o << >> = got \o text
    BY <2>2, ConcatEmptySeq
  <2>4. Moved' = Moved
    BY <2>1, <2>3 DEF Moved
  <2>5. QED
    BY <2>1, <2>4 DEF Unmoved, Attached
<1>4. CASE ~ReadPiece /\ ~UseLine
  BY <1>4 DEF MainStep, ReadLastLine, EndOfInput, BeginJoin, Join, JoinMoved,
    DestroyThreads, connVars, pipeVars, textVars, Moved, Unmoved, Attached
<1>5. QED
  BY <1>2, <1>3, <1>4

LEMMA ServerMoves ==
  ASSUME ServerStep \/ AcceptFails
  PROVE  Unmoved /\ UNCHANGED pipeOpen
BY DEF ServerStep, ServerChecks, Accept, AcceptFails, connVars, pipeVars, textVars,
  Moved, Unmoved, Attached

\* A piece that is written leaves the buffer for the end of what has moved.
LEMMA FlushMoves ==
  ASSUME TypeInv, NEW c \in Connections, Flush(c), c \in writing
  PROVE  /\ Moved' = Append(Moved, Head(outbuf[c]))
         /\ outbuf' = [outbuf EXCEPT ![c] = Tail(outbuf[c])]
         /\ UNCHANGED <<read, pipeOpen>>
<1>1. /\ got \in Seq(Pieces) /\ text \in Seq(Pieces) /\ pipe \in Seq(Pieces)
      /\ outbuf[c] \in Seq(Pieces) /\ outbuf[c] # << >>
  BY DEF TypeInv, TypeOK, Flush
<1>2. Head(outbuf[c]) \in Pieces
  BY <1>1, HeadAndTail
<1>3. pipe' = Append(pipe, Head(outbuf[c])) /\ UNCHANGED <<read, pipeOpen, text, got>>
  BY DEF Flush, textVars
<1>4. got \o text \in Seq(Pieces)
  BY <1>1, ConcatProperties
<1>5. (got \o text) \o Append(pipe, Head(outbuf[c])) = Append((got \o text) \o pipe, Head(outbuf[c]))
  <2>1. \A s \in Seq(Pieces) : s \o Append(pipe, Head(outbuf[c])) = Append(s \o pipe, Head(outbuf[c]))
    BY <1>1, <1>2, AppendConcat
  <2>2. QED
    BY <1>4, <2>1
<1>6. Moved' = Append(Moved, Head(outbuf[c]))
  BY <1>3, <1>5 DEF Moved
<1>7. QED
  BY <1>3, <1>6 DEF Flush

LEMMA InitStreams == Init => StreamInv
<1> SUFFICES ASSUME Init PROVE StreamInv
  OBVIOUS
<1>1. << >> \in Seq(Pieces) /\ << >> \o << >> = << >>
  BY EmptySeq, ConcatEmptySeq
<1>2. Moved = << >>
  BY <1>1 DEF Init, Moved
<1>3. ASSUME NEW c \in Connections
      PROVE  Passed(c) = << >> /\ << >> \in Seq(Own(c))
  BY <1>2, PassedIs, KeepEmpty, EmptySeq
<1>4. Streams
  BY <1>1, <1>3 DEF Init, Streams
<1>5. Ends
  BY DEF Init, Ends
<1>6. QED
  BY <1>4, <1>5 DEF StreamInv

LEMMA PassedThen ==
  ASSUME NEW c \in Connections
  PROVE  Passed(c)' = Keep(Moved', Own(c))
BY DEF Passed, Of, Own, Moved

LEMMA PassedSame ==
  ASSUME NEW c \in Connections, Moved' = Moved
  PROVE  Passed(c)' = Passed(c)
BY PassedIs, PassedThen

LEMMA UnmovedStreams ==
  ASSUME Streams, Unmoved
  PROVE  Streams'
<1> SUFFICES ASSUME NEW c \in Connections
             PROVE  /\ outbuf'[c] \in Seq(Own(c))
                    /\ \E rest \in Seq(Own(c)) :
                         Passed(c)' \o rest = read'[c] /\ (Attached(c)' => rest = outbuf'[c])
  BY DEF Streams
<1>1. Passed(c)' = Passed(c)
  BY PassedSame DEF Unmoved
<1>2. QED
  BY <1>1 DEF Streams, Unmoved

LEMMA GetStreams ==
  ASSUME TypeInv, Streams, NEW c \in Connections, ServiceGets(c)
  PROVE  Streams'
<1>1. PICK p \in {Piece(c, Len(read[c]) + 1), Stale(c)} :
        /\ read' = [read EXCEPT ![c] = Append(@, p)]
        /\ outbuf' = [outbuf EXCEPT ![c] = Append(@, p)]
  BY DEF ServiceGets
<1>2. p \in Own(c)
  BY LenProperties DEF Piece, Stale, Own, TypeInv, TypeOK
<1>3. (\A d \in Connections : Attached(d)' = Attached(d)) /\ Moved' = Moved
  BY DEF ServiceGets, pipeVars, Attached, textVars, Moved
<1> SUFFICES ASSUME NEW d \in Connections
             PROVE  /\ outbuf'[d] \in Seq(Own(d))
                    /\ \E rest \in Seq(Own(d)) :
                         Passed(d)' \o rest = read'[d] /\ (Attached(d)' => rest = outbuf'[d])
  BY DEF Streams
<1>4. Passed(d)' = Passed(d)
  BY <1>3, PassedSame
<1>5. outbuf[d] \in Seq(Own(d)) /\ Passed(d) \in Seq(Own(d))
  BY PassedIs DEF Streams
<1>6. PICK rest \in Seq(Own(d)) : Passed(d) \o rest = read[d] /\ (Attached(d) => rest = outbuf[d])
  BY DEF Streams
<1>7. CASE d # c
  <2>1. read'[d] = read[d] /\ outbuf'[d] = outbuf[d]
    BY <1>1, <1>7 DEF TypeInv, TypeOK
  <2>2. QED
    BY <1>3, <1>4, <1>5, <1>6, <2>1
<1>8. CASE d = c
  <2>1. read'[c] = Append(read[c], p) /\ outbuf'[c] = Append(outbuf[c], p)
    BY <1>1 DEF TypeInv, TypeOK
  <2>2. Append(rest, p) \in Seq(Own(c)) /\ Append(outbuf[c], p) \in Seq(Own(c))
    BY <1>2, <1>5, <1>6, <1>8, AppendProperties
  <2>3. Passed(d) \o Append(rest, p) = Append(Passed(d) \o rest, p)
    <3>1. \A s \in Seq(Own(d)) : s \o Append(rest, p) = Append(s \o rest, p)
      BY <1>2, <1>8, AppendConcat
    <3>2. QED
      BY <1>5, <3>1
  <2>4. QED
    BY <1>3, <1>4, <1>6, <1>8, <2>1, <2>2, <2>3
<1>9. QED
  BY <1>7, <1>8

LEMMA FlushStreams ==
  ASSUME TypeInv, Streams, NEW c \in Connections, Flush(c)
  PROVE  Streams'
<1> DEFINE h == Head(outbuf[c])
<1>1. outbuf[c] \in Seq(Own(c)) /\ outbuf[c] # << >>
  BY DEF Streams, Flush
<1>2. h \in Own(c) /\ Tail(outbuf[c]) \in Seq(Own(c))
  BY <1>1, HeadAndTail
<1>3. outbuf' = [outbuf EXCEPT ![c] = Tail(outbuf[c])] /\ UNCHANGED <<read, pipeOpen>>
  BY DEF Flush
<1>4. /\ outbuf'[c] = Tail(outbuf[c])
      /\ \A d \in Connections : d # c => outbuf'[d] = outbuf[d]
  BY <1>3 DEF TypeInv, TypeOK
<1> HIDE DEF h
<1> SUFFICES ASSUME NEW d \in Connections
             PROVE  /\ outbuf'[d] \in Seq(Own(d))
                    /\ \E rest \in Seq(Own(d)) :
                         Passed(d)' \o rest = read'[d] /\ (Attached(d)' => rest = outbuf'[d])
  BY DEF Streams
<1>5. PICK rest \in Seq(Own(d)) : Passed(d) \o rest = read[d] /\ (Attached(d) => rest = outbuf[d])
  BY DEF Streams
<1>6. outbuf'[d] \in Seq(Own(d))
  BY <1>2, <1>4 DEF Streams
<1>7. CASE c \notin writing
  <2>1. Moved' = Moved /\ ~pipeOpen
    BY <1>7 DEF Flush, textVars, Moved
  <2>2. Passed(d)' = Passed(d)
    BY <2>1, PassedSame
  <2>3. ~Attached(c)' /\ (d # c => Attached(d)' = Attached(d))
    BY <1>3, <1>7, <2>1 DEF Flush, Attached
  <2>4. QED
    BY <1>3, <1>4, <1>5, <1>6, <2>2, <2>3
<1>8. CASE c \in writing
  <2>1. Moved' = Append(Moved, h) /\ Moved \in Seq(Pieces) /\ h \in Pieces
    BY <1>1, <1>8, FlushMoves, MovedType, HeadAndTail DEF h, TypeInv, TypeOK
  <2>2. Passed(d)' = IF h \in Own(d) THEN Append(Passed(d), h) ELSE Passed(d)
    <3>1. Keep(Append(Moved, h), Own(d))
            = IF h \in Own(d) THEN Append(Keep(Moved, Own(d)), h) ELSE Keep(Moved, Own(d))
      BY <2>1, KeepAppend
    <3>2. QED
      BY <2>1, <3>1, PassedIs, PassedThen
  <2>3. CASE d = c
    <3>1. Passed(c) \in Seq(Own(c))
      BY PassedIs
    <3>2. Append(Passed(c), h) \o Tail(outbuf[c]) = Passed(c) \o outbuf[c]
      <4>1. \A s \in Seq(Own(c)) : Append(s, h) \o Tail(outbuf[c]) = s \o outbuf[c]
        BY <1>1, ConcatMove DEF h
      <4>2. QED
        BY <3>1, <4>1
    <3>3. Passed(c)' \o outbuf'[c] = read'[c]
      BY <1>2, <1>3, <1>4, <1>5, <1>8, <2>2, <2>3, <3>2 DEF Attached
    <3>4. QED
      BY <1>6, <2>3, <3>3
  <2>4. CASE d # c
    <3>1. h \notin Own(d)
      BY <1>2, <2>4 DEF Own
    <3>2. Attached(d)' = Attached(d)
      BY <1>3, <2>4 DEF Flush, Attached
    <3>3. QED
      BY <1>3, <1>4, <1>5, <1>6, <2>2, <2>4, <3>1, <3>2
  <2>5. QED
    BY <2>3, <2>4
<1>9. QED
  BY <1>7, <1>8

LEMMA NextStreams ==
  ASSUME TypeInv, Streams, Next
  PROVE  Streams'
<1>1. CASE ServerStep \/ AcceptFails
  BY <1>1, ServerMoves, UnmovedStreams
<1>2. CASE MainStep
  BY <1>2, MainMoves, UnmovedStreams
<1>3. ASSUME NEW c \in Connections, ServiceStep(c) \/ Tester(c)
      PROVE  Streams'
  <2>1. CASE TesterConnects(c) \/ ServiceChecks(c) \/ BeginWrite(c) \/ ServiceEnds(c)
    <3>1. Unmoved
      BY <2>1 DEF TesterConnects, ServiceChecks, BeginWrite, ServiceEnds, connVars,
        pipeVars, textVars, Moved, Unmoved, Attached
    <3>2. QED
      BY <3>1, UnmovedStreams
  <2>2. QED
    BY <1>3, <2>1, GetStreams, FlushStreams DEF ServiceStep, Tester
<1>4. QED
  BY <1>1, <1>2, <1>3 DEF Next

-----------------------------------------------------------------------------
(* The end of the input. *)

\* A step that leaves the connections' ends where they are.
LEMMA StillEnded ==
  ASSUME Ends, ~pipeOpen, alive,
         \A c \in Connections :
           service[c] = "ended" =>
             service'[c] = "ended" /\ read'[c] = read[c] /\ Passed(c)' = Passed(c)
  PROVE  \E c \in Connections : service'[c] = "ended" /\ AtEnd(c)' /\ Passed(c)' = read'[c]
<1>1. PICK c \in Connections : service[c] = "ended" /\ AtEnd(c) /\ Passed(c) = read[c]
  BY DEF Ends
<1>2. service'[c] = "ended" /\ read'[c] = read[c] /\ Passed(c)' = Passed(c)
  BY <1>1
<1>3. AtEnd(c)'
  BY <1>1, <1>2 DEF AtEnd
<1>4. QED
  BY <1>1, <1>2, <1>3

\* A thread moves pieces of its own connection only.
LEMMA OthersPass ==
  ASSUME TypeInv, Streams, NEW c \in Connections, ServiceStep(c) \/ Tester(c),
         NEW d \in Connections \ {c}
  PROVE  Passed(d)' = Passed(d)
<1>1. CASE Flush(c) /\ c \in writing
  <2>1. outbuf[c] \in Seq(Own(c)) /\ outbuf[c] # << >> /\ outbuf[c] \in Seq(Pieces)
    BY <1>1 DEF Streams, Flush, TypeInv, TypeOK
  <2>2. Head(outbuf[c]) \in Own(c) /\ Head(outbuf[c]) \in Pieces
    BY <2>1, HeadAndTail
  <2>3. Head(outbuf[c]) \notin Own(d)
    BY <2>2 DEF Own
  <2>4. Moved' = Append(Moved, Head(outbuf[c])) /\ Moved \in Seq(Pieces)
    BY <1>1, FlushMoves, MovedType
  <2>5. Keep(Append(Moved, Head(outbuf[c])), Own(d)) = Keep(Moved, Own(d))
    BY <2>2, <2>3, <2>4, KeepAppend
  <2>6. QED
    BY <2>4, <2>5, PassedIs, PassedThen
<1>2. CASE ~(Flush(c) /\ c \in writing)
  <2>1. Moved' = Moved
    BY <1>2 DEF ServiceStep, Tester, TesterConnects, ServiceChecks, ServiceGets,
      BeginWrite, Flush, ServiceEnds, pipeVars, textVars, Moved
  <2>2. QED
    BY <2>1, PassedSame
<1>3. QED
  BY <1>1, <1>2

LEMMA MainEnds ==
  ASSUME TypeInv, Ends, ServerStep \/ AcceptFails \/ MainStep
  PROVE  Ends'
<1>1. Moved' = Moved /\ UNCHANGED <<read, pipeOpen>>
  BY ServerMoves, MainMoves DEF Unmoved
<1>2. /\ main' \in {"reading", "using"} => alive'
      /\ alive' => alive
      /\ \A c \in Connections : service[c] = "ended" => service'[c] = "ended"
      /\ \A c \in Connections : service'[c] = "closing" => service[c] = "closing"
  BY DEF ServerStep, ServerChecks, Accept, AcceptFails, MainStep, ReadPiece,
    ReadLastLine, UseLine, EndOfInput, BeginJoin, Join, JoinMoved, DestroyThreads,
    connVars, pipeVars, textVars, Ends, TypeInv, TypeOK
<1>3. \A c \in Connections : AtEnd(c)' = AtEnd(c)
  BY <1>1 DEF AtEnd
<1>4. \A c \in Connections : service'[c] = "closing" /\ alive' => AtEnd(c)'
  BY <1>2, <1>3 DEF Ends
<1>5. ~pipeOpen' /\ alive' =>
        \E c \in Connections : service'[c] = "ended" /\ AtEnd(c)' /\ Passed(c)' = read'[c]
  BY <1>1, <1>2, PassedSame, StillEnded
<1>6. QED
  BY <1>2, <1>4, <1>5 DEF Ends

LEMMA ConnectionEnds ==
  ASSUME TypeInv, Streams, Ends, NEW c \in Connections, ServiceStep(c) \/ Tester(c)
  PROVE  Ends'
<1>1. /\ UNCHANGED <<main, alive>>
      /\ service[c] # "ended"
      /\ \A d \in Connections \ {c} : service'[d] = service[d] /\ read'[d] = read[d]
  BY DEF ServiceStep, Tester, TesterConnects, ServiceChecks, ServiceGets, BeginWrite,
    Flush, ServiceEnds, connVars, TypeInv, TypeOK
<1>2. ServiceGets(c) \/ UNCHANGED read
  BY DEF ServiceStep, Tester, TesterConnects, ServiceChecks, BeginWrite, Flush,
    ServiceEnds, connVars
<1>3. ASSUME NEW d \in Connections, service'[d] = "closing", alive'
      PROVE  AtEnd(d)'
  <2>1. CASE d # c
    BY <1>1, <1>3, <2>1 DEF Ends, AtEnd
  <2>2. CASE d = c /\ ServiceChecks(c)
    <3>1. alive /\ UNCHANGED read
      BY <1>1, <1>3, <2>2 DEF ServiceChecks
    <3>2. service'[c] = IF alive /\ Good(c) THEN "get" ELSE "closing"
      BY <2>2 DEF ServiceChecks, TypeInv, TypeOK
    <3>3. ~Good(c)
      BY <1>3, <2>2, <3>1, <3>2
    <3>4. QED
      BY <2>2, <3>1, <3>3 DEF Good, AtEnd
  <2>3. CASE d = c /\ ~ServiceChecks(c)
    <3>1. service[c] = "closing" /\ UNCHANGED read
      BY <1>3, <2>3 DEF ServiceStep, Tester, TesterConnects, ServiceGets, BeginWrite,
        Flush, Flushed, ServiceEnds, connVars, TypeInv, TypeOK
    <3>2. QED
      BY <1>1, <1>3, <2>3, <3>1 DEF Ends, AtEnd
  <2>4. QED
    BY <2>1, <2>2, <2>3
<1>4. ASSUME ~pipeOpen', alive'
      PROVE  \E d \in Connections : service'[d] = "ended" /\ AtEnd(d)' /\ Passed(d)' = read'[d]
  <2>1. CASE pipeOpen
    <3>1. ServiceEnds(c)
      BY <1>4, <2>1 DEF ServiceStep, Tester, TesterConnects, ServiceChecks, ServiceGets,
        BeginWrite, Flush, pipeVars
    <3>2. /\ service[c] = "closing" /\ outbuf[c] = << >> /\ service'[c] = "ended"
          /\ read' = read /\ Moved' = Moved
      BY <3>1 DEF ServiceEnds, textVars, Moved, TypeInv, TypeOK
    <3>3. AtEnd(c)'
      BY <1>1, <1>4, <3>2 DEF Ends, AtEnd
    <3>4. Passed(c) \o << >> = read[c] /\ Passed(c) \in Seq(Own(c))
      BY <2>1, <3>2, PassedIs DEF Streams, Attached
    <3>5. Passed(c) = read[c]
      BY <3>4, ConcatEmptySeq
    <3>6. Passed(c)' = read'[c]
      BY <3>2, <3>5, PassedSame
    <3>7. QED
      BY <3>2, <3>3, <3>6
  <2>2. CASE ~pipeOpen
    <3>1. \A d \in Connections \ {c} : Passed(d)' = Passed(d)
      BY OthersPass
    <3>2. \A d \in Connections :
            service[d] = "ended" =>
              service'[d] = "ended" /\ read'[d] = read[d] /\ Passed(d)' = Passed(d)
      BY <1>1, <3>1
    <3>3. QED
      BY <1>1, <1>4, <2>2, <3>2, StillEnded
  <2>3. QED
    BY <2>1, <2>2
<1>5. QED
  BY <1>1, <1>3, <1>4 DEF Ends

LEMMA NextStreamInv == TypeInv /\ StreamInv /\ [Next]_vars => StreamInv'
<1> SUFFICES ASSUME TypeInv, StreamInv, [Next]_vars PROVE StreamInv'
  OBVIOUS
<1>1. CASE UNCHANGED vars
  <2>1. /\ Moved' = Moved
        /\ UNCHANGED <<main, alive, service, read, outbuf, pipeOpen, writing>>
    BY <1>1 DEF vars, connVars, pipeVars, textVars, Moved
  <2>2. Streams'
    BY <2>1, UnmovedStreams DEF StreamInv, Unmoved, Attached
  <2>3. \A c \in Connections : AtEnd(c)' = AtEnd(c) /\ Passed(c)' = Passed(c)
    BY <2>1, PassedSame DEF AtEnd
  <2>4. Ends'
    BY <2>1, <2>3 DEF StreamInv, Ends
  <2>5. QED
    BY <2>2, <2>4 DEF StreamInv
<1>2. CASE Next
  <2>1. Streams'
    BY <1>2, NextStreams DEF StreamInv
  <2>2. Ends'
    BY <1>2, MainEnds, ConnectionEnds DEF StreamInv, Next
  <2>3. QED
    BY <2>1, <2>2 DEF StreamInv
<1>3. QED
  BY <1>1, <1>2

\* Whatever the interleaving of any number of service threads and however often
\* the pipe fills up, what the main thread gets of a connection is what the
\* connection sent, in order, none twice and none lost before the pipe closes.
THEOREM StreamsArrive == Spec => []StreamsKept
<1>1. TypeInv /\ StreamInv => StreamsKept
  <2> SUFFICES ASSUME TypeInv, Streams, NEW c \in Connections
               PROVE  IF pipeOpen \/ c \in writing THEN Passed(c) \o outbuf[c] = read[c]
                      ELSE IsPrefix(Passed(c), read[c])
    BY DEF StreamInv, StreamsKept
  <2>1. PICK rest \in Seq(Own(c)) : Passed(c) \o rest = read[c] /\ (Attached(c) => rest = outbuf[c])
    BY DEF Streams
  <2>2. Passed(c) \in Seq(Own(c))
    BY PassedIs
  <2>3. ASSUME NEW s \in Seq(Own(c))
        PROVE  IsPrefix(s, s \o rest)
    <3>1. Len(s) \in Nat /\ Len(rest) \in Nat /\ Len(s \o rest) = Len(s) + Len(rest)
      BY LenProperties, ConcatProperties
    <3>2. QED
      BY <3>1, ConcatProperties DEF IsPrefix
  <2>4. QED
    BY <2>1, <2>2, <2>3 DEF Attached
<1>2. QED
  BY <1>1, InitType, NextType, InitStreams, NextStreamInv, PTL DEF Spec

\* The main thread's input ends only after all of some connection has passed,
\* whichever connection's thread it is that closes the pipe.
THEOREM EndIsAWholeStream == Spec => []EndAfterAWholeStream
<1>1. TypeInv /\ StreamInv => EndAfterAWholeStream
  BY DEF StreamInv, Ends, EndAfterAWholeStream, InputEnded
<1>2. QED
  BY <1>1, InitType, NextType, InitStreams, NextStreamInv, PTL DEF Spec

-----------------------------------------------------------------------------
(* What a connection has sent. *)

\* What was read from a connection are its pieces, and nothing is read after the
\* octet at its end: its thread looks for the end before each get.
InOrder(c, s) ==
  \A i \in 1 .. Len(s) : s[i] = Piece(c, i) \/ (s[i] = Stale(c) /\ i = Len(s))
Numbered ==
  \A c \in Connections : InOrder(c, read[c]) /\ (service[c] = "get" => Good(c))

LEMMA GetsInOrder ==
  ASSUME TypeInv, NEW c \in Connections, InOrder(c, read[c]), Good(c), ServiceGets(c)
  PROVE  InOrder(c, read'[c])
<1> DEFINE s == read[c]  n == Len(s)
<1>1. s \in Seq(Pieces) /\ n \in Nat
  BY LenProperties DEF TypeInv, TypeOK
<1>2. PICK p \in {Piece(c, n + 1), Stale(c)} : read' = [read EXCEPT ![c] = Append(@, p)]
  BY DEF ServiceGets
<1>3. read'[c] = Append(s, p) /\ p \in Pieces
  <2>1. read'[c] = Append(s, p)
    BY <1>2 DEF TypeInv, TypeOK
  <2>2. \A k \in Nat : Piece(c, k) \in Pieces /\ Stale(c) \in Pieces
    BY DEF Piece, Stale, Pieces
  <2>3. n + 1 \in Nat
    BY <1>1
  <2>4. QED
    BY <1>2, <2>1, <2>2, <2>3
<1>4. \A i \in 1 .. n : s[i] = Piece(c, i)
  <2>1. n > 0 => s # << >> /\ Last(s) = s[n]
    BY <1>1, EmptySeq DEF Last
  <2>2. n > 0 => s[n] # Stale(c)
    BY <2>1 DEF Good, AtEnd
  <2>3. QED
    BY <1>1, <2>2 DEF InOrder
<1> HIDE DEF s
<1>5. /\ Len(Append(s, p)) = n + 1 /\ Append(s, p)[n + 1] = p
      /\ \A i \in 1 .. n : Append(s, p)[i] = s[i]
  BY <1>1, <1>3, AppendProperties
<1>6. \A i \in 1 .. n + 1 : i \in 1 .. n \/ i = n + 1
  BY <1>1
<1>7. QED
  BY <1>2, <1>3, <1>4, <1>5, <1>6 DEF InOrder

LEMMA NextNumbered == TypeInv /\ Numbered /\ [Next]_vars => Numbered'
<1> SUFFICES ASSUME TypeInv, Numbered, [Next]_vars, NEW d \in Connections
             PROVE  InOrder(d, read[d])' /\ (service'[d] = "get" => Good(d)')
  BY DEF Numbered
<1>1. CASE read'[d] = read[d] /\ (service'[d] = "get" => service[d] = "get")
  BY <1>1 DEF Numbered, InOrder, Piece, Stale, Good, AtEnd
<1>2. CASE ServerStep \/ AcceptFails \/ MainStep \/ UNCHANGED vars
  <2>1. read' = read /\ (service'[d] = "get" => service[d] = "get")
    BY <1>2 DEF vars, connVars, ServerStep, ServerChecks, Accept, AcceptFails, MainStep,
      ReadPiece, ReadLastLine, UseLine, EndOfInput, BeginJoin, Join, JoinMoved,
      DestroyThreads, TypeInv, TypeOK
  <2>2. QED
    BY <1>1, <2>1
<1>3. ASSUME NEW c \in Connections, ServiceStep(c) \/ Tester(c)
      PROVE  InOrder(d, read[d])' /\ (service'[d] = "get" => Good(d)')
  <2>1. CASE ServiceGets(c) /\ c = d
    <3>1. service[d] = "get" /\ service'[d] # "get"
      BY <2>1 DEF ServiceGets, TypeInv, TypeOK
    <3>2. InOrder(d, read'[d])
      BY <2>1, <3>1, GetsInOrder DEF Numbered
    <3>3. QED
      BY <3>1, <3>2 DEF InOrder, Piece, Stale
  <2>2. CASE ServiceChecks(c) /\ c = d
    <3>1. read' = read /\ (service'[d] = "get" => Good(d))
      BY <2>2 DEF ServiceChecks, TypeInv, TypeOK
    <3>2. QED
      BY <3>1 DEF Numbered, InOrder, Piece, Stale, Good, AtEnd
  <2>3. CASE c # d \/ ~(ServiceGets(c) \/ ServiceChecks(c))
    <3>1. read'[d] = read[d] /\ (service'[d] = "get" => service[d] = "get")
      BY <1>3, <2>3 DEF ServiceStep, Tester, TesterConnects, ServiceChecks, ServiceGets,
        BeginWrite, Flush, Flushed, ServiceEnds, connVars, TypeInv, TypeOK
    <3>2. QED
      BY <1>1, <3>1
  <2>4. QED
    BY <2>1, <2>2, <2>3
<1>4. QED
  BY <1>2, <1>3 DEF Next

\* Nobody's octets but the tester's reach the pipe, in the order they were sent
\* and without a gap, save for one octet at the end of each connection.
THEOREM StaleIsLast == Spec => []StaleComesLast
<1>1. Init => Numbered
  <2>1. Len(<< >>) = 0
    OBVIOUS
  <2>2. QED
    BY <2>1 DEF Init, Numbered, InOrder
<1>2. TypeInv /\ StreamInv /\ Numbered => StaleComesLast
  <2> SUFFICES ASSUME TypeInv, Streams, Numbered, NEW c \in Connections,
                      NEW i \in 1 .. Len(Passed(c))
               PROVE  \/ Passed(c)[i] = Piece(c, i)
                      \/ Passed(c)[i] = Stale(c) /\ i = Len(Passed(c))
    BY DEF StreamInv, StaleComesLast
  <2>1. PICK rest \in Seq(Own(c)) : Passed(c) \o rest = read[c]
    BY DEF Streams
  <2>2. Passed(c) \in Seq(Own(c))
    BY PassedIs
  <2>3. /\ Len(rest) \in Nat /\ Len(Passed(c)) \in Nat
        /\ Len(read[c]) = Len(Passed(c)) + Len(rest) /\ read[c][i] = Passed(c)[i]
    <3>1. ASSUME NEW s \in Seq(Own(c)), i \in 1 .. Len(s)
          PROVE  /\ Len(rest) \in Nat /\ Len(s) \in Nat
                 /\ Len(s \o rest) = Len(s) + Len(rest) /\ (s \o rest)[i] = s[i]
      BY <3>1, LenProperties, ConcatProperties
    <3>2. QED
      BY <2>1, <2>2, <3>1
  <2>4. i \in 1 .. Len(read[c])
    BY <2>3
  <2>5. QED
    BY <2>3, <2>4 DEF Numbered, InOrder
<1>3. QED
  BY <1>1, <1>2, InitType, NextType, InitStreams, NextStreamInv, NextNumbered, PTL DEF Spec
=============================================================================
