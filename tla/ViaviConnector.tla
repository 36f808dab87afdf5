---------------------------- MODULE ViaviConnector ----------------------------
(***************************************************************************)
(* RICTesterReceiver, the source of reports when there is no report file:  *)
(* a server thread accepts the tester's connections, one service thread    *)
(* per connection copies what it reads into a pipe, and the main thread    *)
(* (run_report_loop) reads lines from the pipe.  When the main thread      *)
(* leaves its loop it runs the destructor, which joins the threads.        *)
(*                                                                         *)
(* A connection carries pieces: a line is a head followed by a tail, the   *)
(* tail holding the line feed.  A piece is what one round of a service     *)
(* thread copies.                                                          *)
(***************************************************************************)
EXTENDS Naturals, Sequences, FiniteSets, SequenceFilter
LOCAL INSTANCE SequencesExt

CONSTANTS Connections,  \* the connections the tester makes
          MaxPieces,    \* bound: pieces sent on each connection
          PipeCapacity  \* how many pieces the pipe holds

ASSUME ConnectorAssumption ==
  /\ MaxPieces \in [Connections -> Nat] /\ PipeCapacity \in Nat \ {0}
  /\ IsFiniteSet(Connections)
  /\ "server" \notin Connections

VARIABLES
  main,      \* where the main thread is
  alive,     \* the flag of that name
  server,    \* where the server thread is
  service,   \* per connection: where it, or its service thread, is
  threads,   \* threads_: the thread objects that own a thread
  capacity,  \* the capacity of that vector
  joined,    \* the threads the destructor has joined
  range,     \* the destructor's loop: the elements left to join, and whether
             \* the vector still is where it was when the loop began
  read,      \* per connection: the pieces its service thread has read
  outbuf,    \* per connection: the pieces buffered on the way to the pipe
  pipe,      \* the pieces in the pipe
  pipeOpen,  \* the descriptor of the pipe's write end is open
  writing,   \* the connections whose thread is inside write
  text,      \* the line getline has taken so far, or the line in use
  got        \* the pieces of the lines used before it

connVars == <<service, read, outbuf>>
pipeVars == <<pipe, pipeOpen, writing>>
textVars == <<text, got>>
threadVars == <<threads, capacity, joined, range>>
vars == <<main, alive, server, threadVars, connVars, pipeVars, textVars>>

\* The k-th piece of connection c; the octet written at the end of c.
Piece(c, k) == [conn |-> c, num |-> k]
Stale(c)    == [conn |-> c, num |-> 0]
Pieces      == [conn : Connections, num : Nat]
EndsLine(p) == p.num > 0 /\ p.num % 2 = 0

Threads == {"server"} \cup Connections
Mains   == {"reading", "using", "stopping", "joining", "destroyed", "aborted"}
Running == main \notin {"destroyed", "aborted"}

\* A connection waits to be accepted; its thread looks at the flag, waits in
\* get, writes to the pipe, or destroys its buffers and ends.
Services == {"none", "pending", "check", "get", "flush", "closing", "ended"}

\* The constructor has returned, and the server thread has accepted nobody before.
Init ==
  /\ main = "reading" /\ alive = TRUE /\ server = "check"
  /\ service = [c \in Connections |-> "none"]
  /\ threads = << "server" >> /\ capacity = 1
  /\ joined = {} /\ range = [left |-> << >>, valid |-> TRUE]
  /\ read = [c \in Connections |-> << >>]
  /\ outbuf = [c \in Connections |-> << >>]
  /\ pipe = << >> /\ pipeOpen = TRUE /\ writing = {}
  /\ text = << >> /\ got = << >>

-----------------------------------------------------------------------------
(* The tester: what it sends is in ServiceGets *)

TesterConnects(c) ==
  /\ Running /\ service[c] = "none"
  /\ service' = [service EXCEPT ![c] = "pending"]
  /\ UNCHANGED <<main, alive, server, threadVars, read, outbuf,
                 pipeVars, textVars>>

-----------------------------------------------------------------------------
(* server() *)

\* Mutant of ServerChecks: the server goes on whatever the flag says.
ServerGoesOn ==
  /\ Running /\ server = "check" /\ server' = "accept"
  /\ UNCHANGED <<main, alive, threadVars, connVars, pipeVars, textVars>>

ServerChecks ==
  /\ Running /\ server = "check"
  /\ server' = IF alive THEN "accept" ELSE "ended"
  /\ UNCHANGED <<main, alive, threadVars, connVars, pipeVars, textVars>>

\* panic throws in the thread, which has no handler.
AcceptFails ==
  /\ Running /\ server = "accept" /\ main' = "aborted"
  /\ UNCHANGED <<alive, server, threadVars, connVars, pipeVars, textVars>>

\* Mutant of Accept: the full vector is written past its end.
AcceptPastEnd(c) ==
  /\ Running /\ server = "accept" /\ service[c] = "pending"
  /\ threads' = Append(threads, c)
  /\ service' = [service EXCEPT ![c] = "check"]
  /\ server' = "check"
  /\ UNCHANGED <<main, alive, capacity, range, joined, read, outbuf,
                 pipeVars, textVars>>

\* accept and threads_.emplace_back.  A vector that is full moves to another
\* place, its capacity doubled.  Nobody else can tell the moment of accept from
\* that of emplace_back: they are one step.
Accept(c) ==
  /\ Running /\ server = "accept" /\ service[c] = "pending"
  /\ LET full == Len(threads) = capacity
     IN  /\ capacity' = IF full THEN 2 * capacity ELSE capacity
         /\ range' = [range EXCEPT !.valid = @ /\ ~(full /\ main = "joining")]
  /\ threads' = Append(threads, c)
  /\ service' = [service EXCEPT ![c] = "check"]
  /\ server' = "check"
  /\ UNCHANGED <<main, alive, joined, read, outbuf, pipeVars, textVars>>

-----------------------------------------------------------------------------
(* service(connection_fd) *)

\* The tester has ended connection c and get has met the end; and its negation,
\* input.good().
AtEnd(c) == read[c] # << >> /\ Last(read[c]) = Stale(c)
Good(c)  == ~AtEnd(c)

\* Mutant of ServiceChecks: the thread goes on after the end of its connection.
ServiceGoesOn(c) ==
  /\ Running /\ service[c] = "check"
  /\ service' = [service EXCEPT ![c] = IF alive THEN "get" ELSE "closing"]
  /\ UNCHANGED <<main, alive, server, threadVars, read, outbuf,
                 pipeVars, textVars>>

ServiceChecks(c) ==
  /\ Running /\ service[c] = "check"
  /\ service' = [service EXCEPT ![c] = IF alive /\ Good(c) THEN "get" ELSE "closing"]
  /\ UNCHANGED <<main, alive, server, threadVars, read, outbuf,
                 pipeVars, textVars>>

\* get blocks until there is a piece or the end, at which the tester may arrive
\* in the middle of a line too.  What waits in the socket cannot be told from
\* what the tester has yet to send.  At the end too an octet is written: the one
\* the buffer still holds.  Writing fills outbuf or passes it on.
ServiceGets(c) ==
  /\ Running /\ service[c] = "get"
  /\ \E p \in {Piece(c, Len(read[c]) + 1), Stale(c)} :
       /\ p.num <= MaxPieces[c]
       /\ read' = [read EXCEPT ![c] = Append(@, p)]
       /\ outbuf' = [outbuf EXCEPT ![c] = Append(@, p)]
  /\ \E s \in {"check", "flush"} : service' = [service EXCEPT ![c] = s]
  /\ UNCHANGED <<main, alive, server, threadVars, pipeVars, textVars>>

\* Where the thread is when its buffer has become b.
Flushed(b, at) == IF b = << >> /\ at = "flush" THEN "check" ELSE at

\* The thread enters write with the whole buffer.  From then on it holds the
\* pipe itself and does not notice that the descriptor is closed.
BeginWrite(c) ==
  /\ Running /\ service[c] \in {"flush", "closing"} /\ outbuf[c] # << >>
  /\ pipeOpen /\ c \notin writing /\ writing' = writing \cup {c}
  /\ UNCHANGED <<main, alive, server, threadVars, connVars, pipe, pipeOpen, textVars>>

\* Mutant of Flush: a piece that was written stays in the buffer.
FlushAgain(c) ==
  /\ Running /\ service[c] \in {"flush", "closing"} /\ outbuf[c] # << >>
  /\ c \in writing /\ Len(pipe) < PipeCapacity /\ pipe' = Append(pipe, Head(outbuf[c]))
  /\ UNCHANGED <<main, alive, server, threadVars, connVars, pipeOpen, writing, textVars>>

\* A write waits while the pipe is full, and returns when its buffer is empty.
\* What a thread would write to the closed descriptor never gets there.
Flush(c) ==
  /\ Running /\ service[c] \in {"flush", "closing"} /\ outbuf[c] # << >>
  /\ \/ c \in writing /\ Len(pipe) < PipeCapacity /\ pipe' = Append(pipe, Head(outbuf[c]))
     \/ c \notin writing /\ ~pipeOpen /\ UNCHANGED pipe
  /\ outbuf' = [outbuf EXCEPT ![c] = Tail(@)]
  /\ service' = [service EXCEPT ![c] = Flushed(outbuf'[c], @)]
  /\ writing' = IF outbuf'[c] = << >> THEN writing \ {c} ELSE writing
  /\ UNCHANGED <<main, alive, server, threadVars, read, pipeOpen, textVars>>

\* Mutant of ServiceEnds: the descriptor is closed with data in the buffer.
CloseUnflushed(c) ==
  /\ Running /\ service[c] = "closing"
  /\ service' = [service EXCEPT ![c] = "ended"]
  /\ pipeOpen' = FALSE
  /\ UNCHANGED <<main, alive, server, threadVars, read, outbuf, pipe, writing,
                 textVars>>

\* Mutant of ServiceEnds: the descriptor stays open while another thread has it.
CloseWithLast(c) ==
  /\ Running /\ service[c] = "closing" /\ outbuf[c] = << >>
  /\ service' = [service EXCEPT ![c] = "ended"]
  /\ pipeOpen' = \E d \in Connections \ {c} : service[d] \in {"check", "get", "flush", "closing"}
  /\ UNCHANGED <<main, alive, server, threadVars, read, outbuf, pipe, writing,
                 textVars>>

\* The destructor of outbuf flushes it, then closes its descriptor, which is
\* the write end of the pipe, for every connection.
ServiceEnds(c) ==
  /\ Running /\ service[c] = "closing" /\ outbuf[c] = << >>
  /\ service' = [service EXCEPT ![c] = "ended"]
  /\ pipeOpen' = FALSE
  /\ UNCHANGED <<main, alive, server, threadVars, read, outbuf, pipe, writing,
                 textVars>>

-----------------------------------------------------------------------------
(* The main thread *)

IsStale(p) == p.num = 0

\* getline takes what is in the pipe, up to the end of a line.  A stale octet
\* may be any, a line feed too.
ReadPiece ==
  /\ main = "reading" /\ pipe # << >>
  /\ LET p == Head(pipe)
     IN  \/ (EndsLine(p) \/ IsStale(p)) /\ main' = "using"
         \/ ~EndsLine(p) /\ UNCHANGED main
  /\ text' = Append(text, Head(pipe)) /\ pipe' = Tail(pipe)
  /\ UNCHANGED <<alive, got, server, threadVars, connVars, pipeOpen, writing>>

\* read finds the end of the pipe: it is empty and nobody holds its write end.
InputEnded == pipe = << >> /\ ~pipeOpen /\ writing = {}

\* At the end of the input, what has been taken is a line too.
ReadLastLine ==
  /\ main = "reading" /\ InputEnded /\ text # << >>
  /\ main' = "using"
  /\ UNCHANGED <<alive, server, threadVars, connVars, pipeVars, textVars>>

\* The rest of a round of run_report_loop.  A lone stale octet is no JSON object
\* and ends the process.  Any other line may be reported, raise the exception
\* that leaves run_report_loop, or end the process.
UseLine ==
  /\ main = "using"
  /\ main' \in IF Len(text) = 1 /\ IsStale(text[1]) THEN {"aborted"}
               ELSE {"reading", "stopping", "aborted"}
  /\ alive' = (main' # "stopping")
  /\ got' = got \o text /\ text' = << >>
  /\ UNCHANGED <<server, threadVars, connVars, pipeVars>>

\* Mutant of EndOfInput: the loop waits for the end of every connection.
EndOfAllInput ==
  /\ main = "reading" /\ InputEnded /\ text = << >>
  /\ \A c \in Connections : service[c] \in {"none", "ended"}
  /\ main' = "stopping" /\ alive' = FALSE
  /\ UNCHANGED <<server, threadVars, connVars, pipeVars, textVars>>

EndOfInput ==
  /\ main = "reading" /\ InputEnded /\ text = << >>
  /\ main' = "stopping" /\ alive' = FALSE
  /\ UNCHANGED <<server, threadVars, connVars, pipeVars, textVars>>

\* ~RICTesterReceiver: the loop fixes its range before its first round.
BeginJoin ==
  /\ main = "stopping" /\ main' = "joining"
  /\ range' = [left |-> threads, valid |-> TRUE]
  /\ UNCHANGED <<alive, server, threads, capacity, joined, connVars, pipeVars, textVars>>

HasEnded(t) == IF t = "server" THEN server = "ended" ELSE service[t] = "ended"

Join ==
  /\ main = "joining" /\ range.valid /\ range.left # << >>
  /\ HasEnded(Head(range.left))
  /\ joined' = joined \cup {Head(range.left)}
  /\ range' = [range EXCEPT !.left = Tail(@)]
  /\ UNCHANGED <<main, alive, server, threads, capacity, connVars, pipeVars, textVars>>

\* Going on in the memory the vector has left: a join of what is no thread
\* any more, which throws in a destructor, or a fault.
JoinMoved ==
  /\ main = "joining" /\ ~range.valid /\ HasEnded(Head(range.left))
  /\ main' = "aborted"
  /\ UNCHANGED <<alive, server, threadVars, connVars, pipeVars, textVars>>

\* Mutant of DestroyThreads: threads that were not joined are let go.
DestroyDetached ==
  /\ main = "joining" /\ range.valid /\ range.left = << >>
  /\ main' = "destroyed"
  /\ UNCHANGED <<alive, server, threadVars, connVars, pipeVars, textVars>>

Owned == {threads[i] : i \in DOMAIN threads}

\* The vector's destructor terminates the process if an element owns a thread.
DestroyThreads ==
  /\ main = "joining" /\ range.valid /\ range.left = << >>
  /\ main' = IF Owned \subseteq joined THEN "destroyed" ELSE "aborted"
  /\ UNCHANGED <<alive, server, threadVars, connVars, pipeVars, textVars>>

-----------------------------------------------------------------------------
ServerStep == ServerChecks \/ \E c \in Connections : Accept(c)

ServiceStep(c) ==
  ServiceChecks(c) \/ BeginWrite(c) \/ Flush(c) \/ ServiceEnds(c)

MainStep ==
  ReadPiece \/ ReadLastLine \/ UseLine \/ EndOfInput \/ BeginJoin \/ Join \/ JoinMoved \/ DestroyThreads

Tester(c) == TesterConnects(c) \/ ServiceGets(c)

Next == \/ ServerStep \/ AcceptFails \/ MainStep
        \/ \E c \in Connections : ServiceStep(c) \/ Tester(c)

Spec == Init /\ [][Next]_vars

\* Every thread is scheduled; nothing is assumed of the tester.
FairSpec == /\ Spec /\ WF_vars(ServerStep) /\ WF_vars(MainStep)
            /\ \A c \in Connections : WF_vars(ServiceStep(c))

\* A tester that makes its connections, and on each goes on until it ends it.
TesterGoesOn ==
  \A c \in Connections : WF_vars(TesterConnects(c)) /\ WF_vars(ServiceGets(c))

-----------------------------------------------------------------------------
(* Properties *)

TypeOK ==
  /\ main \in Mains /\ alive \in BOOLEAN
  /\ server \in {"check", "accept", "ended"}
  /\ service \in [Connections -> Services]
  /\ threads \in Seq(Threads) /\ joined \subseteq Threads
  /\ capacity \in Nat /\ Len(threads) <= capacity
  /\ range.left \in Seq(Threads) /\ range.valid \in BOOLEAN
  /\ read \in [Connections -> Seq(Pieces)]
  /\ outbuf \in [Connections -> Seq(Pieces)]
  /\ pipe \in Seq(Pieces) /\ Len(pipe) <= PipeCapacity /\ pipeOpen \in BOOLEAN
  /\ writing \subseteq Connections
  /\ text \in Seq(Pieces) /\ got \in Seq(Pieces)

\* run_report_loop returns only when no thread that uses the connector is left:
\* else the vector's destructor ends the process before the members go.
SafeDestruction ==
  main = "destroyed" =>
    /\ server = "ended"
    /\ \A c \in Connections : service[c] \in {"none", "pending", "ended"}

\* What has come out of connection c, as far as the pipe's write end.
Of(c, s)  == Keep(s, [conn : {c}, num : Nat])
Passed(c) == Of(c, got \o text \o pipe)

\* Whatever the threads' interleaving, the pieces of each connection reach the
\* main thread in order, none twice and, until a connection has closed the
\* pipe, none lost; nor is any lost of what a thread was writing then.
StreamsKept ==
  \A c \in Connections :
    IF pipeOpen \/ c \in writing THEN Passed(c) \o outbuf[c] = read[c]
    ELSE IsPrefix(Passed(c), read[c])

\* What comes out of a connection are its pieces from the first one on, none
\* left out; a stale octet is the last to come, and there is one at most, as the
\* thread looks at the state of its stream before each get.
StaleComesLast ==
  \A c \in Connections :
    LET p == Passed(c)
    IN  \A i \in 1 .. Len(p) : p[i] = Piece(c, i) \/ (p[i] = Stale(c) /\ i = Len(p))

\* When the main thread meets the end of its input, it has read all that some
\* connection sent: the input does not end before the first of them has.
EndAfterAWholeStream ==
  main = "reading" /\ InputEnded /\ text = << >> =>
    \E c \in Connections : AtEnd(c) /\ Passed(c) = read[c]

\* The connector is the source of reports that E2Agent assumes.
Source == INSTANCE ReportSource WITH
  at <- IF main \in {"stopping", "joining"} THEN "leaving"
        ELSE IF main = "destroyed" THEN "gone" ELSE main,
  delivered <- got # << >> \/ main = "using"

\* Whatever its threads do, the report loop sees no more than that: above all,
\* its input does not end before there was a line, and an abort spares it once
\* the connector is gone.
ImplementsSource == Source!Spec

\* Once a connection has ended, the main thread does not read for ever.
EndIsNoticed == ~pipeOpen ~> main \notin {"reading", "using"}

\* When the destructor has started, one more connection frees the server thread
\* from accept, or finds the process ended.
ConnectionFreesServer ==
  main \in {"stopping", "joining"} /\ (\E c \in Connections : service[c] = "pending")
    ~> server = "ended" \/ ~Running

\* The two ways the destructor may wait for ever: for a connection, after the
\* tester has made its last one, and for a service thread inside write at the full
\* pipe, which nobody reads any more.
WaitsToAccept == server = "accept" /\ \A c \in Connections : service[c] \notin {"none", "pending"}
WaitsToWrite  == writing # {} /\ Len(pipe) = PipeCapacity

\* With a tester that goes on, the destructor waits for ever in these two ways
\* only; and once a connection has ended while no thread is inside write, in the
\* first way only: what is left to write is dropped.
DestructionEnds ==
  TesterGoesOn =>
    /\ main = "joining" ~> ~Running \/ [](WaitsToAccept \/ WaitsToWrite)
    /\ main = "joining" /\ writing = {} /\ (\E c \in Connections : service[c] = "ended")
         ~> ~Running \/ []WaitsToAccept

\* After the main thread has stopped reading, the server thread accepts one more
\* connection at most: the vector moves under the destructor's loop once only.
OneMoreConnection ==
  main = "joining" => Len(threads) <= Cardinality(joined) + Len(range.left) + 1

\* The comment in service: raw data is piped; hence no octet but the tester's.
RawDataPiped == \A i \in DOMAIN got : ~IsStale(got[i])
=============================================================================
