# Verification of the E2 simulator (e2sim) with the KPM service model

The repository holds an O-RAN E2 node simulator: the library `e2sim/` and the
program `e2sim/e2sm_examples/kpm_e2sm/`, which registers the KPM service model
with it, connects to a near-RT RIC over SCTP, answers subscription requests and
reports measurements read from `reports.json` or from a VIAVI RIC tester on TCP
port 3001. This directory holds TLA+ modules of that program, TLC
configurations that check them on small instances, and theorems checked with
TLAPS. Paths below are relative to the repository; `kpm/` stands for
`e2sim/e2sm_examples/kpm_e2sm/src/kpm/`.

## 1. Inventory

| Component | State | Operations | Interacts with | Modelled in |
|---|---|---|---|---|
| KPM program, `kpm/kpm_callbacks.cpp` | `gFuncId`; request ID, action ID and lists, local to the callback; the input of `run_report_loop` | `main`, `callback_kpm_subscription_request`, `run_report_loop` | registers itself with E2Sim; is called back *inside* the receive loop; sends through E2Sim; owns the connector | `E2Agent`, `KpmSubscription` |
| `E2Sim`, `e2sim/src/base/e2sim.cpp` | the maps `ran_functions_registered`, `subscription_callbacks`; the socket | `register_e2sm`, `register_subscription_callback`, `get_subscription_callback`, both `run_loop`s, `encode_and_send_sctp_data` | options, SCTP, dispatcher, signal handler | `StartUp` up to the connection, `E2Agent` |
| Dispatcher, `messagerouting/e2ap_message_handler.cpp` | none | `e2ap_handle_sctp_data` and its cases | calls codec, E2Sim, callback | `E2Agent`, promised behaviour in `E2Contract` |
| Encoding and codec, `encoding/encode_e2apv1.cpp`, `messagerouting/e2ap_asn1c_codec.c` | none | generators, `get_function_id_from_subscription`, encode, decode | used by all above | `E2AP`, `KpmSubscription` |
| SCTP socket, `SCTP/e2sim_sctp.cpp` | the association | start, send, receive | the RIC | `StartUp` (start), outcomes in `E2Agent` |
| Signal handler, `base/signal_handler.cpp` | the static flag `m_running` | `setup`, `stopRun`, `isRunning` | read by `run_loop` | `E2Agent` |
| VIAVI connector, `kpm/viavi_connector.hpp` | `alive`, `threads_`, listening socket, pipe | constructor, `server`, `service`, destructor | the tester; the report loop reads its pipe | `ViaviConnector`; what the report loop relies on in `ReportSource`; seen from the report loop in `E2Agent` |
| KPM encoding, `kpm/encode_kpm.cpp` | none | builds ASN.1 values | the report loop | not modelled: straight-line code |
| Options, `e2sim/src/DEF/e2sim_defs.cpp` | none | `read_input_options` | `run_loop` | `StartUp` |
| ASN.1 code, `ASN1c/` | none | generated by asn1c | the codec | not modelled |
| `e2sim/previous/` | older copies, not built | | | not modelled |

What is hard in this code:

* **The callback reports inside the receive loop.** Between the receive of a
  request and the next receive lie the response and all indications, while the
  RIC goes on sending, may end the association, and the stop signal may come.
* **One exception handler for two failures.** The dispatcher takes every
  `std::out_of_range` for a failed lookup, those of the callback's reports too.
* **State left by the scan of a request.** Identifiers are uninitialised when an
  element of the request is missing, and elements may be repeated. `reqActionId` is
  assigned for rejected actions as well.
* **Responses that cannot be encoded.** The cause of a rejected action is never
  set; one rejected action ends the process.
* **Calls that block.** `send` waits for a RIC that does not read, inside the
  callback; `write` waits at the full pipe, and nothing wakes it but a reader.
* **Threads of the connector.** The server thread appends to a vector the
  destructor iterates over; every connection's buffer owns the one write end of
  the pipe; at the end of a stream one stale octet is written; the destructor
  waits for a thread that waits in `accept` or in `write`.
* **Numbers that narrow.** A port passes through `strtol`'s long, an int and a
  `uint16_t`; only the server's is checked, after the first narrowing.
* **Errors that end the process** (`exit`, uncaught exceptions, a failed
  encoding used as a length) in the middle of an exchange.

`PROJECT.json` lists each of these under `hazards` with its line.

What makes each component correct: the agent introduces itself first, answers
every request it serves once and in order, sends the reports of a subscription
completely, in sequence and without another message in between, returns to
receiving, and stops soon after the signal; the scan of a request finds its
identifiers whatever the order and number of its elements, and admits exactly the
first REPORT action of each list; the connector keeps the octets of each tester in order, ends the
input only after a whole stream and lets no thread outlive it; and the socket is
bound and connected to the ports the command line gives.

## 2. Modules

* **`E2AP`** The messages, as records of the elements that control flow or a
  property tells apart. Generators are operators (`SetupRequest`,
  `SubscriptionResponse`, `Indication`, ...), with the constants the code puts
  in (function ID 147 in the response, 1 in the service update). `FirstReport`,
  `Admitted`, `Rejected`, `ActionIdsRead`, `RequestIdsRead` and
  `FunctionIdsRead` state what the code takes from a subscription request; a
  set with several members stands for the read of an uninitialised variable, which
  may hold a request ID the encoder refuses (`Unencodable`). `CanAnswer` says which
  response can be encoded: none with a rejected action, since the mandatory cause
  of its item is never set (`encode_e2apv1.cpp:684-690`); and one with 1 to
  `MaxActions` admitted actions, one for each `RICsubscriptionDetails` element.
* **`E2Agent`** The process. `phase` is where it is; actions are split where
  the code blocks or sends, so that the RIC (`RicSends`, `RicEnds`), the signal
  and the tester (`TesterSendsLine`, `TesterEnds`) interleave with it. `handled`
  keeps what became of each PDU, `sent` what was put on the association.
  `input`, `line` and `item` are the report source, the lines read from it and
  the next report of a line; a report has a fate: it is sent, throws
  `out_of_range`, or ends the process. `Send` holds the outcomes of
  `sctp_send_data`: on an association the RIC has ended, a message may vanish
  or the process ends; on one that stands, the process may wait in it
  (`WaitsForRic`). `OpType` is the environment's `RAN_FUNCTION_OP_TYPE`: with
  `DELETE` the answer to a service query may fail to encode.
* **`E2Contract`** What the RIC may rely on, without the process: introduction
  first, PDUs in order, at most one answer each of the kind the PDU calls for,
  continued only until the next. `E2Agent!Contract` maps the agent to it: `up`
  is a process that has not ended, `todo` the PDUs not yet dealt with, the one
  being handled included.
* **`KpmSubscription`** One request in the two loops over its elements and the
  loop over its actions, a round per step. It justifies that `E2Agent` takes
  the request in one step: `ScanFindsResults` equates the two, for elements in any
  order, absent or repeated.
* **`ViaviConnector`** The server thread, a service thread per connection and
  the main thread. A line is a head piece and a tail piece with the line feed,
  so that connections can cut into each other's lines. `threads` and `capacity`
  are the vector; `range` is what the destructor's loop holds of it, invalid
  once the vector has moved. `writing` holds the connections whose thread is inside
  `write`: it waits there until the pipe has room, whoever closes the descriptor
  meanwhile, and the main thread's input ends (`InputEnded`) only when no thread is.
  What waits in a socket cannot be told from what
  the tester has yet to send, so `ServiceGets` receives a piece at once. A line
  is first taken (`ReadPiece`) and then used (`UseLine`), since using it may
  raise the exception that leaves the loop or end the process.
* **`ReportSource`** What the report loop may rely on when the connector feeds
  it, without threads, connections and pipe: lines one at a time, no end before
  a line, a destruction that may take for ever, an abort at any moment but not
  after the connector is gone. `ViaviConnector!Source` maps the connector to it.
  These are the steps `E2Agent` gives its environment with source `"viavi"`:
  `TesterSendsLine`, `TesterEnds` (only after a line), `JoinConnector`,
  `ConnectorAborts`.
* **`StartUp`** What precedes `E2Agent`: `RAN_FUNC_ID`, the `switch` of
  `read_input_options` with one action per label (`label` is the label reached;
  each falls through to the next), the call of the second `run_loop`, whose
  parameters are narrower, and `sctp_start_client` call by call. A text is what
  `strtol` and `inet_pton` read in it; the widths of long, int and port are
  constants.
* **`SequenceFilter`** One operator of the properties: `Keep(s, S)`, the elements
  of the sequence `s` that are in the set `S`. It is `SelectSeq` with a set for its
  test, by a recursive function instead of a recursive operator, so that theorems
  can be proved about it; `MCE2Agent` has TLC compare the two (`KeepSelects`).
* **`E2AgentProofs`, `E2ContractProofs`, `E2ReportProofs`, `E2AnswerProofs`,
  `KpmSubscriptionProofs`, `ViaviConnectorProofs`, `StartUpProofs`,
  `SequenceFilterProofs`** The theorems of section 4.
* **`MC*`** Instances for TLC.

## 3. Runs

| Run | Checks | Instance |
|---|---|---|
| `start_up` | `TypeOK`, `OptionsAsGiven`, `ConnectsWhereTold`, `BindsWhereTold` | ports of 2 bits, ints of 4, longs of 6; no argument to six, eight numbers each for two of them |
| `agent_safety` | `TypeOK`, `SetupComesFirst`, `IndicationsFollowTheirResponse`, `ReportsInSequence`, `ReportsComplete`, `OneAnswerEach`, `StopIsPrompt`, `IndicationsCarryAdmittedAction`; `ImplementsContract` (refinement) | 10 PDUs, 2 sent; six report files, or a tester that sends up to two lines and ends; `OpType` `DELETE` |
| `agent_live` | `EveryPduHandled` | 5 PDUs, 2 sent; two report files |
| `scan` | `TypeOK`, `ScanFindsResults` | requests with up to three actions of two IDs and three types, elements in every order, any absent; up to three elements of any kinds, repeated ones too; a response has room for two admitted actions |
| `viavi_streams` | `TypeOK`, `StreamsKept`, `StaleComesLast`, `EndAfterAWholeStream`; `ImplementsSource` (refinement) | two connections with 3 and 2 pieces, a pipe of 2 |
| `viavi_threads` | `SafeDestruction`, `OneMoreConnection` | three connections with 1, 0 and 0 pieces, a pipe of 1 |
| `viavi_ends` | `EndIsNoticed`, `ConnectionFreesServer`, `DestructionEnds` (liveness) | two connections with 2 and 1 pieces, a pipe of 1 |

Why the bounds are enough:

* The widths of `start_up` keep the ratios that matter: a port, an int and a long
  each hold numbers the next narrower one does not. The numbers are -1, 0, 1, 3
  (the last port), 4 (the first that is none), 18 (wraps to a port as an int), 40
  (too great for a long) and a text without digits; each stands as server port
  with each as client port, after and before every other argument.
* Two PDUs let a second request be served after each way the first can end
  (answered, ignored, complete, broken off by an exception); the requests have one
  REPORT action, two in lists of their own, one with another action after it, a
  function that is not registered, or neither ID. The agent keeps no
  state of earlier requests besides `portBound`, which the second reaches. A
  third PDU adds no new pair of neighbours.
* The report files have lines with no, one and two reports, lines of another
  kind between, before and after them, a line that breaks off at its second
  report, one that ends the process and one that is not JSON. Two lines of the
  tester reach an end between lines, after one and after two.
* The function ID 5000 is there because it cannot be encoded.
* Two connections with a line each, cut in two pieces, let each cut into the
  other's line; the third piece of the first is a line its end breaks off. The
  buffers hold more than the pipe, so that writes wait.
* Three connections are the fewest that matter in the destructor: the vector
  grows 1, 2, 4, so that an append during the destructor may move it (the second
  or the third element) or not (the fourth). One of them sends a piece: the
  input of the main thread ends after a stale octet, or after that piece.
* For liveness two connections are enough: the ways to wait concern one service
  thread and one other that ends, or the server and one connection more. With a
  pipe of one piece every second write waits.

Deadlock is not checked: the process ends (`returned`, `exited`, `destroyed`,
`aborted`), and it may wait for ever for a RIC or a tester that says nothing.

The remaining runs each check one statement of the repository that the code does
not keep; each counterexample is a short exchange.

| Run | Statement | What happens |
|---|---|---|
| `agent_unknown` | `e2sim/README.md:54`: without a callback, an error response is returned | the request is logged, nothing is sent |
| `agent_rejected` | `kpm_callbacks.cpp:594`: all others are rejected | with any rejected action the response cannot be encoded, its cause being unset, and the process exits |
| `agent_nofunction` | `e2ap_message_handler.cpp:222`: "No RAN Function with this ID exists" | it is logged for a function that exists, when a report throws |
| `viavi_raw` | `viavi_connector.hpp:171`: pipe raw data | an octet that nobody sent is piped at the end of a connection |
| `start_ports` | `e2sim_defs.cpp:156`: valid values are between 1 and 65535 | a number beyond an int is accepted as the port it wraps to |

Control requests are not answered either (their case in the dispatcher is
commented out, see `LogOnly`), although the README lists them among the requests
that are; it is the same statement as that of `agent_unknown`.

### Fairness

`E2Agent!FairSpec` has weak fairness of `AgentStep`, except where the process is in
`send` on a standing association (`WaitsForRic`): it is one thread that the
operating system schedules, but `send` blocks until the RIC reads or ends the
association, and nothing is assumed of the RIC. `EveryPduHandled` therefore allows
the process to stay in `send` for ever, and nowhere else. The RIC, the signal, the tester,
`JoinConnector` and `ConnectorAborts` are not fair: the connector's destructor
may wait for ever. For that reason `EveryPduHandled` is claimed with a report
file only; with a tester that neither sends nor closes it is false, and the code
promises nothing else.

`ViaviConnector!FairSpec` has weak fairness of the server thread, of the main
thread and of each service thread for the steps they can take alone; the
arrival of data, of ends and of connections is not fair. `DestructionEnds` alone
speaks of a tester that makes its connections and goes on until it ends each
(`TesterGoesOn`), as an antecedent: even then the destructor may wait for ever,
in `accept` after the last connection (`WaitsToAccept`) or for a service thread
inside `write` at the full pipe, which nobody reads any more (`WaitsToWrite`), and
it says that these two are all. A thread inside `write` is not released when another
connection closes the descriptor (on Linux `close` wakes no writer); one that has
not entered `write` by then fails and drops what it buffers. Hence the second
conjunct: when a connection has ended and no thread is inside `write`, only
`accept` is left to wait in.

## 4. Theorems

Every theorem holds for all values of the constants; they rest on the
assumptions of the modules only (`E2APAssumption`, `AgentAssumption`,
`ConnectorAssumption`, `StartUpAssumption` and the scan's own: the
sets are of the right type, the connections are finitely many, a port is
narrower than an int and an int no wider than a long).

**The agent** (`E2AgentProofs`), any sets of messages, functions, actions, lines
and files, any number of PDUs:

* `TypeCorrect` (`TypeOK`). The strengthening `TypeInv` adds `PhaseData`: in the
  phases that look at the PDU in progress, or at the line read last, there is
  one. Without it, `current` and `reports` would be applied outside their domain.
* `SetupFirst` (`SetupComesFirst`). `SetupInv` adds `StartUp`: before the loop
  nothing has been sent, from the loop on something has, and registered
  functions have a callback from `Register` on.
* `IndicationsInOrder` (`IndicationsFollowTheirResponse`). `ReportInv` adds
  `ResponseSent`: while the process reports on an open association, the last
  response has the request ID of `sub` and only indications follow it. That the
  callback runs inside the receive loop makes it inductive.
* `StopPromptly` (`StopIsPrompt`). `StopInv` adds that once a PDU is late the
  flag is down and the process is not about to receive.

`StepSends` carries the middle two: every step sends nothing, or appends one
message of the kind its phase allows, to an open association. `NextType`,
`NextSetup`, `NextReport` and `NextStop` are the induction steps.

**The contract** (`E2ContractProofs`): `KeepsContract` (`ImplementsContract`).
`LinkInv` is what the agent remembers between the steps of one answer: there is
no association before `Connect` (`Unassociated`); in the callback the PDU in
progress is the request `sub` was read from (`Requested`); where an answer goes
on, the message sent last is the one it continues (`LastSent`).
One lemma per contract action (`AsStop`, `AsAnswer`, ...) says when a step of the
agent is that action, `EveryStep` puts the agent's actions under them.

**The reports** (`E2ReportProofs`):

* `ReportsInOrder` (`ReportsInSequence`). `SeqInv` says that each indication
  names a report the input has (`AllPlaced`) and, on a standing association, that
  the report at `line` and `item` is the next one due, or that those of the lines
  read are all sent (`InPlace`). A file does not change under the loop, and the
  tester's input, empty until the connector is made (`Unfed`), only grows at its
  end; so what was in sequence stays so.
* `ReportsSentToTheEnd` (`ReportsComplete`). `CompleteInv` adds that no callback
  has returned by itself for a PDU that is yet to be dispatched (`Uncalled`); the
  rest follows from `InPlace` at the end of the input.

**The answers** (`E2AnswerProofs`):

* `AnswersInOrder` (`OneAnswerEach`). `AnswerInv` is that property (`Balanced`)
  with what makes it inductive (`InProgress`): the history begins with the loop, a
  PDU is not marked as called before it is looked up, and the request whose
  response is owed is the one marked last. A PDU is marked again when a report
  throws, so the invariant must say too that the report loop works for no service
  query (`ForRequest`). `Sends`, `Receives` and `Marks` say what a step does to
  what is kept of the two histories; they are all the proof knows of `Keep`.
* Section 3 lists statements of the repository that the agent does not keep. For
  two of them a theorem states the circumstances under which the code does,
  that is, that the counterexample TLC finds is of the only kind there is. Each has
  one hypothesis about the constants, which sets of messages and lines other than
  those of the runs satisfy.
  * `NoFunctionWhenInRange`: with no report that throws `out_of_range`
    (`AllInRange`), `NoFunctionMeansNone` holds.
  * `RejectedWhenAnswerable`: when the response to each request can be encoded
    (`AllAnswerable`: REPORT actions alone, one in each list and no more lists than
    fit), `OtherActionsAreRejected` holds: whichever way the process ends while the
    association stands (`NothingOwed`), no response is owed.
* `AdmittedOnly` (`IndicationsCarryAdmittedAction`), without a hypothesis. The scan
  stores the ID of a rejected action in `reqActionId` too, and repeated lists admit
  several; but what `CanAnswer` lets through has one action in each list, so that the
  last is an admitted one (`LastIsAdmitted`). `ActionInv` follows the action ID from
  the scan through the response to the indications.

**The scan** (`KpmSubscriptionProofs`): `TypeCorrect`, and `ScanCorrect`
(`ScanFindsResults`). The loop invariants are parts of `Inv`: `FuncInv` and
`ReqInv` tell the identifiers from what they are before their element was met,
`ScanInv` says that the lists and `actionId` are what `E2AP` states for the
lists met and the prefix of the actions scanned, `EndInv` that at the end every element has been
met and the response copies the lists.

**The connector** (`ViaviConnectorProofs`), any finite set of connections:

* `TypeCorrect`: the vector stays within its capacity, the pipe within its own.
* `DestroyedSafely` (`SafeDestruction`). `SafeInv` says that the vector owns the
  server thread and the thread of every connection that was accepted (`Vector`),
  and that joined threads have ended (`JoinedEnded`); the vector's destructor,
  which ends the process unless all it owns is joined, does the rest.
* `OneMoreThread` (`OneMoreConnection`). `CountInv` says that no thread is in the
  vector twice, or both joined and left to join (`Once`), and that the count may
  grow by one only while the server thread still is in `accept` with the flag
  already cleared (`Counted`).
* `RefinesSource` (`ImplementsSource`). By `SourceInv` a thread closes the pipe
  only after it has read something, which its buffer's destructor has passed on
  first: the main thread has had or will find a piece (`Begun`) before the end.

* `StreamsArrive` (`StreamsKept`) and `EndIsAWholeStream` (`EndAfterAWholeStream`).
  `StreamInv` has two parts. `Streams`: what has come out of a connection, and a
  rest, are what was read from it, and the rest is what the connection buffers as
  long as what its thread writes reaches the pipe: while the descriptor is open, or
  the thread is inside `write` (`Attached`). `Ends`: while the flag is set, a thread closes only
  at the end of its connection, and the one that closed the pipe had passed
  everything on. The main thread's steps leave `Moved`, the pieces in and beyond
  the pipe, as they are (`MainMoves`); a flush adds one to it (`FlushMoves`), which
  is one of its own connection (`OthersPass`): what has passed of a connection that
  has ended stays whole while a thread that was inside `write` then goes on.
* `StaleIsLast` (`StaleComesLast`). `Numbered` says that the pieces read from a
  connection are numbered from 1, that a stale octet is the last of them, and that
  no thread is in `get` after it. It is the counterpart of the violated
  `RawDataPiped`: the octets nobody sent are those, one at each end.

**The start** (`StartUpProofs`), any command lines and any widths:
`TypeCorrect`; `OptionsRead` (`OptionsAsGiven`), since the label reached says
which options have been read (`OptionsInv`); `ServerPortKept` (`ConnectsWhereTold`)
and `OwnPortKept` (`BindsWhereTold`), from `Inv`,
which follows the ports from the options to the socket, and lemmas that narrowing
keeps a number the narrower type holds.

**Filtered sequences** (`SequenceFilterProofs`). `Keep` is a recursive function, so
what it keeps takes an induction over sequences. The library's induction theorems
take an operator for the property, which the provers cannot instantiate; here the
property is the set of the numbers that have it, and `InductionTo` follows
from the minimum of a nonempty set under a well-founded relation (`Least`). From
it come the lemmas the other proofs cite: that `Keep` follows its recursion
(`KeepFollows`), hence what it does with one element more (`KeepAppend`), and what
its elements are (`KeepType`).

Only model-checked: liveness (`EveryPduHandled`, `EndIsNoticed`,
`ConnectionFreesServer`, `DestructionEnds`), which is beyond the prover. Every
invariant and refinement of the passing runs is the statement of a theorem.

## 5. Abstractions

* Message octets, KPM headers and contents, PLMN and node identifiers, wording
  of logs: no property tells them apart. Failing to decode or to encode is kept
  as a step. The kind of list in a service update (added, deleted, modified, by
  `RAN_FUNCTION_OP_TYPE`) is left out of its record; that with `DELETE` its ID is
  uninitialised, so that the update may not be encodable, is kept.
* The options `gnb_id` and `plmn_id` are read and passed on, but the setup request
  announces constants whatever they are.
* `e2ap_asn1c_decode_pdu` of an incomplete PDU is the message `undecodable`: one
  receive is taken for one message, as the code does.
* A report line is its key and the fates of its reports, instead of JSON.
* `alive` and `threads_` are shared without synchronisation. Reads of `alive` see
  its last value; an append that moves the vector under the destructor's loop
  ends in `JoinMoved`, which ends the process.
* `ViaviConnector!Init` begins when the constructor has returned. The server thread
  runs a moment earlier, from inside the constructor's `emplace_back`; a connection
  accepted in that moment would append to the vector while it is being filled, and
  one of the two thread objects may be lost. That race is left out, and
  `SafeDestruction` does not speak of it.
* Once the pipe's write end is closed, its number may be given to a new
  connection's socket. What a buffer writes then is lost in the model (it goes
  nowhere, or to the tester), and a service thread whose socket another closes is
  one whose tester ends.
* A line the main thread reads may hold pieces of several connections, cut into each
  other: the model has them, and no property excludes them, as nothing in the
  repository promises that the lines of two testers stay apart.
* Which function's callback a request without a function ID reaches is left to
  `FunctionIdsRead`: any registered one. Nothing promises what becomes of it.
* The simulator ends by SIGPIPE or by `exit` when a send fails; both are
  `exited`.
* `argc` of 0, for which the `switch` also ends the process, is left out: the
  program has a name.
* `E2Agent` starts from `gFuncId` and a connection that stands or fails, which is
  where `StartUp` ends.

## 6. Not modelled

* The repository has about 1.24 million lines. All but some 5,000 are ASN.1 code
  generated by asn1c (`e2sim/src/ASN1c/`) and older copies of simulator and
  generated code that nothing builds (`e2sim/previous/`). Generated code is table
  data and a codec library: there is no control of this program in it. The
  modules therefore cover the program and a vanishing share of all lines.
* `kpm/encode_kpm.cpp` and the body of the report loop between the read of a
  report and its send build ASN.1 values in a straight line.
* Code without a live caller: `e2ap_handle_RICSubscriptionDeleteRequest`, the
  control handlers, the node configuration update, the four-argument dispatcher,
  `wait_for_sctp_data`, the maps `sm_callbacks` and `callbackfunctions`, the
  server side of SCTP, `get_input_options`, the connector with a data callback.
  The dispatcher's cases that would call handlers are part of `LogOnly`.
* `print_parameters` and the logs.
* Several `E2Sim`s in one process, which would share the static flag: the program
  has one. Several functions registered with it: the program registers one.

## 7. Plan

Done: the agent with its contract, the scan, the connector with its abstract
source, the start; their runs; the proof of every safety property and refinement
the passing runs check, and for two of the violated statements the conditions
under which they hold.

What could follow, in this order:

1. A theorem of that kind for `UnknownFunctionIsAnswered`: with one registered
   function and requests for it alone, every request taken is answered.
2. That `E2Contract` by itself implies what a RIC relies on (an answer's request
   arrived before it, no answer to a later PDU comes first), which the agent
   then has through `KeepsContract`.
3. A module that runs `E2Agent` and `ViaviConnector` together step by step: at
   present they meet in `ReportSource`, which one implements and whose steps are
   the other's environment.
