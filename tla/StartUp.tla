------------------------------- MODULE StartUp -------------------------------
(***************************************************************************)
(* What happens before the agent of E2Agent stands: main reads the KPM     *)
(* function ID from the environment, read_input_options reads the command  *)
(* line, the options pass through run_loop's parameters, and               *)
(* sctp_start_client binds and connects the socket.  Numbers are narrowed  *)
(* three times on the way: by strtol to a long, to an int, to a uint16_t.  *)
(***************************************************************************)
EXTENDS Integers, Sequences

CONSTANTS Texts,         \* the texts an argument may be
          CommandLines,  \* the arguments the program may be given
          LongSize, IntSize, PortSize,  \* how many values these types have
          SctpPort, SourcePort,         \* X2AP_SCTP_PORT, RIC_SCTP_SRC_PORT
          DefaultIp, DefaultGnb, DefaultPlmn, NoText

\* number: what the digits at the start of a text say, where there are some;
\* address: inet_pton reads it.
ASSUME StartUpAssumption ==
  /\ Texts \subseteq [digits : BOOLEAN, number : Int, address : BOOLEAN]
  /\ NoText \notin Texts
  /\ CommandLines \subseteq Seq(Texts)
  /\ PortSize \in Nat /\ IntSize \in Nat /\ LongSize \in Nat
  /\ 1 < PortSize /\ 2 * PortSize <= IntSize /\ IntSize <= LongSize
  /\ IntSize % 2 = 0 /\ LongSize % 2 = 0
  /\ SctpPort \in 1 .. PortSize - 1 /\ SourcePort \in 1 .. PortSize - 1
  /\ {DefaultIp, DefaultGnb, DefaultPlmn} \subseteq Texts

Signed(size) == -(size \div 2) .. size \div 2 - 1
Ints  == Signed(IntSize)
Ports == 0 .. PortSize - 1

\* Two's complement; strtol, which takes a number too great to the nearest long;
\* and int(strtol(t)).
Wrap(n, size) == ((n + size \div 2) % size) - (size \div 2)
strtol(t) == IF ~t.digits THEN 0
             ELSE IF t.number < -(LongSize \div 2) THEN -(LongSize \div 2)
             ELSE IF t.number > LongSize \div 2 - 1 THEN LongSize \div 2 - 1
             ELSE t.number
IntRead(t) == Wrap(strtol(t), IntSize)

VARIABLES
  place,     \* where the process is
  args,      \* argv, without the program's name
  env,       \* RAN_FUNC_ID
  gFuncId,   \* the variable of that name
  label,     \* the case that the switch over argc has reached
  options,   \* read_input_options' result so far
  params,    \* run_loop's parameters
  bound,     \* the port the socket is bound to, 0 for none
  connected  \* where it is connected to: the last two of params

vars == <<place, args, env, gFuncId, label, options, params, bound, connected>>

Places  == {"main", "switch", "address", "socket", "bind", "connect", "connected", "exited"}
Options == [server_ip : Texts, server_port : Ints, gnb_id : Texts,
            client_port : Ints, plmn_id : Texts]
Params  == [server_ip : Texts, server_port : Ports, local_port : Ports]

Defaults == [server_ip |-> DefaultIp, server_port |-> SctpPort, gnb_id |-> DefaultGnb,
             client_port |-> SourcePort, plmn_id |-> DefaultPlmn]
NoParams == [server_ip |-> DefaultIp, server_port |-> 0, local_port |-> 0]

Init ==
  /\ place = "main" /\ args \in CommandLines /\ env \in Texts \cup {NoText}
  /\ gFuncId = 0 /\ label = 0 /\ options = Defaults /\ params = NoParams
  /\ bound = 0 /\ connected = NoParams

Goes(from, to) == place = from /\ place' = to

\* main: std::stoi throws, and nobody catches, when there are no digits or the
\* number is no int; then run_loop calls read_input_options.
ReadFunctionId ==
  /\ \/ env = NoText /\ Goes("main", "switch") /\ gFuncId' = 0
     \/ /\ env # NoText /\ env.digits /\ env.number \in Ints
        /\ Goes("main", "switch") /\ gFuncId' = env.number
     \/ /\ env # NoText /\ ~(env.digits /\ env.number \in Ints)
        /\ Goes("main", "exited") /\ UNCHANGED gFuncId
  /\ label' = Len(args) + 1
  /\ UNCHANGED <<args, env, options, params, bound, connected>>

-----------------------------------------------------------------------------
(* The switch of read_input_options: each case falls through to the next. *)

others == <<args, env, gFuncId, params, bound, connected>>

Case(k) == place = "switch" /\ label = k /\ label' = k - 1 /\ UNCHANGED others

ReadPlmn ==
  /\ Case(6) /\ options' = [options EXCEPT !.plmn_id = args[5]] /\ UNCHANGED place

\* Mutant of ReadClientPort: the case ends in a break.
ReadClientPortOnly ==
  /\ place = "switch" /\ label = 5 /\ label' = 1 /\ UNCHANGED others
  /\ options' = [options EXCEPT !.client_port = IntRead(args[4])] /\ UNCHANGED place

ReadClientPort ==
  /\ Case(5) /\ options' = [options EXCEPT !.client_port = IntRead(args[4])]
  /\ UNCHANGED place

ReadGnb ==
  /\ Case(4) /\ options' = [options EXCEPT !.gnb_id = args[3]] /\ UNCHANGED place

\* Mutant of ReadServerPort: any int is taken for a port.
ReadAnyPort ==
  /\ Case(3) /\ options' = [options EXCEPT !.server_port = IntRead(args[2])]
  /\ UNCHANGED place

ReadServerPort ==
  /\ Case(3) /\ options' = [options EXCEPT !.server_port = IntRead(args[2])]
  /\ place' = IF options'.server_port \in 1 .. PortSize - 1 THEN "switch" ELSE "exited"

ReadServerIp ==
  /\ Case(2) /\ options' = [options EXCEPT !.server_ip = args[1]] /\ UNCHANGED place

Unrecognized ==
  /\ label > 6 /\ Goes("switch", "exited") /\ UNCHANGED <<others, label, options>>

-----------------------------------------------------------------------------
(* run_loop and sctp_start_client *)

\* Mutant of PassOptions: the parameters are as wide as the options.
PassWide ==
  /\ label = 1 /\ Goes("switch", "address")
  /\ params' = [server_ip |-> options.server_ip, server_port |-> options.server_port,
                local_port |-> options.client_port]
  /\ UNCHANGED <<args, env, gFuncId, label, options, bound, connected>>

\* The call of the other run_loop, whose ports are uint16_t.
PassOptions ==
  /\ label = 1 /\ Goes("switch", "address")
  /\ params' = [server_ip   |-> options.server_ip,
                server_port |-> options.server_port % PortSize,
                local_port  |-> options.client_port % PortSize]
  /\ UNCHANGED <<args, env, gFuncId, label, options, bound, connected>>

before == <<args, env, gFuncId, label, options, params>>

ReadAddress ==
  /\ Goes("address", IF params.server_ip.address THEN "socket" ELSE "exited")
  /\ UNCHANGED <<before, bound, connected>>

\* socket and the two setsockopt: each may fail, which ends the process.
OpenSocket ==
  /\ Goes("socket", "bind") \/ Goes("socket", "exited")
  /\ UNCHANGED <<before, bound, connected>>

\* Mutant of Bind: the socket is left for connect to bind.
BindToAny ==
  /\ Goes("bind", "connect") /\ bound' \in Ports \ {0} /\ UNCHANGED <<before, connected>>

\* Bound to port 0, the socket gets one of the system's choice.
Bind ==
  /\ \/ /\ Goes("bind", "connect")
        /\ IF params.local_port = 0 THEN bound' \in Ports \ {0} ELSE bound' = params.local_port
     \/ Goes("bind", "exited") /\ UNCHANGED bound
  /\ UNCHANGED <<before, connected>>

Connect ==
  /\ \/ Goes("connect", "connected") /\ connected' = params
     \/ Goes("connect", "exited") /\ UNCHANGED connected
  /\ UNCHANGED <<before, bound>>

Next == \/ ReadFunctionId
        \/ ReadPlmn \/ ReadClientPort \/ ReadGnb \/ ReadServerPort \/ ReadServerIp
        \/ Unrecognized \/ PassOptions
        \/ ReadAddress \/ OpenSocket \/ Bind \/ Connect

Spec == Init /\ [][Next]_vars

-----------------------------------------------------------------------------
(* Properties *)

TypeOK ==
  /\ place \in Places /\ args \in CommandLines /\ env \in Texts \cup {NoText}
  /\ gFuncId \in Ints /\ label \in Nat
  /\ options \in Options /\ params \in Params
  /\ bound \in Ports /\ connected \in Params

\* The k-th argument, or what stands for it when there are fewer.
Given(k, default) == IF k <= Len(args) THEN args[k] ELSE default

\* Once the switch is left, each option is what its argument says, where it was
\* given, whatever others were given: no case is skipped or entered too early.
OptionsAsGiven ==
  place \notin {"main", "switch", "exited"} =>
    /\ options.server_ip = Given(1, DefaultIp)
    /\ options.gnb_id = Given(3, DefaultGnb)
    /\ options.plmn_id = Given(5, DefaultPlmn)
    /\ options.client_port = IF Len(args) >= 4 THEN IntRead(args[4]) ELSE SourcePort
    /\ options.server_port = IF Len(args) >= 2 THEN IntRead(args[2]) ELSE SctpPort

\* A number the program can read as it stands: digits that fit an int.
Plain(t) == t.digits /\ t.number \in Ints

\* The agent connects to no other port than the one it was told, unless the
\* number was too wide for an int: none is reduced to 16 bits, or read from a
\* text without a number.
ConnectsWhereTold ==
  place = "connected" =>
    /\ connected.server_port # 0 /\ connected.server_ip = Given(1, DefaultIp)
    /\ Len(args) < 2 => connected.server_port = SctpPort
    /\ Len(args) >= 2 /\ (Plain(args[2]) \/ ~args[2].digits) =>
         args[2].digits /\ connected.server_port = args[2].number

\* Its own port, which nobody checks, is the one it was told if that is a port.
BindsWhereTold ==
  bound # 0 =>
    /\ Len(args) < 4 => bound = SourcePort
    /\ Len(args) >= 4 /\ args[4].digits /\ args[4].number \in Ports \ {0} =>
         bound = args[4].number

\* The option reader's message: valid ports are between 1 and 65535; hence the
\* agent connects to no port when it is told a number that is none.
InvalidPortsRefused ==
  place = "connected" /\ Len(args) >= 2 /\ args[2].digits => args[2].number \in Ports \ {0}
=============================================================================
