---------------------------- MODULE StartUpProofs ----------------------------
(* Theorems about StartUp, for any widths of its numbers, any texts and any    *)
(* command lines.                                                              *)
EXTENDS StartUp, SequenceTheorems, TLAPS

-----------------------------------------------------------------------------
(* Narrowing. *)

LEMMA ModIn ==
  ASSUME NEW n \in Int, NEW s \in Nat, 0 < s
  PROVE  n % s \in 0 .. s - 1
BY SMT

LEMMA ModSame ==
  ASSUME NEW s \in Nat, 0 < s, NEW n \in 0 .. s - 1
  PROVE  n % s = n
BY SMT

LEMMA Halves ==
  ASSUME NEW s \in Nat, s % 2 = 0
  PROVE  s \div 2 \in Nat /\ 2 * (s \div 2) = s
BY SMT

\* Two's complement gives a number of the type, and leaves one of the type alone.
LEMMA WrapIn ==
  ASSUME NEW n \in Int, NEW s \in Nat, 0 < s, s % 2 = 0
  PROVE  Wrap(n, s) \in Signed(s) /\ (n \in Signed(s) => Wrap(n, s) = n)
<1> DEFINE h == s \div 2
<1>1. h \in Nat /\ 2 * h = s
  BY Halves
<1> HIDE DEF h
<1>2. (n + h) % s \in 0 .. s - 1
  BY <1>1, ModIn
<1>3. ((n + h) % s) - h \in -h .. h - 1
  BY <1>1, <1>2
<1>4. ASSUME n \in -h .. h - 1 PROVE ((n + h) % s) - h = n
  <2>1. n + h \in 0 .. s - 1
    BY <1>1, <1>4
  <2>2. (n + h) % s = n + h
    BY <2>1, ModSame
  <2>3. QED
    BY <1>1, <2>2
<1>5. QED
  BY <1>3, <1>4 DEF Wrap, Signed, h

\* Every port is an int, and 16 bits leave it alone.
LEMMA PortsFit ==
  /\ 0 \in Ports /\ Ports \subseteq Ints /\ SctpPort \in Ports /\ SourcePort \in Ports
  /\ \A n \in Int : n % PortSize \in Ports
  /\ \A n \in Ports : n % PortSize = n
<1>1. IntSize \div 2 \in Nat /\ 2 * (IntSize \div 2) = IntSize
  BY StartUpAssumption, Halves
<1>2. Ports \subseteq Ints
  BY <1>1, StartUpAssumption DEF Ports, Ints, Signed
<1>3. \A n \in Int : n % PortSize \in Ports
  BY StartUpAssumption, ModIn DEF Ports
<1>4. \A n \in Ports : n % PortSize = n
  BY StartUpAssumption, ModSame DEF Ports
<1>5. QED
  BY <1>2, <1>3, <1>4, StartUpAssumption DEF Ports

\* What the program reads is an int, and the number itself if that is an int.
LEMMA ReadInt ==
  ASSUME NEW t \in Texts
  PROVE  /\ IntRead(t) \in Ints
         /\ Plain(t) => IntRead(t) = t.number
         /\ ~t.digits => IntRead(t) = 0
<1> DEFINE i == IntSize \div 2  l == LongSize \div 2
<1>1. i \in Nat /\ 2 * i = IntSize /\ l \in Nat /\ 2 * l = LongSize /\ i <= l /\ 1 <= i
  <2>1. /\ IntSize \in Nat /\ IntSize % 2 = 0 /\ LongSize \in Nat /\ LongSize % 2 = 0
        /\ IntSize <= LongSize /\ 2 <= IntSize
    BY StartUpAssumption
  <2>2. i \in Nat /\ 2 * i = IntSize
    BY <2>1, Halves
  <2>3. l \in Nat /\ 2 * l = LongSize
    BY <2>1, Halves
  <2> HIDE DEF i, l
  <2>4. QED
    BY <2>1, <2>2, <2>3
<1>2. t.number \in Int /\ t.digits \in BOOLEAN
  BY StartUpAssumption
<1> HIDE DEF i, l
<1>3. strtol(t) \in Int
  BY <1>1, <1>2 DEF strtol, l
<1>4. Plain(t) => strtol(t) = t.number /\ strtol(t) \in Ints
  <2>1. Plain(t) => t.digits /\ -i <= t.number /\ t.number <= i - 1
    BY DEF Plain, Ints, Signed, i
  <2>2. Plain(t) => ~(t.number < -l) /\ ~(t.number > l - 1)
    BY <1>1, <1>2, <2>1
  <2>3. QED
    BY <2>1, <2>2 DEF strtol, Plain, l
<1>5. ~t.digits => strtol(t) = 0
  BY DEF strtol
<1>6. 0 \in Ints
  BY <1>1 DEF Ints, Signed, i
<1>7. /\ Wrap(strtol(t), IntSize) \in Signed(IntSize)
      /\ strtol(t) \in Signed(IntSize) => Wrap(strtol(t), IntSize) = strtol(t)
  BY <1>3, StartUpAssumption, WrapIn
<1>8. QED
  BY <1>4, <1>5, <1>6, <1>7 DEF IntRead, Ints

-----------------------------------------------------------------------------
(* The invariant: how far the switch has come says which options are read. *)

\* The case of option k - 1 lies behind.
Passed(k) == label < k /\ Len(args) >= k - 1

OptionsInv ==
  /\ options.server_ip = IF Passed(2) THEN args[1] ELSE DefaultIp
  /\ options.server_port = IF Passed(3) THEN IntRead(args[2]) ELSE SctpPort
  /\ options.gnb_id = IF Passed(4) THEN args[3] ELSE DefaultGnb
  /\ options.client_port = IF Passed(5) THEN IntRead(args[4]) ELSE SourcePort
  /\ options.plmn_id = IF Passed(6) THEN args[5] ELSE DefaultPlmn

Late == {"address", "socket", "bind", "connect", "connected"}

Inv ==
  /\ TypeOK
  /\ label <= Len(args) + 1
  /\ place = "main" => options = Defaults /\ bound = 0
  /\ place # "main" => OptionsInv
  /\ place \in Late \cup {"switch"} => options.server_port \in Ports \ {0}
  /\ place = "switch" => bound = 0
  /\ place \in Late \/ bound # 0 =>
       /\ label = 1
       /\ params = [server_ip   |-> options.server_ip,
                    server_port |-> options.server_port % PortSize,
                    local_port  |-> options.client_port % PortSize]
  /\ bound # 0 /\ params.local_port # 0 => bound = params.local_port
  /\ place = "connected" => connected = params

\* The arguments do not change.
LEMMA ArgumentTypes ==
  ASSUME args \in CommandLines
  PROVE  args \in Seq(Texts) /\ Len(args) \in Nat
         /\ \A k \in 1 .. Len(args) : args[k] \in Texts
<1>1. args \in Seq(Texts)
  BY StartUpAssumption
<1>2. QED
  BY <1>1, LenProperties, ElementOfSeq

LEMMA InitInv == Init => Inv
<1> SUFFICES ASSUME Init PROVE Inv
  OBVIOUS
<1>1. Defaults \in Options /\ NoParams \in Params
  BY StartUpAssumption, PortsFit DEF Defaults, Options, NoParams, Params
<1>2. Len(args) \in Nat
  BY ArgumentTypes DEF Init
<1>3. 0 \in Ints /\ 0 \in Ports
  BY PortsFit
<1>4. QED
  BY <1>1, <1>2, <1>3 DEF Init, Inv, TypeOK, Places, Late

\* A case reads its option and leaves the others; all are typed.
Reads(k) ==
  /\ options' \in Options
  /\ options'.server_ip = IF k = 2 THEN args[1] ELSE options.server_ip
  /\ options'.server_port = IF k = 3 THEN IntRead(args[2]) ELSE options.server_port
  /\ options'.gnb_id = IF k = 4 THEN args[3] ELSE options.gnb_id
  /\ options'.client_port = IF k = 5 THEN IntRead(args[4]) ELSE options.client_port
  /\ options'.plmn_id = IF k = 6 THEN args[5] ELSE options.plmn_id

LEMMA CaseInv ==
  ASSUME Inv, NEW k \in 2 .. 6, Case(k), Reads(k), place' \in {"switch", "exited"},
         place' = "switch" => options'.server_port \in Ports \ {0}
  PROVE  Inv'
<1>1. Len(args) \in Nat
  BY ArgumentTypes DEF Inv, TypeOK
<1>2. /\ place = "switch" /\ label = k /\ label' = k - 1 /\ bound = 0
      /\ UNCHANGED <<args, env, gFuncId, params, bound, connected>>
      /\ k <= Len(args) + 1
  BY DEF Case, others, Inv, Late
<1>3. OptionsInv'
  <2>1. \A j \in 2 .. 6 : Passed(j)' <=> Passed(j) \/ j = k
    BY <1>1, <1>2 DEF Passed
  <2>2. ~Passed(k)
    BY <1>2 DEF Passed
  <2>3. OptionsInv
    BY <1>2 DEF Inv
  <2>4. UNCHANGED args
    BY <1>2
  <2>5. options'.server_ip = IF Passed(2)' THEN args'[1] ELSE DefaultIp
    BY <2>1, <2>3, <2>4 DEF Reads, OptionsInv
  <2>6. options'.server_port = IF Passed(3)' THEN IntRead(args'[2]) ELSE SctpPort
    BY <2>1, <2>3, <2>4 DEF Reads, OptionsInv
  <2>7. options'.gnb_id = IF Passed(4)' THEN args'[3] ELSE DefaultGnb
    BY <2>1, <2>3, <2>4 DEF Reads, OptionsInv
  <2>8. options'.client_port = IF Passed(5)' THEN IntRead(args'[4]) ELSE SourcePort
    BY <2>1, <2>3, <2>4 DEF Reads, OptionsInv
  <2>9. options'.plmn_id = IF Passed(6)' THEN args'[5] ELSE DefaultPlmn
    BY <2>1, <2>3, <2>4 DEF Reads, OptionsInv
  <2>10. QED
    BY <2>5, <2>6, <2>7, <2>8, <2>9 DEF OptionsInv
<1>4. TypeOK'
  BY <1>2 DEF Inv, TypeOK, Places, Reads
<1>5. QED
  BY <1>1, <1>2, <1>3, <1>4 DEF Inv, Late

LEMMA SwitchInv ==
  ASSUME Inv, ReadPlmn \/ ReadClientPort \/ ReadGnb \/ ReadServerPort \/ ReadServerIp
  PROVE  Inv'
<1>1. /\ Len(args) \in Nat /\ \A k \in 1 .. Len(args) : args[k] \in Texts
      /\ options \in Options /\ label <= Len(args) + 1
  BY ArgumentTypes DEF Inv, TypeOK
<1>2. \A k \in 2 .. 6 : label = k => args[k - 1] \in Texts
  BY <1>1
<1>3. place = "switch" => options.server_port \in Ports \ {0}
  BY DEF Inv
<1>4. CASE ReadPlmn
  <2>1. Case(6) /\ UNCHANGED place /\ place = "switch" /\ label = 6
        /\ options' = [options EXCEPT !.plmn_id = args[5]]
    BY <1>4 DEF ReadPlmn, Case
  <2>2. Reads(6)
    BY <1>1, <1>2, <2>1 DEF Reads, Options
  <2>3. QED
    BY <1>3, <2>1, <2>2, CaseInv DEF Reads
<1>5. CASE ReadClientPort
  <2>1. Case(5) /\ UNCHANGED place /\ place = "switch" /\ label = 5
        /\ options' = [options EXCEPT !.client_port = IntRead(args[4])]
    BY <1>5 DEF ReadClientPort, Case
  <2>2. IntRead(args[4]) \in Ints
    BY <1>2, <2>1, ReadInt
  <2>3. Reads(5)
    BY <1>1, <2>1, <2>2 DEF Reads, Options
  <2>4. QED
    BY <1>3, <2>1, <2>3, CaseInv DEF Reads
<1>6. CASE ReadGnb
  <2>1. Case(4) /\ UNCHANGED place /\ place = "switch" /\ label = 4
        /\ options' = [options EXCEPT !.gnb_id = args[3]]
    BY <1>6 DEF ReadGnb, Case
  <2>2. Reads(4)
    BY <1>1, <1>2, <2>1 DEF Reads, Options
  <2>3. QED
    BY <1>3, <2>1, <2>2, CaseInv DEF Reads
<1>7. CASE ReadServerPort
  <2>1. /\ Case(3) /\ label = 3
        /\ options' = [options EXCEPT !.server_port = IntRead(args[2])]
        /\ place' = IF options'.server_port \in 1 .. PortSize - 1 THEN "switch" ELSE "exited"
    BY <1>7 DEF ReadServerPort, Case
  <2>2. IntRead(args[2]) \in Ints
    BY <1>2, <2>1, ReadInt
  <2>3. Reads(3)
    BY <1>1, <2>1, <2>2 DEF Reads, Options
  <2>4. place' = "switch" => options'.server_port \in Ports \ {0}
    BY <2>1 DEF Ports
  <2>5. QED
    BY <2>1, <2>3, <2>4, CaseInv
<1>8. CASE ReadServerIp
  <2>1. Case(2) /\ UNCHANGED place /\ place = "switch" /\ label = 2
        /\ options' = [options EXCEPT !.server_ip = args[1]]
    BY <1>8 DEF ReadServerIp, Case
  <2>2. Reads(2)
    BY <1>1, <1>2, <2>1 DEF Reads, Options
  <2>3. QED
    BY <1>3, <2>1, <2>2, CaseInv DEF Reads
<1>9. QED
  BY <1>4, <1>5, <1>6, <1>7, <1>8

\* Before and after the switch.
LEMMA OtherInv ==
  ASSUME Inv, ReadFunctionId \/ Unrecognized \/ PassOptions \/ ReadAddress \/ OpenSocket
              \/ Bind \/ Connect
  PROVE  Inv'
<1> USE DEF Inv, TypeOK, Places, Late
<1>1. Len(args) \in Nat /\ options \in Options
  BY ArgumentTypes
<1>2. CASE ReadFunctionId
  <2>1. /\ place = "main" /\ place' \in {"switch", "exited"} /\ label' = Len(args) + 1
        /\ gFuncId' \in Ints /\ bound = 0
        /\ UNCHANGED <<args, env, options, params, bound, connected>>
    BY <1>2, PortsFit DEF ReadFunctionId, Goes
  <2>2. \A k \in 2 .. 6 : ~Passed(k)'
    BY <1>1, <2>1 DEF Passed
  <2>3. options' = Defaults
    BY <2>1
  <2>4. OptionsInv'
    BY <2>2, <2>3 DEF OptionsInv, Defaults
  <2>5. options'.server_port \in Ports \ {0}
    BY <2>3, PortsFit, StartUpAssumption DEF Defaults
  <2>6. QED
    BY <1>1, <2>1, <2>4, <2>5
<1>3. CASE Unrecognized
  <2>1. /\ place = "switch" /\ place' = "exited"
        /\ UNCHANGED <<args, env, gFuncId, label, options, params, bound, connected>>
    BY <1>3 DEF Unrecognized, Goes, others
  <2>2. OptionsInv'
    BY <2>1 DEF OptionsInv, Passed
  <2>3. QED
    BY <2>1, <2>2
<1>4. CASE PassOptions
  <2>1. /\ place = "switch" /\ place' = "address" /\ label = 1 /\ bound = 0
        /\ params' = [server_ip   |-> options.server_ip,
                      server_port |-> options.server_port % PortSize,
                      local_port  |-> options.client_port % PortSize]
        /\ UNCHANGED <<args, env, gFuncId, label, options, bound, connected>>
    BY <1>4 DEF PassOptions, Goes
  <2>2. OptionsInv'
    BY <2>1 DEF OptionsInv, Passed
  <2>3. options.server_port \in Int /\ options.client_port \in Int
    BY <1>1 DEF Options, Ints, Signed
  <2>4. params' \in Params
    BY <1>1, <2>1, <2>3, PortsFit DEF Params, Options
  <2>5. QED
    BY <2>1, <2>2, <2>4
<1>5. CASE ReadAddress \/ OpenSocket
  <2>1. /\ place \in {"address", "socket"} /\ place' \in {"socket", "bind", "exited"}
        /\ UNCHANGED <<args, env, gFuncId, label, options, params, bound, connected>>
    BY <1>5 DEF ReadAddress, OpenSocket, Goes, before
  <2>2. OptionsInv'
    BY <2>1 DEF OptionsInv, Passed
  <2>3. QED
    BY <2>1, <2>2
<1>6. CASE Bind
  <2>1. /\ place = "bind" /\ place' \in {"connect", "exited"}
        /\ UNCHANGED <<args, env, gFuncId, label, options, params, connected>>
        /\ \/ UNCHANGED bound
           \/ params.local_port = 0 /\ bound' \in Ports \ {0}
           \/ params.local_port # 0 /\ bound' = params.local_port
    BY <1>6 DEF Bind, Goes, before
  <2>2. OptionsInv'
    BY <2>1 DEF OptionsInv, Passed
  <2>3. params.local_port \in Ports
    BY DEF Params
  <2>4. QED
    BY <2>1, <2>2, <2>3
<1>7. CASE Connect
  <2>1. /\ place = "connect" /\ place' \in {"connected", "exited"}
        /\ connected' \in {connected, params}
        /\ place' = "connected" => connected' = params
        /\ UNCHANGED <<args, env, gFuncId, label, options, params, bound>>
    BY <1>7 DEF Connect, Goes, before
  <2>2. OptionsInv'
    BY <2>1 DEF OptionsInv, Passed
  <2>3. QED
    BY <2>1, <2>2
<1>8. QED
  BY <1>2, <1>3, <1>4, <1>5, <1>6, <1>7

LEMMA NextInv == Inv /\ [Next]_vars => Inv'
<1> SUFFICES ASSUME Inv, [Next]_vars PROVE Inv'
  OBVIOUS
<1>1. CASE UNCHANGED vars
  BY <1>1 DEF Inv, TypeOK, OptionsInv, Passed, vars
<1>2. CASE Next
  BY <1>2, SwitchInv, OtherInv DEF Next
<1>3. QED
  BY <1>1, <1>2

-----------------------------------------------------------------------------
(* Theorems. *)

\* Every reachable state is well typed: what run_loop is passed are ports.
THEOREM TypeCorrect == Spec => []TypeOK
<1>1. Inv => TypeOK
  BY DEF Inv
<1>2. QED
  BY <1>1, InitInv, NextInv, PTL DEF Spec

LEMMA InvOptions == Inv => OptionsAsGiven
<1> SUFFICES ASSUME Inv, place \notin {"main", "switch", "exited"}
             PROVE  OptionsAsGiven
  BY DEF OptionsAsGiven
<1>1. Len(args) \in Nat
  BY ArgumentTypes DEF Inv, TypeOK
<1>2. label = 1 /\ OptionsInv
  BY DEF Inv, Late, TypeOK, Places
<1>3. \A k \in 2 .. 6 : Passed(k) <=> Len(args) >= k - 1
  BY <1>1, <1>2 DEF Passed
<1>4. QED
  BY <1>1, <1>2, <1>3 DEF OptionsInv, OptionsAsGiven, Given

\* However many arguments there are, the fall-through reads each one given and
\* no other.
THEOREM OptionsRead == Spec => []OptionsAsGiven
BY InitInv, NextInv, InvOptions, PTL DEF Spec

LEMMA InvConnects == Inv => ConnectsWhereTold
<1> SUFFICES ASSUME Inv, place = "connected"
             PROVE  ConnectsWhereTold
  BY DEF ConnectsWhereTold
<1>1. Len(args) \in Nat /\ \A k \in 1 .. Len(args) : args[k] \in Texts
  BY ArgumentTypes DEF Inv, TypeOK
<1>2. /\ connected.server_port = options.server_port % PortSize
      /\ connected.server_ip = options.server_ip
      /\ options.server_port \in Ports \ {0}
  BY DEF Inv, Late
<1>3. connected.server_port = options.server_port
  BY <1>2, PortsFit
<1>4. OptionsAsGiven
  BY InvOptions
<1>5. /\ options.server_ip = Given(1, DefaultIp)
      /\ options.server_port = IF Len(args) >= 2 THEN IntRead(args[2]) ELSE SctpPort
  BY <1>4 DEF OptionsAsGiven
<1>6. ASSUME Len(args) >= 2, Plain(args[2]) \/ ~args[2].digits
      PROVE  args[2].digits /\ connected.server_port = args[2].number
  <2>1. args[2] \in Texts
    BY <1>1, <1>6
  <2>2. IntRead(args[2]) = connected.server_port /\ connected.server_port # 0
    BY <1>2, <1>3, <1>5, <1>6
  <2>3. ~args[2].digits => IntRead(args[2]) = 0
    BY <2>1, ReadInt
  <2>4. Plain(args[2]) => IntRead(args[2]) = args[2].number
    BY <2>1, ReadInt
  <2>5. QED
    BY <1>6, <2>2, <2>3, <2>4 DEF Plain
<1>7. Len(args) < 2 => connected.server_port = SctpPort
  BY <1>1, <1>3, <1>5
<1>8. QED
  BY <1>2, <1>3, <1>5, <1>6, <1>7 DEF ConnectsWhereTold

\* A number that fits an int is connected to as it stands, or not at all.
THEOREM ServerPortKept == Spec => []ConnectsWhereTold
BY InitInv, NextInv, InvConnects, PTL DEF Spec

LEMMA InvBinds == Inv => BindsWhereTold
<1> SUFFICES ASSUME Inv, bound # 0
             PROVE  BindsWhereTold
  BY DEF BindsWhereTold
<1>1. Len(args) \in Nat /\ \A k \in 1 .. Len(args) : args[k] \in Texts
  BY ArgumentTypes DEF Inv, TypeOK
<1>2. /\ label = 1 /\ params.local_port = options.client_port % PortSize
      /\ params.local_port # 0 => bound = params.local_port
  BY DEF Inv
<1>3. place # "main"
  BY DEF Inv
<1>4. options.client_port = IF Len(args) >= 4 THEN IntRead(args[4]) ELSE SourcePort
  BY <1>1, <1>2, <1>3 DEF Inv, OptionsInv, Passed
<1>5. Len(args) < 4 => bound = SourcePort
  <2>1. SourcePort % PortSize = SourcePort /\ SourcePort # 0
    BY PortsFit, StartUpAssumption
  <2>2. QED
    BY <1>1, <1>2, <1>4, <2>1
<1>6. ASSUME Len(args) >= 4, args[4].digits, args[4].number \in Ports \ {0}
      PROVE  bound = args[4].number
  <2>1. args[4] \in Texts /\ Plain(args[4])
    BY <1>1, <1>6, PortsFit DEF Plain
  <2>2. IntRead(args[4]) = args[4].number
    BY <2>1, ReadInt
  <2>3. params.local_port = args[4].number
    BY <1>2, <1>4, <1>6, <2>2, PortsFit
  <2>4. QED
    BY <1>2, <1>6, <2>3
<1>7. QED
  BY <1>5, <1>6 DEF BindsWhereTold

\* The agent's own port, though never checked, is the one given if it is one.
THEOREM OwnPortKept == Spec => []BindsWhereTold
BY InitInv, NextInv, InvBinds, PTL DEF Spec
=============================================================================
