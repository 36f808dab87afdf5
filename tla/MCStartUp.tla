------------------------------ MODULE MCStartUp ------------------------------
(* A small instance of StartUp: 4 ports, ints of 4 bits, longs of 6, and texts *)
(* on both sides of every boundary.                                            *)
EXTENDS StartUp

Text(n)  == [digits |-> TRUE, number |-> n, address |-> FALSE]
Word     == [digits |-> FALSE, number |-> 0, address |-> FALSE]
Address(n) == [digits |-> TRUE, number |-> n, address |-> TRUE]

\* 0, the least and the greatest port and one more; a negative number; numbers
\* that wrap to a port, and too great for a long.
Numbers == {Text(n) : n \in {-1, 0, 1, 3, 4, 18, 40}} \cup {Word}
Ids     == {Word, Text(1)}
Ips     == {Address(1), Word}

\* Every number of arguments, up to one too many.
FullLines == {<< ip, port, gnb, source, plmn, Word >> :
                ip \in Ips, port \in Numbers, gnb \in Ids, source \in Numbers, plmn \in Ids}
Lines     == {SubSeq(s, 1, n) : s \in FullLines, n \in 0 .. 6}
AllTexts  == Ips \cup Numbers \cup Ids

TheIp   == Address(1)
TheGnb  == Text(1)
ThePlmn == Text(3)
=============================================================================
