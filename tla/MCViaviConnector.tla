--------------------------- MODULE MCViaviConnector ---------------------------
(* Small instances of ViaviConnector: two connections whose lines may cut into *)
(* each other, and three, which is as many as the destructor's vector needs to *)
(* grow in each way it can.                                                    *)
EXTENDS ViaviConnector

CONSTANTS c1, c2, c3

TwoConnections   == {c1, c2}
ThreeConnections == {c1, c2, c3}

\* For the streams: a line on each connection, and a cut line after the first.
LinePerConnection == [c \in TwoConnections |-> IF c = c1 THEN 3 ELSE 2]

\* For the ends: more pieces than the pipe holds.
TwoAndOne == [c \in TwoConnections |-> IF c = c1 THEN 2 ELSE 1]

\* For the threads: a piece on one connection.
OnePiece  == [c \in ThreeConnections |-> IF c = c1 THEN 1 ELSE 0]
==============================================================================
