---------------------------- MODULE MCTcpServer ----------------------------
(***************************************************************************)
(* Two clients of the command server.  The mv has id 12, and its first     *)
(* argument is 0.0: its second to fourth word, received by themselves,     *)
(* are a STOP.  Of the malformed messages one has an argument too many,    *)
(* one leaves off in the middle, and the last is what would complete it;   *)
(* only one of the clients writes such messages.  The receive buffer       *)
(* holds six words instead of 256, so that two requests overflow it.       *)
(***************************************************************************)
EXTENDS TcpServer

CONSTANTS c1, c2

MCClient  == {c1, c2}
OneClient == {c1}

One == 1065353216

Stops  == {<<12, 100, STOP>>}
Mvs    == {<<20, 12, MV, 0, One>>}
Dists  == {<<12, 100, ReadDist>>}
Alls   == {<<12, 100, ReadAll>>}

Malformed == {<<16, 100, STOP, One>>, <<12, 100>>, <<STOP>>}

AllForms  == [c \in MCClient |-> IF c = c1 THEN Stops \cup Mvs \cup Malformed ELSE Mvs]
Readings  == [c \in OneClient |-> Dists \cup Alls]

MCTuples  == {0, 12}
NoTuples  == {0}

\* Bytes 85 and 86 when the eleventh sensor is at 180 degrees (0x40490fdb)
\* and reads -1.0 (0xbf800000) or 0.05 (0x3d4ccccd).
MCStray == {64, 64 + 256 * 205}
=============================================================================
