----------------------------- MODULE MCControl -----------------------------
(***************************************************************************)
(* Two commands of either server.  Counts wrap at six instead of 2^15, and *)
(* readings may be off by one on two wheels in opposite directions.        *)
(* Between two readings the wheels stand, drive backwards, or turn against *)
(* each other, which averages to zero.  A way of four steps takes one such *)
(* turn, within the range of the counter; the second half of mv stays in   *)
(* it if the first has stalled, and goes over its edge if not.  The text   *)
(* of the distance sensors names nine of sixteen, with gaps, that of the   *)
(* light sensors one of the first two; two floor sensors have the same     *)
(* place, and one has a place that is not on the floor.  The answer is two *)
(* bytes long, the size of the buffer, which may be full or half full at   *)
(* first, and one call of send() may block.                                *)
(***************************************************************************)
EXTENDS Control

Wheels(a, b) == [front |-> a, back |-> b, left |-> a, right |-> b]
MCErrors   == {Wheels(0, 0), Wheels(1, -1)}
MCMotions  == {Wheels(0, 0), Wheels(-4, 4), Wheels(-4, -4)}
MCWays     == {[turn |-> 4, drive |-> -4]}
MCConfigs  == {
  [dist  |-> <<120, 90, -1, 30, 0, 330, -1, -1, 300>>,
   light |-> <<-1, 45>>,
   floor |-> <<3, 1, 1, 7>>]}
MCFailures == {{}, {2, 8}, 0 .. 15}
=============================================================================
