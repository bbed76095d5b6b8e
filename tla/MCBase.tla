------------------------------- MODULE MCBase -------------------------------
(***************************************************************************)
(* Two tasks that command the base, one wheel of each kind.                *)
(***************************************************************************)
EXTENDS Base

CONSTANTS t1, t2, side, front

MCTask   == {t1, t2}
MCSide   == {side}
MCFront  == {front}

AllCommands  == {"stop", "set", "mv"}
StopsAndMvs  == {"stop", "mv"}
=============================================================================
