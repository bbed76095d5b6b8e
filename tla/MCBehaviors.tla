---------------------------- MODULE MCBehaviors ----------------------------
(***************************************************************************)
(* Two light sensors; the distance sensors as they are by default, the     *)
(* disabled ones and those that do not look ahead reduced to one each.     *)
(***************************************************************************)
EXTENDS Behaviors

MCLight      == 1 .. 2
MCDistAngles == <<"left", "front", "right", "off", "elsewhere">>
=============================================================================
