------------------------------- MODULE MCWifi -------------------------------
(***************************************************************************)
(* The station with and without WIFI_ADDR, and the access point of the     *)
(* default settings.                                                       *)
(***************************************************************************)
EXTENDS Wifi

Stations    == [mode : {"client"}, static : BOOLEAN]
AccessPoint == {[mode |-> "ap", static |-> TRUE]}
AllConfigs  == Stations \cup AccessPoint
=============================================================================
