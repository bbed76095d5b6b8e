---------------------------- MODULE MCWebServer ----------------------------
(***************************************************************************)
(* Two clients; chunks of two bytes and files that are empty, one chunk    *)
(* long, and a chunk and a half.                                           *)
(***************************************************************************)
EXTENDS WebServer

CONSTANTS c1, c2

MCClient == {c1, c2}
MCSizes  == {0, 2, 3}
=============================================================================
