-------------------------- MODULE MCTcpServerBase --------------------------
(***************************************************************************)
(* A server with three slots and three descriptors that may accept four    *)
(* connections: the list fills, loses clients in the middle and fills      *)
(* again, a descriptor is used more than once, and the descriptors run out *)
(* once one of them has been removed without being closed.                 *)
(***************************************************************************)
EXTENDS TcpServerBase

CONSTANTS s1, s2, s3

MCSocket == {s1, s2, s3}
=============================================================================
