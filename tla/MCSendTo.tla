------------------------------ MODULE MCSendTo ------------------------------
(***************************************************************************)
(* A message of five bytes through a buffer of three: at least two calls   *)
(* of send(), with up to four that would block, enough to run back before  *)
(* the start of the message.                                               *)
(***************************************************************************)
EXTENDS SendTo
=============================================================================
