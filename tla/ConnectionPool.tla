--------------------------- MODULE ConnectionPool ---------------------------
(***************************************************************************)
(* What the client list of a server promises, without its array: a set of  *)
(* at most Size connected sockets, into which a new socket goes while      *)
(* there is room and out of which one socket at a time is taken.           *)
(* ClientList.tla (components/tcpserverbase/clientlist.cpp) implements it. *)
(***************************************************************************)
EXTENDS Naturals, FiniteSets

CONSTANTS Size, Socket

VARIABLE conns

Init == conns = {}

Join(s) ==
  /\ s \notin conns
  /\ Cardinality(conns) < Size
  /\ conns' = conns \cup {s}

Leave(s) ==
  /\ s \in conns
  /\ conns' = conns \ {s}

Next == \E s \in Socket : Join(s) \/ Leave(s)

Spec == Init /\ [][Next]_conns
=============================================================================
