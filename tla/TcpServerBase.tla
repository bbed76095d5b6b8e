--------------------------- MODULE TcpServerBase ---------------------------
(***************************************************************************)
(* The task of a TcpServerBase (components/tcpserverbase/tcpserverbase.cpp)*)
(* from which both the command server (port 9000) and the web server (port *)
(* 80) inherit, with the clients it serves.  One task accepts connections  *)
(* into a ClientList and polls the clients in slot order; every call to    *)
(* the sockets library and to the handler of the subclass is a step of its *)
(* own, so that clients connect, send, close and break off in between.     *)
(*                                                                         *)
(* A descriptor is one of                                                  *)
(*   "none"    not open                                                    *)
(*   "up"      open, the peer is connected                                 *)
(*   "fin"     open, the peer has closed its side in order                 *)
(*   "reset"   open, the connection has broken off                         *)
(* The data of a client is abstracted to whether there is any unread: one  *)
(* recv() takes all of it, several requests included.                      *)
(***************************************************************************)
EXTENDS ClientList, Sequences

CONSTANTS
  Backlog,          \* connections the listening socket queues
  HandlerCloses,    \* TRUE for the web server, whose handler hangs up
  MaxConnects,      \* bound: connections ever requested
  MaxSends          \* bound: bursts of data ever sent

ASSUME BacklogAssumption == Backlog \in Nat \ {0}
ASSUME HandlerAssumption == HandlerCloses \in BOOLEAN
ASSUME BoundsAssumption  == MaxConnects \in Nat /\ MaxSends \in Nat

\* The list of ClientList is cliList.
VARIABLES
  sckt,        \* "listening" or "closed"
  task,        \* where the server task is
  ix,          \* the loop variable of serveClients()
  conn,        \* state of each descriptor
  unread,      \* descriptors with data to receive
  queue,       \* connections waiting for accept(): "ok" or "aborted"
  connects, sends   \* used up of the bounds

taskVars   == <<sckt, task, ix>>
socketVars == <<conn, unread, queue>>
boundVars  == <<connects, sends>>
vars       == <<listVars, taskVars, socketVars, boundVars>>

Open    == {s \in Socket : conn[s] # "none"}
Current == clients[ix]

Init ==
  /\ ListInit
  /\ sckt = "closed"
  /\ task = "boot"
  /\ ix = 0
  /\ conn = [s \in Socket |-> "none"]
  /\ unread = {}
  /\ queue = <<>>
  /\ connects = 0
  /\ sends = 0

(***************************************************************************)
(* Starting and ending.                                                    *)
(***************************************************************************)

\* dispose(): the listening socket is closed, with what waits in its queue,
\* and the task deletes itself.  The clients stay open and listed.
Dispose ==
  /\ sckt' = "closed"
  /\ queue' = <<>>
  /\ task' = "deleted"

\* start(): the socket may fail to open, bind or listen, and the task may
\* fail to be created while the socket listens; neither is tried again.
Start ==
  /\ task = "boot"
  /\ sckt = "closed"
  /\ \/ sckt' = "listening" /\ task' \in {"accept", "deleted"}
     \/ sckt' = "closed" /\ task' = "deleted"
  /\ UNCHANGED <<ix, listVars, socketVars, boundVars>>

(***************************************************************************)
(* acceptClients(), and the test for an empty list that follows it in      *)
(* serverTask().                                                           *)
(***************************************************************************)
StartServing ==
  /\ ix' = 0
  /\ task' = IF count' = 0 THEN "accept" ELSE "serve"

\* The list is full, or accept() would block: go on with the clients.
AcceptNobody ==
  /\ task = "accept"
  /\ Full \/ queue = <<>>
  /\ UNCHANGED <<sckt, listVars, socketVars, boundVars>>
  /\ StartServing

\* accept() returns a descriptor that was not open.
AcceptClient ==
  /\ task = "accept" /\ ~Full
  /\ queue # <<>> /\ Head(queue) = "ok"
  /\ \E s \in Socket \ Open :
       /\ Add(s)
       /\ conn' = [conn EXCEPT ![s] = "up"]
  /\ queue' = Tail(queue)
  /\ StartServing
  /\ UNCHANGED <<sckt, unread, boundVars>>

\* accept() fails with anything but EWOULDBLOCK: the connection it was about
\* to return was aborted, or no descriptor is left for it.
AcceptFails ==
  /\ task = "accept" /\ ~Full
  /\ queue # <<>>
  /\ Head(queue) = "aborted" \/ Open = Socket
  /\ Dispose
  /\ UNCHANGED <<ix, listVars, conn, unread, boundVars>>

(***************************************************************************)
(* serveClients(): one step per iteration, and one for the handler.        *)
(***************************************************************************)
\* The loop runs over the first count slots, wherever the clients are.
InLoop   == task = "serve" /\ ix < count

\* Mutant: the index is advanced twice.
NextSlot_Twice == ix' = ix + 2 /\ task' = "serve"

NextSlot == ix' = ix + 1 /\ task' = "serve"

\* Mutant: the loop over the clients starts again by itself.
EndOfLoop_Restarts ==
  /\ task = "serve" /\ ix >= count
  /\ ix' = 0
  /\ UNCHANGED <<task, sckt, listVars, socketVars, boundVars>>

EndOfLoop ==
  /\ task = "serve" /\ ix >= count
  /\ task' = "accept"
  /\ UNCHANGED <<ix, sckt, listVars, socketVars, boundVars>>

SkipSlot ==
  /\ InLoop
  /\ Current = INVALID_SOCKET
  /\ NextSlot
  /\ UNCHANGED <<sckt, listVars, socketVars, boundVars>>

\* recv() returns data, which goes to the handler of the subclass.
Receive ==
  /\ InLoop
  /\ Current \in unread
  /\ unread' = unread \ {Current}
  /\ task' = "handle"
  /\ UNCHANGED <<ix, sckt, listVars, conn, queue, boundVars>>

\* recv() has nothing yet.
NoData ==
  /\ InLoop
  /\ Current # INVALID_SOCKET
  /\ Current \notin unread
  /\ conn[Current] = "up"
  /\ NextSlot
  /\ UNCHANGED <<sckt, listVars, socketVars, boundVars>>

\* close(): the connection is gone with whatever it had not delivered.
Close(s) ==
  /\ conn' = [conn EXCEPT ![s] = "none"]
  /\ unread' = unread \ {s}

\* Mutant: the client is closed and left in the list.
DisconnectClientByIndex_StaysListed(i) ==
  /\ Close(clients[i])
  /\ UNCHANGED listVars

\* diconnectClientByIndex() and diconnectClient(): close, then remove, by
\* position or by value.
DisconnectClientByIndex(i) == Close(clients[i]) /\ RemoveAt(i)
DisconnectClient(s)        == Close(s) /\ Remove(s)

\* Mutant: an orderly close by the peer is treated as ENOTCONN is.
Hangup_Unclosed ==
  /\ InLoop
  /\ Current \in Socket \ unread
  /\ conn[Current] \in {"fin", "reset"}
  /\ RemoveAt(ix)
  /\ UNCHANGED <<conn, unread>>
  /\ NextSlot
  /\ UNCHANGED <<sckt, queue, boundVars>>

\* recv() returns 0 or an unexpected error.
Hangup ==
  /\ InLoop
  /\ Current \in Socket \ unread
  /\ conn[Current] \in {"fin", "reset"}
  /\ DisconnectClientByIndex(ix)
  /\ NextSlot
  /\ UNCHANGED <<sckt, queue, boundVars>>

\* recv() fails with ENOTCONN: the client is removed, not closed.
NotConnected ==
  /\ InLoop
  /\ Current \in Socket \ unread
  /\ conn[Current] = "reset"
  /\ RemoveAt(ix)
  /\ NextSlot
  /\ UNCHANGED <<sckt, socketVars, boundVars>>

\* handleRcvData() returns, if it ever does: the command server keeps the client,
\* the web server hangs up after a well-formed GET and keeps the client otherwise.
Handle ==
  /\ task = "handle"
  /\ \/ UNCHANGED <<listVars, conn, unread>>
     \/ HandlerCloses /\ DisconnectClient(Current)
  /\ NextSlot
  /\ UNCHANGED <<sckt, queue, boundVars>>

(***************************************************************************)
(* The peers.  A connection is requested only of a listening socket.       *)
(***************************************************************************)
Connect ==
  /\ sckt = "listening"
  /\ Len(queue) < Backlog /\ connects < MaxConnects
  /\ queue' = Append(queue, "ok")
  /\ connects' = connects + 1
  /\ UNCHANGED <<listVars, taskVars, conn, unread, sends>>

\* A peer gives up before its connection has been accepted.
AbortQueued ==
  /\ \E i \in DOMAIN queue :
       queue[i] = "ok" /\ queue' = [queue EXCEPT ![i] = "aborted"]
  /\ UNCHANGED <<listVars, taskVars, conn, unread, boundVars>>

Send(s) ==
  /\ conn[s] = "up" /\ sends < MaxSends
  /\ unread' = unread \cup {s}
  /\ sends' = sends + 1
  /\ UNCHANGED <<listVars, taskVars, conn, queue, connects>>

HangUp(s) ==
  /\ conn[s] = "up"
  /\ conn' = [conn EXCEPT ![s] = "fin"]
  /\ UNCHANGED <<listVars, taskVars, unread, queue, boundVars>>

BreakOff(s) ==
  /\ conn[s] \in {"up", "fin"}
  /\ conn' = [conn EXCEPT ![s] = "reset"]
  /\ unread' \in {unread, unread \ {s}}
  /\ UNCHANGED <<listVars, taskVars, queue, boundVars>>

-----------------------------------------------------------------------------
AcceptClients == AcceptNobody \/ AcceptClient \/ AcceptFails

\* Mutant: an iteration also ends the loop when there is nothing to receive.
ServeClients_StopsAtIdle ==
  \/ EndOfLoop \/ SkipSlot \/ Receive \/ Hangup \/ NotConnected \/ Handle
  \/ /\ InLoop /\ Current # INVALID_SOCKET /\ Current \notin unread
     /\ conn[Current] = "up"
     /\ task' = "accept"
     /\ UNCHANGED <<ix, sckt, listVars, socketVars, boundVars>>

ServeClients ==
  EndOfLoop \/ SkipSlot \/ Receive \/ NoData \/ Hangup \/ NotConnected \/ Handle

ServerTask == AcceptClients \/ ServeClients

Peers ==
  \/ Connect \/ AbortQueued
  \/ \E s \in Socket : Send(s) \/ HangUp(s) \/ BreakOff(s)

Next == Start \/ ServerTask \/ Peers

Spec == Init /\ [][Next]_vars

\* The server task runs at priority 5, above main, and outside the handler it
\* waits for nothing but delays.  The handler may stay for ever: sendTo() goes
\* round while a peer does not read, and waitStop() while the wheels are turning.
\* So nothing is assumed of Handle, nor of the peers.
FairSpec == Spec /\ WF_vars(Start) /\ WF_vars(task # "handle" /\ ServerTask)

-----------------------------------------------------------------------------
(***************************************************************************)
(* Properties.                                                             *)
(***************************************************************************)

\* The variables, the list's included, have their types.
TypeOK ==
  /\ ListTypeOK
  /\ sckt \in {"listening", "closed"}
  /\ task \in {"boot", "accept", "serve", "handle", "deleted"}
  /\ ix \in 0 .. Size
  /\ conn \in [Socket -> {"none", "up", "fin", "reset"}]
  /\ unread \subseteq Socket
  /\ queue \in Seq({"ok", "aborted"}) /\ Len(queue) <= Backlog
  /\ connects \in 0 .. MaxConnects
  /\ sends \in 0 .. MaxSends

\* Every descriptor in the list is open, so that serveClients() never reads
\* from, and never closes, a descriptor that belongs to somebody else.
ListedAreOpen == Members \subseteq Open

\* A descriptor the server has accepted and neither lists nor has closed
\* belongs to a connection that has broken off: no live client is lost.
NoLiveClientLost == \A s \in Open \ Members : conn[s] = "reset"

\* The handler works for a client that is still listed.
HandledIsListed == task = "handle" => ix \in Slot /\ Current \in Members

\* The server only does to its list what ClientList allows: it never adds a
\* descriptor the list holds, and never to a full list.
ImplementsList == ListSpec

\* A client in one of the first count slots: the loop comes by.
InReach(s) == \E i \in Slot : i < count /\ clients[i] = s

\* The handler of one client never returns.
HandlerStays == <>[](task = "handle")

\* Unless the handler of some client never returns: what the client in reach has
\* sent is received, and that it has gone is noticed, whatever connects, sends and
\* leaves meanwhile, unless a removal moves it out of reach or the task ends.
Attended ==
  \/ HandlerStays
  \/ \A s \in Socket :
    (InReach(s) /\ (s \in unread \/ conn[s] # "up"))
      ~> (~InReach(s) \/ (s \notin unread /\ conn[s] = "up") \/ task = "deleted")

\* Unless the handler of some client never returns: a waiting connection is taken
\* from the queue unless the list is full or the task ends.
QueueAttended ==
  HandlerStays \/ (queue # <<>> ~> (queue = <<>> \/ Full \/ task = "deleted"))

\* The two-way protocol of the manual: every request gets an answer, so what
\* a listed client sends is read as long as the server's task lives and comes back
\* from its handlers.  Clients in slots count and above are not read: see EndOfLoop.
EveryRequestRead ==
  \/ HandlerStays
  \/ \A s \in Socket :
    (s \in Members /\ s \in unread)
      ~> (s \notin unread \/ s \notin Members \/ task = "deleted")
=============================================================================
