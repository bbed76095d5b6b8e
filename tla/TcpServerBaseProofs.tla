------------------------ MODULE TcpServerBaseProofs ------------------------
(***************************************************************************)
(* The server task keeps its list and its descriptors together: for every  *)
(* number of slots, descriptors, connections and requests, and whatever    *)
(* the peers do between its steps.                                         *)
(*                                                                         *)
(* The list's own invariant comes from ClientListProofs: it is enough to   *)
(* show that every step of the server is a step ClientList allows, and for *)
(* that, that a descriptor accept() returns is not in the list already -   *)
(* which follows from ListedAreOpen, because accept() returns descriptors  *)
(* that were not open.                                                     *)
(***************************************************************************)
EXTENDS TcpServerBase, ClientListProofs

\* The part of the typing the argument needs.
Typing ==
  /\ ix \in Nat
  /\ conn \in [Socket -> {"none", "up", "fin", "reset"}]
  /\ unread \subseteq Socket

ServerInv ==
  /\ Typing
  /\ ListInv
  /\ ListedAreOpen
  /\ NoLiveClientLost
  /\ HandledIsListed

\* In the loop, the slot the loop is at exists.
LEMMA LoopSlot ==
  ASSUME ServerInv, InLoop
  PROVE  ix \in Slot
BY SizeAssumption DEF ServerInv, Typing, InLoop, ListInv, ListTypeOK, Slot

\* A client that is in the list at slot ix and removed, by position or by
\* value, leaves the members, and nobody else does.
LEMMA RemovalOfCurrent ==
  ASSUME ServerInv, ix \in Slot, Current \in Socket,
         RemoveAt(ix) \/ Remove(Current)
  PROVE  /\ ListNext
         /\ Current \in Members
         /\ Members' = Members \ {Current}
<1>1. ListInv
  BY DEF ServerInv
<1>2. PICK i \in Occupied : Vacate(i) /\ clients[i] = Current
  BY RemovalVacates DEF Current
<1>3. ListNext
  BY DEF ListNext
<1>4. QED
  BY <1>1, <1>2, <1>3, VacateLeaves

-----------------------------------------------------------------------------
(***************************************************************************)
(* The steps that touch the list or a descriptor.                          *)
(***************************************************************************)

LEMMA AcceptClientStep ==
  ASSUME ServerInv, AcceptClient
  PROVE  ListNext /\ ServerInv'
<1>1. PICK s \in Socket \ Open :
        Add(s) /\ conn' = [conn EXCEPT ![s] = "up"]
  BY DEF AcceptClient
<1>2. s \in Socket \ Members
  BY <1>1 DEF ServerInv, ListedAreOpen
<1>3. ListNext
  BY <1>1, <1>2 DEF ListNext
<1>4. ListInv'
  BY <1>3, NextPreservesListInv DEF ServerInv
<1>5. Members' = Members \cup {s}
  BY <1>1, <1>2, AddJoins DEF ServerInv
<1>6. Open' = Open \cup {s}
  BY <1>1 DEF ServerInv, Typing, Open
<1>7. Typing'
  BY <1>1 DEF ServerInv, Typing, AcceptClient, StartServing
<1>8. ListedAreOpen'
  BY <1>5, <1>6 DEF ServerInv, ListedAreOpen
<1>9. NoLiveClientLost'
  BY <1>1, <1>5, <1>6 DEF ServerInv, Typing, NoLiveClientLost
<1>10. HandledIsListed'
  BY DEF AcceptClient, StartServing, HandledIsListed
<1>11. QED
  BY <1>3, <1>4, <1>7, <1>8, <1>9, <1>10 DEF ServerInv

\* A client is closed and removed.
LEMMA DisconnectStep ==
  ASSUME ServerInv, ix \in Slot, Current \in Socket,
         Close(Current), RemoveAt(ix) \/ Remove(Current), NextSlot
  PROVE  ListNext /\ ServerInv'
<1>1. /\ ListNext
      /\ Members' = Members \ {Current}
  BY RemovalOfCurrent
<1>2. ListInv'
  BY <1>1, NextPreservesListInv DEF ServerInv
<1>3. /\ conn' = [conn EXCEPT ![Current] = "none"]
      /\ Open' = Open \ {Current}
  BY DEF ServerInv, Typing, Close, Open
<1>4. Typing'
  BY <1>3 DEF ServerInv, Typing, NextSlot, Close
<1>5. ListedAreOpen'
  BY <1>1, <1>3 DEF ServerInv, ListedAreOpen
<1>6. NoLiveClientLost'
  BY <1>1, <1>3 DEF ServerInv, Typing, NoLiveClientLost, Open
<1>7. HandledIsListed'
  BY DEF NextSlot, HandledIsListed
<1>8. QED
  BY <1>1, <1>2, <1>4, <1>5, <1>6, <1>7 DEF ServerInv

\* A client whose connection has broken off is removed and stays open.
LEMMA NotConnectedStep ==
  ASSUME ServerInv, NotConnected
  PROVE  ListNext /\ ServerInv'
<1>1. ix \in Slot
  BY LoopSlot DEF NotConnected
<1>2. /\ ListNext
      /\ Members' = Members \ {Current}
  BY <1>1, RemovalOfCurrent DEF NotConnected
<1>3. ListInv'
  BY <1>2, NextPreservesListInv DEF ServerInv
<1>4. conn' = conn /\ Open' = Open
  BY DEF NotConnected, socketVars, Open
<1>5. Typing'
  BY <1>4 DEF ServerInv, Typing, NotConnected, NextSlot, socketVars
<1>6. ListedAreOpen'
  BY <1>2, <1>4 DEF ServerInv, ListedAreOpen
<1>7. NoLiveClientLost'
  BY <1>2, <1>4 DEF ServerInv, NoLiveClientLost, NotConnected
<1>8. HandledIsListed'
  BY DEF NotConnected, NextSlot, HandledIsListed
<1>9. QED
  BY <1>2, <1>3, <1>5, <1>6, <1>7, <1>8 DEF ServerInv

\* A step that leaves the list alone and neither opens nor closes a
\* descriptor: connections may only get worse.
LEMMA ListUntouched ==
  ASSUME ServerInv, UNCHANGED listVars, Typing', HandledIsListed',
         \A s \in Socket : /\ conn[s] = "none" <=> conn'[s] = "none"
                           /\ conn[s] = "reset" => conn'[s] = "reset"
  PROVE  ServerInv'
<1>1. /\ Members' = Members
      /\ ListInv'
  BY NextPreservesListInv DEF ServerInv, listVars, Members, Occupied
<1>2. Open' = Open
  BY DEF Open
<1>3. ListedAreOpen' /\ NoLiveClientLost'
  BY <1>1, <1>2 DEF ServerInv, ListedAreOpen, NoLiveClientLost, Open
<1>4. QED
  BY <1>1, <1>3 DEF ServerInv

-----------------------------------------------------------------------------
(***************************************************************************)
(* Every step.                                                             *)
(***************************************************************************)

LEMMA InitEstablishesServerInv == Init => ServerInv
<1>1. SUFFICES ASSUME Init PROVE ServerInv
  OBVIOUS
<1>2. ListInv
  BY <1>1, InitEstablishesListInv DEF Init
<1>3. Members = {}
  BY <1>1 DEF Init, ListInit, Members, Occupied
<1>4. QED
  BY <1>1, <1>2, <1>3 DEF Init, ServerInv, Typing, ListedAreOpen,
                          NoLiveClientLost, HandledIsListed, Open

LEMMA ServerStep ==
  ASSUME ServerInv, [Next]_vars
  PROVE  ServerInv' /\ [ListNext]_listVars
<1>1. CASE AcceptClient
  BY <1>1, AcceptClientStep
<1>2. CASE NotConnected
  BY <1>2, NotConnectedStep
<1>3. CASE Hangup
  <2>1. ix \in Slot
    BY <1>3, LoopSlot DEF Hangup
  <2>2. QED
    BY <1>3, <2>1, DisconnectStep DEF Hangup, DisconnectClientByIndex, Current
<1>4. CASE Handle /\ ~UNCHANGED <<listVars, conn, unread>>
  <2>1. ix \in Slot
    BY <1>4 DEF Handle, ServerInv, HandledIsListed
  <2>2. Current \in Socket
    BY <1>4 DEF Handle, ServerInv, HandledIsListed, Members, Occupied,
                ListInv, ListTypeOK
  <2>3. Close(Current) /\ Remove(Current) /\ NextSlot
    BY <1>4 DEF Handle, DisconnectClient
  <2>4. QED
    BY <2>1, <2>2, <2>3, DisconnectStep
<1>5. CASE Handle /\ UNCHANGED <<listVars, conn, unread>>
  <2>1. Typing' /\ HandledIsListed'
    BY <1>5 DEF ServerInv, Typing, HandledIsListed, Handle, NextSlot
  <2>2. QED
    BY <1>5, <2>1, ListUntouched
<1>6. CASE Receive
  <2>1. ix \in Slot
    BY <1>6, LoopSlot DEF Receive
  <2>2. /\ UNCHANGED <<listVars, conn, ix>>
        /\ unread' \subseteq unread
    BY <1>6 DEF Receive
  <2>3. Current \in Members /\ Current' = Current /\ Members' = Members
    <3>1. Current \in unread /\ Current # INVALID_SOCKET
      BY <1>6, SocketAssumption DEF Receive, ServerInv, Typing
    <3>2. QED
      BY <2>1, <2>2, <3>1 DEF listVars, Current, Members, Occupied
  <2>4. Typing' /\ HandledIsListed'
    BY <2>1, <2>2, <2>3 DEF ServerInv, Typing, HandledIsListed
  <2>5. QED
    BY <2>2, <2>4, ListUntouched
<1>7. CASE Start \/ AcceptNobody \/ AcceptFails \/ EndOfLoop \/ SkipSlot \/ NoData
  <2>1. UNCHANGED <<listVars, conn, unread>>
    BY <1>7 DEF Start, AcceptNobody, AcceptFails, EndOfLoop, SkipSlot, NoData,
                socketVars
  <2>2. ix' \in Nat /\ task' # "handle"
    BY <1>7 DEF Start, AcceptNobody, AcceptFails, Dispose, EndOfLoop, SkipSlot,
                NoData, StartServing, NextSlot, ServerInv, Typing
  <2>3. Typing' /\ HandledIsListed'
    BY <2>1, <2>2 DEF ServerInv, Typing, HandledIsListed
  <2>4. QED
    BY <2>1, <2>3, ListUntouched
<1>8. CASE Peers \/ UNCHANGED vars
  <2>1. UNCHANGED <<listVars, taskVars>>
    BY <1>8 DEF Peers, Connect, AbortQueued, Send, HangUp, BreakOff, vars
  <2>2. /\ conn' \in [Socket -> {"none", "up", "fin", "reset"}]
        /\ \A s \in Socket : /\ conn[s] = "none" <=> conn'[s] = "none"
                             /\ conn[s] = "reset" => conn'[s] = "reset"
        /\ unread' \subseteq Socket
    BY <1>8 DEF Peers, Connect, AbortQueued, Send, HangUp, BreakOff, vars,
                socketVars, ServerInv, Typing
  <2>3. Typing' /\ HandledIsListed'
    BY <2>1, <2>2 DEF ServerInv, Typing, HandledIsListed, taskVars, listVars,
                      Current, Members, Occupied
  <2>4. QED
    BY <2>1, <2>2, <2>3, ListUntouched
<1>9. QED
  BY <1>1, <1>2, <1>3, <1>4, <1>5, <1>6, <1>7, <1>8
     DEF Next, ServerTask, AcceptClients, ServeClients

-----------------------------------------------------------------------------
LEMMA ServerInvariant == Spec => []ServerInv
<1>1. ServerInv /\ [Next]_vars => ServerInv'
  BY ServerStep
<1>2. QED
  BY <1>1, InitEstablishesServerInv, PTL DEF Spec

\* The queue keeps to its length, and its connections to their kinds.
LEMMA QueueStep ==
  ASSUME queue \in Seq({"ok", "aborted"}), Len(queue) <= Backlog, [Next]_vars
  PROVE  queue' \in Seq({"ok", "aborted"}) /\ Len(queue') <= Backlog
<1>1. CASE Connect
  BY <1>1, BacklogAssumption DEF Connect
<1>2. CASE AbortQueued
  <2>1. PICK i \in DOMAIN queue : queue' = [queue EXCEPT ![i] = "aborted"]
    BY <1>2 DEF AbortQueued
  <2>2. QED
    BY <2>1
<1>3. CASE AcceptClient
  <2>1. queue # <<>> /\ queue' = Tail(queue)
    BY <1>3 DEF AcceptClient
  <2>2. QED
    BY <2>1, BacklogAssumption
<1>4. CASE AcceptFails
  <2>1. queue' = <<>>
    BY <1>4 DEF AcceptFails, Dispose
  <2>2. QED
    BY <2>1, BacklogAssumption
<1>5. CASE ~(Connect \/ AbortQueued \/ AcceptClient \/ AcceptFails)
  <2>1. queue' = queue
    BY <1>5 DEF Next, Start, ServerTask, AcceptClients, ServeClients, Peers, AcceptNobody,
       EndOfLoop, SkipSlot, Receive, NoData, Hangup, NotConnected, Handle, Send, HangUp,
       BreakOff, vars, socketVars
  <2>2. QED
    BY <2>1
<1>6. QED
  BY <1>1, <1>2, <1>3, <1>4, <1>5

LEMMA TypesStep ==
  ASSUME ServerInv, ServerInv', TypeOK, [Next]_vars
  PROVE  TypeOK'
<1>1. conn' \in [Socket -> {"none", "up", "fin", "reset"}] /\ unread' \subseteq Socket
      /\ ix' \in Nat
  BY DEF ServerInv, Typing
<1>2. queue' \in Seq({"ok", "aborted"}) /\ Len(queue') <= Backlog
  BY QueueStep DEF TypeOK
<1>3. connects' \in 0 .. MaxConnects /\ sends' \in 0 .. MaxSends
  <2>1. CASE Connect
    BY <2>1, BoundsAssumption DEF Connect, TypeOK
  <2>2. CASE \E s \in Socket : Send(s)
    BY <2>2, BoundsAssumption DEF Send, TypeOK
  <2>3. CASE ~(Connect \/ \E s \in Socket : Send(s))
    <3>1. UNCHANGED boundVars
      BY <2>3 DEF Next, Start, ServerTask, AcceptClients, ServeClients, Peers, AcceptNobody,
         AcceptClient, AcceptFails, EndOfLoop, SkipSlot, Receive, NoData, Hangup,
         NotConnected, Handle, AbortQueued, HangUp, BreakOff, vars
    <3>2. QED
      BY <3>1 DEF boundVars, TypeOK
  <2>4. QED
    BY <2>1, <2>2, <2>3
<1>4. /\ sckt' \in {"listening", "closed"}
      /\ task' \in {"boot", "accept", "serve", "handle", "deleted"}
      /\ ix' \in {0, ix} \/ (ix' = ix + 1 /\ (InLoop \/ task = "handle"))
  <2>1. CASE Start \/ AcceptNobody \/ AcceptClient \/ AcceptFails
    BY <2>1 DEF TypeOK, Start, AcceptNobody, AcceptClient, AcceptFails, StartServing, Dispose
  <2>2. CASE EndOfLoop \/ SkipSlot \/ Receive \/ NoData \/ Hangup \/ NotConnected \/ Handle
    BY <2>2 DEF TypeOK, EndOfLoop, SkipSlot, Receive, NoData, Hangup, NotConnected, Handle,
       NextSlot
  <2>3. CASE Peers \/ UNCHANGED vars
    BY <2>3 DEF TypeOK, Peers, Connect, AbortQueued, Send, HangUp, BreakOff, vars, taskVars
  <2>4. QED
    BY <2>1, <2>2, <2>3 DEF Next, ServerTask, AcceptClients, ServeClients
<1>5. ix' \in 0 .. Size
  <2>1. InLoop \/ task = "handle" => ix \in Slot
    BY LoopSlot DEF ServerInv, HandledIsListed
  <2>2. QED
    BY <1>1, <1>4, <2>1, SizeAssumption DEF TypeOK, Slot
<1>6. ListTypeOK'
  BY DEF ServerInv, ListInv
<1>7. QED
  BY <1>1, <1>2, <1>3, <1>4, <1>5, <1>6 DEF TypeOK

\* The variables keep their types: the loop over the clients never runs past the
\* slots there are, and the queue never past its length.
THEOREM ServerTypes == Spec => []TypeOK
<1>1. Init => TypeOK
  BY SizeAssumption, BacklogAssumption, BoundsAssumption
  DEF Init, TypeOK, ListInit, ListTypeOK, Slot
<1>2. ServerInv /\ ServerInv' /\ TypeOK /\ [Next]_vars => TypeOK'
  BY TypesStep
<1>3. QED
  BY <1>1, <1>2, ServerInvariant, PTL DEF Spec

\* The server never reads from, answers or closes a descriptor that is not
\* open.
THEOREM ListedStayOpen == Spec => []ListedAreOpen
<1>1. ServerInv => ListedAreOpen
  BY DEF ServerInv
<1>2. QED
  BY <1>1, ServerInvariant, PTL

\* The server never loses a client whose connection is alive.
THEOREM LiveClientsAreKept == Spec => []NoLiveClientLost
<1>1. ServerInv => NoLiveClientLost
  BY DEF ServerInv
<1>2. QED
  BY <1>1, ServerInvariant, PTL

\* The handler is called only for a client that is still listed.
THEOREM HandlerServesListed == Spec => []HandledIsListed
<1>1. ServerInv => HandledIsListed
  BY DEF ServerInv
<1>2. QED
  BY <1>1, ServerInvariant, PTL

\* Every behaviour of the server is, for its list, one of ClientList: what is
\* proved of the list alone holds of it inside the server.
THEOREM ServerImplementsList == Spec => ImplementsList
<1>1. Init => ServerInv /\ ListInit
  BY InitEstablishesServerInv DEF Init
<1>2. ServerInv /\ [Next]_vars => ServerInv' /\ [ListNext]_listVars
  BY ServerStep
<1>3. QED
  BY <1>1, <1>2, PTL DEF Spec, ImplementsList, ListSpec
-----------------------------------------------------------------------------
(***************************************************************************)
(* Which clients the loop passes by.  serveClients() looks at the first    *)
(* count slots; a removal leaves a free slot among them wherever the       *)
(* client was, and lowers count.                                           *)
(***************************************************************************)

\* The slots the loop looks at, the free ones among them, and the clients'
\* slots it never comes to.
Visited    == 0 .. count - 1
Holes      == {i \in Visited : clients[i] = INVALID_SOCKET}
OutOfReach == {i \in Occupied : i >= count}

HolesMatch ==
  /\ Cardinality(OutOfReach) = Cardinality(Holes)
  /\ Holes = {} <=> \A s \in Members : InReach(s)
  /\ Full => \A s \in Members : InReach(s)

LEMMA VisitedFinite ==
  ASSUME ListInv
  PROVE  Visited \subseteq Slot /\ IsFiniteSet(Visited) /\ Cardinality(Visited) = count
<1>1. count \in 0 .. Size /\ count \in Int /\ count - 1 \in Int
  BY SizeAssumption DEF ListInv, ListTypeOK
<1>2. IsFiniteSet(Visited) /\ Cardinality(Visited) = count
  BY <1>1, FS_Interval DEF Visited
<1>3. QED
  BY <1>1, <1>2, SizeAssumption DEF Visited, Slot

\* The clients in the slots visited and the free slots among them are count
\* together, and so are those clients and the clients out of reach.
LEMMA AsManyHoles ==
  ASSUME ListInv
  PROVE  /\ IsFiniteSet(Holes) /\ IsFiniteSet(OutOfReach)
         /\ Cardinality(OutOfReach) = Cardinality(Holes)
<1> DEFINE Served == Visited \cap Occupied
<1>1. /\ Visited = Served \cup Holes /\ Served \cap Holes = {}
      /\ Occupied = Served \cup OutOfReach /\ Served \cap OutOfReach = {}
  BY VisitedFinite, SizeAssumption
  DEF Holes, OutOfReach, Occupied, Visited, Slot, ListInv, ListTypeOK
<1>2. IsFiniteSet(Visited) /\ IsFiniteSet(Occupied)
  BY VisitedFinite, OccupiedFinite
<1>3. IsFiniteSet(Served) /\ IsFiniteSet(Holes) /\ IsFiniteSet(OutOfReach)
  BY <1>2, FS_Subset DEF Holes, OutOfReach
<1>4. /\ Cardinality(Served) \in Nat /\ Cardinality(Holes) \in Nat
      /\ Cardinality(OutOfReach) \in Nat
  BY <1>3, FS_CardinalityType
<1> HIDE DEF Served
<1>5. Cardinality({}) = 0
  BY FS_EmptySet
<1>6. /\ Cardinality(Served \cup Holes)
           = Cardinality(Served) + Cardinality(Holes) - Cardinality(Served \cap Holes)
      /\ Cardinality(Served \cup OutOfReach)
           = Cardinality(Served) + Cardinality(OutOfReach)
               - Cardinality(Served \cap OutOfReach)
  BY <1>3, FS_Union, Zenon
<1>7. /\ Cardinality(Visited) = Cardinality(Served) + Cardinality(Holes)
      /\ Cardinality(Occupied) = Cardinality(Served) + Cardinality(OutOfReach)
  <2>1. /\ Cardinality(Visited) = Cardinality(Served) + Cardinality(Holes) - 0
        /\ Cardinality(Occupied) = Cardinality(Served) + Cardinality(OutOfReach) - 0
    BY <1>1, <1>5, <1>6, Zenon
  <2>2. QED
    BY <1>4, <2>1
<1>8. Cardinality(Visited) = Cardinality(Occupied)
  BY VisitedFinite DEF ListInv, CountIsOccupancy
<1>9. QED
  BY <1>3, <1>4, <1>7, <1>8

\* A member is in reach unless its slot is out of reach, and has one slot only.
LEMMA OutOfReachOnly ==
  ASSUME ListInv
  PROVE  (\A s \in Members : InReach(s)) <=> OutOfReach = {}
<1>1. count \in Int /\ \A i \in Slot : i \in Int
  BY SizeAssumption DEF ListInv, ListTypeOK, Slot
<1>2. ASSUME OutOfReach = {}, NEW s \in Members PROVE InReach(s)
  <2>1. PICK i \in Occupied : clients[i] = s
    BY <1>2 DEF Members
  <2>2. i \in Slot /\ i < count
    BY <1>1, <1>2, <2>1 DEF OutOfReach, Occupied
  <2>3. QED
    BY <2>1, <2>2 DEF InReach
<1>3. ASSUME \A s \in Members : InReach(s), NEW i \in OutOfReach PROVE FALSE
  <2>1. i \in Occupied /\ i >= count /\ clients[i] \in Members
    BY DEF OutOfReach, Members
  <2>2. PICK j \in Slot : j < count /\ clients[j] = clients[i]
    BY <1>3, <2>1 DEF InReach
  <2>3. j \in Occupied
    BY <2>1, <2>2 DEF Occupied
  <2>4. i = j
    BY <2>1, <2>2, <2>3 DEF ListInv, NoDuplicates
  <2>5. QED
    BY <1>1, <2>1, <2>2, <2>4 DEF Occupied
<1>4. QED
  BY <1>2, <1>3

LEMMA ListInvMatches ==
  ASSUME ListInv
  PROVE  HolesMatch
<1>1. /\ IsFiniteSet(Holes) /\ IsFiniteSet(OutOfReach)
      /\ Cardinality(OutOfReach) = Cardinality(Holes)
  BY AsManyHoles
<1>2. Holes = {} <=> OutOfReach = {}
  BY <1>1, FS_EmptySet
<1>3. Full => OutOfReach = {}
  BY SizeAssumption DEF Full, OutOfReach, Occupied, Slot, ListInv, ListTypeOK
<1>4. QED
  BY <1>1, <1>2, <1>3, OutOfReachOnly DEF HolesMatch

\* At every moment exactly as many clients are out of the loop's reach as
\* there are free slots among those it looks at: all are served just when the
\* clients fill the list from its start, which a full list always does.
THEOREM HolesHideAsMany == Spec => []HolesMatch
<1>1. ServerInv => HolesMatch
  BY ListInvMatches DEF ServerInv
<1>2. QED
  BY <1>1, ServerInvariant, PTL

\* A client that is lost from reach is, or is hidden by, a client that left.
HiddenByRemoval ==
  \A s \in Socket :
    InReach(s) /\ ~InReach(s)'
      => \E r \in Members : Members' = Members \ {r}

LEMMA AddHidesNobody ==
  ASSUME ListInv, NEW a \in Socket \ Members, Add(a), NEW s \in Socket, InReach(s)
  PROVE  InReach(s)'
<1>1. PICK i \in Slot : i < count /\ clients[i] = s
  BY DEF InReach
<1>2. nfsix # i /\ count' = count + 1 /\ clients' = [clients EXCEPT ![nfsix] = a]
  BY <1>1, SocketAssumption DEF Add, ListInv, FreeSlotReady
<1>3. clients'[i] = s /\ i < count'
  BY <1>1, <1>2, SizeAssumption DEF ListInv, ListTypeOK, Slot
<1>4. QED
  BY <1>1, <1>3 DEF InReach

LEMMA ListStepHides ==
  ASSUME ListInv, [ListNext]_listVars
  PROVE  HiddenByRemoval
<1>1. CASE UNCHANGED listVars
  BY <1>1 DEF listVars, HiddenByRemoval, InReach
<1>2. CASE \E a \in Socket \ Members : Add(a)
  BY <1>2, AddHidesNobody DEF HiddenByRemoval
<1>3. CASE \E i \in Occupied : Vacate(i)
  BY <1>3, VacateLeaves DEF HiddenByRemoval
<1>4. QED
  BY <1>1, <1>2, <1>3, StepCases

\* Once served, a client goes on being served until some client leaves: neither
\* a new client nor anything a peer does takes it out of the loop's reach.
THEOREM OnlyRemovalsHide == Spec => [][HiddenByRemoval]_vars
<1>1. ServerInv /\ [Next]_vars => HiddenByRemoval
  BY ServerStep, ListStepHides DEF ServerInv
<1>2. QED
  BY <1>1, ServerInvariant, PTL DEF Spec
-----------------------------------------------------------------------------
(***************************************************************************)
(* How the loop comes by: the steps on which Attended and its fairness     *)
(* rest.                                                                   *)
(***************************************************************************)

\* The loop has not been past slot i in this turn.
StillToCome(i) == task \in {"serve", "handle"} /\ ix <= i

\* The loop passes a slot it visits only from that slot, and if a client is
\* there, only after what it has sent has been received or when it has sent
\* nothing.
NoneIsPassedBy ==
  \A i \in Slot :
    i < count /\ StillToCome(i) /\ ~StillToCome(i)'
      => ix = i /\ (clients[i] \notin unread \/ task = "handle")

LEMMA NextPassesNone == ServerInv /\ [Next]_vars => NoneIsPassedBy
<1> SUFFICES ASSUME ServerInv, [Next]_vars, NEW i \in Slot,
                    i < count, StillToCome(i), ~StillToCome(i)'
             PROVE  ix = i /\ (clients[i] \notin unread \/ task = "handle")
  BY DEF NoneIsPassedBy
<1>1. /\ i \in Nat /\ ix \in Nat /\ count \in Nat /\ ix <= i
      /\ task \in {"serve", "handle"} /\ unread \subseteq Socket
  BY SizeAssumption DEF ServerInv, Typing, ListInv, ListTypeOK, Slot, StillToCome
<1>2. CASE SkipSlot \/ NoData \/ Hangup \/ NotConnected
  <2>1. NextSlot /\ Current \notin unread
    BY <1>1, <1>2, SocketAssumption DEF SkipSlot, NoData, Hangup, NotConnected
  <2>2. ix = i
    BY <1>1, <2>1 DEF NextSlot, StillToCome
  <2>3. QED
    BY <2>1, <2>2 DEF Current
<1>3. CASE Handle
  BY <1>1, <1>3 DEF Handle, NextSlot, StillToCome
<1>4. CASE Receive
  BY <1>1, <1>4 DEF Receive, StillToCome
<1>5. CASE Peers \/ UNCHANGED vars
  BY <1>5 DEF Peers, Connect, AbortQueued, Send, HangUp, BreakOff, vars, taskVars,
     StillToCome
<1>6. CASE Start \/ AcceptClients \/ EndOfLoop
  BY <1>1, <1>6 DEF Start, AcceptClients, AcceptNobody, AcceptClient, AcceptFails, EndOfLoop
<1>7. QED
  BY <1>2, <1>3, <1>4, <1>5, <1>6 DEF Next, ServerTask, ServeClients

\* Whatever happens to the others, the loop does not get past a client within its
\* reach before it has received what that client had sent.
THEOREM LoopPassesNone == Spec => [][NoneIsPassedBy]_vars
<1>1. QED
  BY ServerInvariant, NextPassesNone, PTL DEF Spec
=============================================================================
