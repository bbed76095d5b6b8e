-------------------------- MODULE ClientListProofs --------------------------
(***************************************************************************)
(* ListInv is an inductive invariant of ClientList for every capacity and  *)
(* every set of descriptors, and ClientList implements ConnectionPool.     *)
(*                                                                         *)
(* The one fact that is not a matter of unfolding definitions is that the  *)
(* search of add() finds a free slot: if it went all the way round, every  *)
(* slot would be occupied, and by CountIsOccupancy count would be Size.    *)
(***************************************************************************)
EXTENDS ClientList, FiniteSetTheorems, TLAPS

USE SizeAssumption, SocketAssumption

LEMMA SlotFinite ==
  /\ IsFiniteSet(Slot)
  /\ Cardinality(Slot) = Size
BY FS_Interval DEF Slot

LEMMA OccupiedFinite ==
  /\ IsFiniteSet(Occupied)
  /\ Cardinality(Occupied) \in Nat
<1>1. Occupied \in SUBSET Slot
  BY DEF Occupied
<1>2. IsFiniteSet(Occupied)
  BY <1>1, SlotFinite, FS_Subset
<1>3. QED
  BY <1>2, FS_CardinalityType

\* A list with a count below its capacity has a free slot.
LEMMA RoomMeansFreeSlot ==
  ASSUME ListTypeOK, CountIsOccupancy, count < Size
  PROVE  \E i \in Slot : clients[i] = INVALID_SOCKET
<1>1. SUFFICES ASSUME \A i \in Slot : clients[i] # INVALID_SOCKET
               PROVE  FALSE
  OBVIOUS
<1>2. Occupied = Slot
  BY <1>1 DEF Occupied
<1>3. QED
  BY <1>2, SlotFinite DEF CountIsOccupancy, ListTypeOK

\* Every slot is some number of steps, at most Size, after slot n.
LEMMA SearchCoversSlots ==
  ASSUME NEW n \in Slot, NEW i \in Slot
  PROVE  \E k \in 1 .. Size : i = Advance(n, k)
<1>1. CASE i > n
  <2>1. /\ i - n \in 1 .. Size
        /\ i = Advance(n, i - n)
    BY <1>1 DEF Slot, Advance
  <2>2. QED
    BY <2>1
<1>2. CASE i <= n
  <2>1. /\ (i + Size) - n \in 1 .. Size
        /\ i = Advance(n, (i + Size) - n)
    BY <1>2 DEF Slot, Advance
  <2>2. QED
    BY <2>1
<1>3. QED
  BY <1>1, <1>2 DEF Slot

\* In an array with a free slot the search stops at a free slot.
LEMMA SearchFindsFree ==
  ASSUME NEW cl, NEW n \in Slot, NEW f \in Slot, cl[f] = INVALID_SOCKET,
         NEW m \in Slot, SearchStopsAt(cl, n, m)
  PROVE  cl[m] = INVALID_SOCKET
<1>1. PICK k \in 1 .. Size :
        /\ m = Advance(n, k)
        /\ cl[m] = INVALID_SOCKET \/ k = Size
        /\ \A j \in 1 .. k - 1 : cl[Advance(n, j)] # INVALID_SOCKET
  BY DEF SearchStopsAt
<1>2. PICK h \in 1 .. Size : f = Advance(n, h)
  BY SearchCoversSlots
<1>3. CASE k = Size
  <2>1. ~(h \in 1 .. k - 1)
    BY <1>1, <1>2
  <2>2. h = k
    BY <2>1, <1>2, <1>3
  <2>3. QED
    BY <2>2, <1>1, <1>2
<1>4. QED
  BY <1>1, <1>3

-----------------------------------------------------------------------------
(***************************************************************************)
(* The inductive invariant.                                                *)
(***************************************************************************)

LEMMA InitEstablishesListInv == ListInit => ListInv
<1>1. SUFFICES ASSUME ListInit PROVE ListInv
  OBVIOUS
<1>2. ListTypeOK
  BY <1>1 DEF ListInit, ListTypeOK, Slot
<1>3. Occupied = {}
  BY <1>1 DEF ListInit, Occupied
<1>4. CountIsOccupancy
  BY <1>1, <1>3, FS_EmptySet DEF ListInit, CountIsOccupancy
<1>5. FreeSlotReady /\ NoDuplicates
  BY <1>1, <1>3 DEF ListInit, FreeSlotReady, NoDuplicates, Slot
<1>6. QED
  BY <1>2, <1>4, <1>5 DEF ListInv

\* add() of a descriptor the list does not hold.
LEMMA AddPreservesListInv ==
  ASSUME ListInv, NEW s \in Socket \ Members, Add(s)
  PROVE  ListInv'
<1>1. /\ nfsix \in Slot /\ nfsix \notin Occupied
      /\ count \in 0 .. Size - 1
  BY DEF ListInv, ListTypeOK, FreeSlotReady, Full, Occupied, Add
<1>2. clients' \in [Slot -> Socket \cup {INVALID_SOCKET}]
  BY DEF ListInv, ListTypeOK, Add
<1>3. Occupied' = Occupied \cup {nfsix}
  BY <1>1 DEF ListInv, ListTypeOK, Occupied, Add
<1>4. Cardinality(Occupied') = Cardinality(Occupied) + 1
  BY <1>1, <1>3, OccupiedFinite, FS_AddElement
<1>5. CountIsOccupancy'
  BY <1>4 DEF ListInv, CountIsOccupancy, Add
<1>6. ListTypeOK'
  BY <1>1, <1>2 DEF ListInv, ListTypeOK, Add
<1>7. FreeSlotReady'
  <2>1. CASE count + 1 >= Size
    BY <2>1 DEF FreeSlotReady, Full, Add
  <2>2. CASE ~(count + 1 >= Size)
    <3>1. PICK m \in Slot : SearchStopsAt(clients', nfsix, m) /\ nfsix' = m
      BY <2>2 DEF Add
    <3>2. count' < Size
      BY <1>1, <2>2 DEF Add
    <3>3. \E f \in Slot : clients'[f] = INVALID_SOCKET
      <4>1. Cardinality(Occupied') < Size
        BY <3>2, <1>5 DEF CountIsOccupancy
      <4>2. Occupied' # Slot
        BY <4>1, SlotFinite
      <4>3. QED
        BY <4>2 DEF Occupied, Slot
    <3>4. clients'[nfsix'] = INVALID_SOCKET
      BY <3>1, <3>3, <1>1, SearchFindsFree
    <3>5. QED
      BY <3>4 DEF FreeSlotReady
  <2>3. QED
    BY <2>1, <2>2
<1>8. NoDuplicates'
  <2>1. \A i \in Occupied : clients'[i] = clients[i] /\ clients[i] # s
    BY <1>1 DEF Add, Members, ListInv, ListTypeOK, Occupied
  <2>2. clients'[nfsix] = s
    BY <1>1 DEF Add, ListInv, ListTypeOK
  <2>3. QED
    BY <1>3, <2>1, <2>2 DEF NoDuplicates, ListInv
<1>9. QED
  BY <1>5, <1>6, <1>7, <1>8 DEF ListInv

\* The tail of both removals, applied to an occupied slot.
LEMMA VacatePreservesListInv ==
  ASSUME ListInv, NEW i \in Occupied, Vacate(i)
  PROVE  ListInv'
<1>1. i \in Slot
  BY DEF Occupied
<1>2. Occupied' = Occupied \ {i}
  BY <1>1 DEF ListInv, ListTypeOK, Occupied, Vacate
<1>3. Cardinality(Occupied') = Cardinality(Occupied) - 1
  BY <1>2, OccupiedFinite, FS_RemoveElement
<1>4. CountIsOccupancy'
  BY <1>3 DEF ListInv, CountIsOccupancy, Vacate
<1>5. count >= 1
  <2>1. Cardinality(Occupied') \in Nat
    BY <1>2, OccupiedFinite, FS_RemoveElement, FS_CardinalityType
  <2>2. QED
    BY <1>3, <2>1, OccupiedFinite DEF ListInv, CountIsOccupancy
<1>6. ListTypeOK'
  BY <1>1, <1>5 DEF ListInv, ListTypeOK, Vacate
<1>7. FreeSlotReady'
  BY <1>1 DEF ListInv, ListTypeOK, FreeSlotReady, Vacate
<1>8. NoDuplicates'
  BY <1>1, <1>2 DEF ListInv, ListTypeOK, NoDuplicates, Vacate, Occupied
<1>9. QED
  BY <1>4, <1>6, <1>7, <1>8 DEF ListInv

\* remove(socket) and removeAt(ix) free an occupied slot.
LEMMA RemovalVacates ==
  /\ \A s \in Socket : Remove(s) => \E i \in Occupied : Vacate(i) /\ clients[i] = s
  /\ \A i \in Slot : RemoveAt(i) => i \in Occupied /\ Vacate(i)
BY DEF Remove, RemoveAt, Occupied

\* A step of the list is an add() of a new descriptor or empties a slot.
LEMMA StepCases ==
  ASSUME ListNext
  PROVE  \/ \E s \in Socket \ Members : Add(s)
         \/ \E i \in Occupied : Vacate(i)
BY RemovalVacates DEF ListNext

LEMMA NextPreservesListInv == ListInv /\ [ListNext]_listVars => ListInv'
<1>1. SUFFICES ASSUME ListInv, [ListNext]_listVars PROVE ListInv'
  OBVIOUS
<1>2. CASE ListNext
  BY <1>1, <1>2, StepCases, AddPreservesListInv, VacatePreservesListInv
<1>3. CASE UNCHANGED listVars
  BY <1>1, <1>3 DEF ListInv, ListTypeOK, CountIsOccupancy, FreeSlotReady,
                    NoDuplicates, Occupied, Full, listVars
<1>4. QED
  BY <1>1, <1>2, <1>3

\* The client list never loses step with its array: for every capacity and
\* every set of descriptors, count is the number of occupied slots, the slot
\* add() is going to overwrite is free, and no descriptor is held twice.
THEOREM ListInvariant == ListSpec => []ListInv
<1>1. ListInit => ListInv
  BY InitEstablishesListInv
<1>2. ListInv /\ [ListNext]_listVars => ListInv'
  BY NextPreservesListInv
<1>3. QED
  BY <1>1, <1>2, PTL DEF ListSpec

\* The variables keep their types; the index of the next slot is one.
THEOREM ListTypes == ListSpec => []ListTypeOK
<1>1. ListInv => ListTypeOK
  BY DEF ListInv
<1>2. QED
  BY <1>1, ListInvariant, PTL

\* full() and empty() tell the truth after any sequence of calls.
THEOREM CountHolds == ListSpec => []CountIsOccupancy
<1>1. ListInv => CountIsOccupancy
  BY DEF ListInv
<1>2. QED
  BY <1>1, ListInvariant, PTL

\* While there is room, the slot add() writes next is free.
THEOREM FreeSlotHolds == ListSpec => []FreeSlotReady
<1>1. ListInv => FreeSlotReady
  BY DEF ListInv
<1>2. QED
  BY <1>1, ListInvariant, PTL

-----------------------------------------------------------------------------
(***************************************************************************)
(* No client is overwritten.                                               *)
(***************************************************************************)

\* A step leaves a client in its slot or frees the slot: add() never replaces
\* one client with another, which would lose an open descriptor.
THEOREM AddNeverEvicts == ListSpec => NeverEvicts
<1> DEFINE Keeps == \A i \in Slot :
                      clients[i] # INVALID_SOCKET
                        => clients'[i] \in {clients[i], INVALID_SOCKET}
<1>1. ListInv /\ [ListNext]_listVars => Keeps
  <2>1. SUFFICES ASSUME ListInv, [ListNext]_listVars PROVE Keeps
    OBVIOUS
  <2>2. CASE UNCHANGED listVars
    BY <2>2 DEF listVars
  <2>3. ASSUME NEW s \in Socket \ Members, Add(s) PROVE Keeps
    <3>1. nfsix \in Slot /\ clients[nfsix] = INVALID_SOCKET
      BY <2>1, <2>3 DEF ListInv, ListTypeOK, FreeSlotReady, Add
    <3>2. QED
      BY <2>1, <2>3, <3>1 DEF Add, ListInv, ListTypeOK
  <2>4. ASSUME NEW i \in Occupied, Vacate(i) PROVE Keeps
    BY <2>1, <2>4 DEF Vacate, ListInv, ListTypeOK, Occupied
  <2>5. QED
    BY <2>1, <2>2, <2>3, <2>4, StepCases
<1>2. QED
  BY <1>1, ListInvariant, PTL DEF ListSpec, NeverEvicts

-----------------------------------------------------------------------------
(***************************************************************************)
(* The list implements a bounded set of sockets.                           *)
(***************************************************************************)

\* There are no more members than occupied slots.
LEMMA MembersWithinCount ==
  ASSUME ListInv
  PROVE  /\ IsFiniteSet(Members)
         /\ Cardinality(Members) <= count
<1> DEFINE slotToClient == [i \in Occupied |-> clients[i]]
<1>1. slotToClient \in Surjection(Occupied, Members)
  BY DEF Surjection, Members
<1>2. /\ IsFiniteSet(Members)
      /\ Cardinality(Members) <= Cardinality(Occupied)
  BY <1>1, OccupiedFinite, FS_Surjection
<1>3. QED
  BY <1>2 DEF ListInv, CountIsOccupancy

\* add() makes the new descriptor a member.
LEMMA AddJoins ==
  ASSUME ListInv, NEW s \in Socket \ Members, Add(s)
  PROVE  Members' = Members \cup {s}
<1>1. nfsix \in Slot /\ nfsix \notin Occupied
  BY DEF ListInv, ListTypeOK, FreeSlotReady, Occupied, Add
<1>2. /\ Occupied' = Occupied \cup {nfsix}
      /\ clients'[nfsix] = s
      /\ \A i \in Occupied : clients'[i] = clients[i]
  BY <1>1 DEF ListInv, ListTypeOK, Occupied, Add
<1>3. QED
  BY <1>1, <1>2 DEF Members

\* Freeing a slot takes its descriptor, and no other, out of the members.
LEMMA VacateLeaves ==
  ASSUME ListInv, NEW i \in Occupied, Vacate(i)
  PROVE  /\ clients[i] \in Members \cap Socket
         /\ Members' = Members \ {clients[i]}
<1>1. /\ Occupied' = Occupied \ {i}
      /\ \A j \in Occupied \ {i} : clients'[j] = clients[j]
  BY DEF ListInv, ListTypeOK, Occupied, Vacate
<1>2. \A j \in Occupied \ {i} : clients[j] # clients[i]
  BY DEF ListInv, NoDuplicates
<1>3. Members' = Members \ {clients[i]}
  BY <1>1, <1>2 DEF Members
<1>4. clients[i] \in Members \cap Socket
  BY DEF Members, ListInv, ListTypeOK, Occupied
<1>5. QED
  BY <1>3, <1>4

\* Seen as the set of its members, the list is a set of at most Size sockets
\* that grows and shrinks by one socket at a time: the array, count and
\* nfsix are an implementation of ConnectionPool.
THEOREM ListImplementsPool == ListSpec => ImplementsPool
<1>1. ListInit => Pool!Init
  BY DEF ListInit, Pool!Init, Members, Occupied
<1>2. ListInv /\ [ListNext]_listVars => [Pool!Next]_Members
  <2>1. SUFFICES ASSUME ListInv, [ListNext]_listVars
                 PROVE  Pool!Next \/ Members' = Members
    OBVIOUS
  <2>2. CASE UNCHANGED listVars
    BY <2>2 DEF listVars, Members, Occupied
  <2>3. ASSUME NEW s \in Socket \ Members, Add(s) PROVE Pool!Join(s)
    <3>1. count < Size
      BY <2>1, <2>3 DEF Add, Full, ListInv, ListTypeOK
    <3>2. Cardinality(Members) < Size
      BY <2>1, <3>1, MembersWithinCount, FS_CardinalityType DEF ListInv, ListTypeOK
    <3>3. Members' = Members \cup {s}
      BY <2>1, <2>3, AddJoins
    <3>4. QED
      BY <2>3, <3>2, <3>3 DEF Pool!Join, Pool!Cardinality, Cardinality
  <2>4. ASSUME NEW i \in Occupied, Vacate(i)
        PROVE  clients[i] \in Socket /\ Pool!Leave(clients[i])
    BY <2>1, <2>4, VacateLeaves DEF Pool!Leave
  <2>5. QED
    BY <2>1, <2>2, <2>3, <2>4, StepCases DEF Pool!Next
<1>3. QED
  BY <1>1, <1>2, ListInvariant, PTL DEF ListSpec, ImplementsPool, Pool!Spec
=============================================================================
