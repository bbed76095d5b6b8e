----------------------------- MODULE ClientList -----------------------------
(***************************************************************************)
(* The fixed array in which a TcpServerBase keeps its clients'             *)
(* descriptors (components/tcpserverbase/clientlist.cpp).  The list keeps  *)
(* two redundant pieces of state next to the array: count, the number of   *)
(* occupied slots, and nfsix, the slot the next add() writes to without    *)
(* looking at what it holds.  Whether add() can overwrite a live client,   *)
(* and whether full() and empty() tell the truth, rests on how add() and   *)
(* the two removals keep the three in step.                                *)
(*                                                                         *)
(* A call that returns false changes nothing and is therefore no step.     *)
(***************************************************************************)
EXTENDS Naturals, FiniteSets

CONSTANTS
  Size,            \* capacity given to the constructor, a uint8_t
  Socket,          \* the descriptors accept() can return
  INVALID_SOCKET   \* what an empty slot holds

ASSUME SizeAssumption == Size \in 1 .. 255
ASSUME SocketAssumption == INVALID_SOCKET \notin Socket

VARIABLES
  clients,   \* the array
  count,     \* number of occupied slots
  nfsix      \* next free slot index

listVars == <<clients, count, nfsix>>

Slot == 0 .. Size - 1

(***************************************************************************)
(* What the callers see of the list.                                       *)
(***************************************************************************)
Occupied == {i \in Slot : clients[i] # INVALID_SOCKET}
Members  == {clients[i] : i \in Occupied}
Full     == count >= Size

ListInit ==
  /\ clients = [i \in Slot |-> INVALID_SOCKET]
  /\ count = 0
  /\ nfsix = 0

(***************************************************************************)
(* The search loop of add(): starting after slot n it advances one slot at *)
(* a time, wrapping around, and stops at the first free slot of array cl,  *)
(* or after Size steps, back at n.                                         *)
(***************************************************************************)
Advance(n, k) == IF n + k < Size THEN n + k ELSE n + k - Size

SearchStopsAt(cl, n, m) ==
  \E k \in 1 .. Size :
    /\ m = Advance(n, k)
    /\ cl[m] = INVALID_SOCKET \/ k = Size
    /\ \A j \in 1 .. k - 1 : cl[Advance(n, j)] # INVALID_SOCKET

\* Mutant: the search is left out when one slot remains (">= size - 1").
Add_EarlyReturn(s) ==
  /\ ~Full
  /\ clients' = [clients EXCEPT ![nfsix] = s]
  /\ count' = count + 1
  /\ IF count + 1 >= Size - 1
       THEN UNCHANGED nfsix
       ELSE \E m \in Slot : SearchStopsAt(clients', nfsix, m) /\ nfsix' = m

\* add(socket): write the slot nfsix points at, then move nfsix on unless
\* the list has just become full.
Add(s) ==
  /\ ~Full
  /\ clients' = [clients EXCEPT ![nfsix] = s]
  /\ count' = count + 1
  /\ IF count + 1 >= Size
       THEN UNCHANGED nfsix
       ELSE \E m \in Slot : SearchStopsAt(clients', nfsix, m) /\ nfsix' = m

\* Mutant: the freed slot is not remembered.
Vacate_KeepsIndex(i) ==
  /\ clients' = [clients EXCEPT ![i] = INVALID_SOCKET]
  /\ count' = count - 1
  /\ UNCHANGED nfsix

\* Mutant: the slot is freed but not counted as free.
Vacate_KeepsCount(i) ==
  /\ clients' = [clients EXCEPT ![i] = INVALID_SOCKET]
  /\ nfsix' = i
  /\ UNCHANGED count

\* The common tail of remove() and removeAt(): the freed slot is the next
\* one to be used.
Vacate(i) ==
  /\ clients' = [clients EXCEPT ![i] = INVALID_SOCKET]
  /\ nfsix' = i
  /\ count' = count - 1

\* remove(socket): the first slot that holds the socket is freed.
Remove(s) ==
  \E i \in Slot :
    /\ clients[i] = s
    /\ \A j \in 0 .. i - 1 : clients[j] # s
    /\ Vacate(i)

\* removeAt(ix): a free slot or an index out of range is left alone.
RemoveAt(i) ==
  /\ i \in Slot
  /\ clients[i] # INVALID_SOCKET
  /\ Vacate(i)

(***************************************************************************)
(* The list under any caller that adds a descriptor only while the list    *)
(* does not hold it: accept() never returns a descriptor that is open, and *)
(* the servers list open descriptors only (TcpServerBase!ListedAreOpen).   *)
(***************************************************************************)
ListNext ==
  \/ \E s \in Socket \ Members : Add(s)
  \/ \E s \in Socket : Remove(s)
  \/ \E i \in Slot : RemoveAt(i)

ListSpec == ListInit /\ [][ListNext]_listVars

-----------------------------------------------------------------------------
(***************************************************************************)
(* Properties.                                                             *)
(***************************************************************************)

\* The list's variables have their types; count fits its uint8_t.
ListTypeOK ==
  /\ clients \in [Slot -> Socket \cup {INVALID_SOCKET}]
  /\ count \in 0 .. Size
  /\ nfsix \in Slot

\* count, from which full() and empty() answer, is the number of slots that
\* hold a client, after any interleaving of add(), remove() and removeAt().
CountIsOccupancy == count = Cardinality(Occupied)

\* While the list is not full, the slot add() is going to overwrite is free.
FreeSlotReady == ~Full => clients[nfsix] = INVALID_SOCKET

\* No two slots hold the same descriptor, so that remove(socket) cannot leave
\* a closed descriptor behind in another slot.
NoDuplicates ==
  \A i, j \in Occupied : clients[i] = clients[j] => i = j

\* The invariant of the list: the conjunction the proofs show inductive.
ListInv == ListTypeOK /\ CountIsOccupancy /\ FreeSlotReady /\ NoDuplicates

\* A slot that holds a client keeps it until that client is removed: no add()
\* ever replaces one client with another (the descriptor would be lost
\* without being closed).
NeverEvicts ==
  [][\A i \in Slot :
       clients[i] # INVALID_SOCKET
         => clients'[i] \in {clients[i], INVALID_SOCKET}]_listVars

\* The array, its count and its free index implement a bounded set of sockets.
Pool == INSTANCE ConnectionPool WITH conns <- Members
ImplementsPool == Pool!Spec
=============================================================================
