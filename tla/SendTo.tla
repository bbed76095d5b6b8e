------------------------------- MODULE SendTo -------------------------------
(***************************************************************************)
(* TcpServerBase::sendTo(): the loop that hands a message to a non-blocking*)
(* socket, in as many calls of send() as the socket's buffer makes it take.*)
(* A call that would block returns -1, and the loop subtracts what a call  *)
(* returned from pending whether it is a number of bytes or -1.            *)
(*                                                                         *)
(* A byte is named by its offset in the message; offsets below 0 are bytes *)
(* of whatever lies in front of it.                                        *)
(***************************************************************************)
EXTENDS Integers, Sequences

CONSTANTS
  Length,       \* of the message
  Room,         \* capacity of the socket's send buffer
  MaxRetries    \* bound: calls of send() that would block

ASSUME LengthAssumption  == Length \in Nat \ {0}
ASSUME RoomAssumption    == Room \in Nat \ {0}
ASSUME RetriesAssumption == MaxRetries \in Nat

VARIABLES
  pending,   \* as in the code
  out,       \* the bytes handed over so far, in order
  result,    \* "none" while the loop runs, then what sendTo() returned
  retries,   \* number of calls that would have blocked
  room,      \* free space in the send buffer
  broken     \* the connection is gone

sendVars == <<pending, out, result, retries, room, broken>>

Message == [i \in 1 .. Length |-> i - 1]

SendInit ==
  /\ pending = Length
  /\ out = <<>>
  /\ result = "none"
  /\ retries = 0
  /\ room \in 0 .. Room
  /\ broken = FALSE

\* The test of the loop.
Running == result = "none" /\ pending > 0

\* Mutant: more is taken than is left to send.
Transfer_Unlimited ==
  /\ Running /\ ~broken
  /\ \E n \in 1 .. room :
       /\ out' = out \o [i \in 1 .. n |-> (Length - pending) + i - 1]
       /\ pending' = pending - n
       /\ room' = room - n
  /\ UNCHANGED <<result, retries, broken>>

\* Mutant: pending is decremented by the size of the buffer.
Transfer_Overcounts ==
  /\ Running /\ ~broken
  /\ \E n \in 1 .. room :
       /\ n <= pending
       /\ out' = out \o [i \in 1 .. n |-> (Length - pending) + i - 1]
       /\ pending' = pending - (IF room <= pending THEN room ELSE n)
       /\ room' = room - n
  /\ UNCHANGED <<result, retries, broken>>

\* send() takes some of the bytes at the current offset.
Transfer ==
  /\ Running /\ ~broken
  /\ \E n \in 1 .. room :
       /\ n <= pending
       /\ out' = out \o [i \in 1 .. n |-> (Length - pending) + i - 1]
       /\ pending' = pending - n
       /\ room' = room - n
  /\ UNCHANGED <<result, retries, broken>>

\* send() returns -1 with EAGAIN or EWOULDBLOCK: pending -= -1.
WouldBlock ==
  /\ Running /\ ~broken
  /\ room = 0
  /\ retries < MaxRetries
  /\ pending' = pending + 1
  /\ retries' = retries + 1
  /\ UNCHANGED <<out, result, room, broken>>

\* send() returns -1 with any other error.
Fail ==
  /\ Running /\ broken
  /\ result' = "false"
  /\ UNCHANGED <<pending, out, retries, room, broken>>

Complete ==
  /\ result = "none" /\ pending = 0
  /\ result' = "true"
  /\ UNCHANGED <<pending, out, retries, room, broken>>

SendLoop == Transfer \/ WouldBlock \/ Fail \/ Complete

\* The peer acknowledges some bytes, or the connection breaks off.
Drain ==
  /\ room < Room
  /\ room' \in room + 1 .. Room
  /\ UNCHANGED <<pending, out, result, retries, broken>>

BreakOff ==
  /\ ~broken
  /\ broken' = TRUE
  /\ UNCHANGED <<pending, out, result, retries, room>>

SendNext == SendLoop \/ Drain \/ BreakOff

SendSpec == SendInit /\ [][SendNext]_sendVars

-----------------------------------------------------------------------------
(***************************************************************************)
(* Properties.                                                             *)
(***************************************************************************)

\* The variables have their types: pending, unsigned in the code, never goes
\* below zero.
SendTypeOK ==
  /\ pending \in Nat
  /\ out \in Seq(Int)
  /\ result \in {"none", "true", "false"}
  /\ retries \in 0 .. MaxRetries
  /\ room \in 0 .. Room
  /\ broken \in BOOLEAN

\* What sendTo() has handed over and what it still owes are the message and
\* one byte more for every call that would have blocked.
BytesOwed == Len(out) + pending = Length + retries

\* A message reported as sent has been handed over to its last byte: no byte
\* is left out (some may have gone twice).
SentMeansDelivered ==
  result = "true" => \A b \in 0 .. Length - 1 : \E i \in DOMAIN out : out[i] = b

\* The bytes handed over start at or before the message and go up one at a
\* time: a byte is never followed by one further on than the next.
NoByteSkipped ==
  \A i \in DOMAIN out :
    out[i] <= (IF i = 1 THEN 0 ELSE out[i - 1] + 1)

\* The peer receives the message as the manual lays it out, as many bytes as
\* its size field says and nothing else.
DeliversTheMessage ==
  /\ Len(out) <= Length
  /\ out = SubSeq(Message, 1, Len(out))
=============================================================================
