--------------------------- MODULE ControlProofs ---------------------------
(***************************************************************************)
(* What a movement makes of the wheels and the time it has, and what the   *)
(* web server's commands make of a movement, for counters of any width,    *)
(* readings of any error, wheels that turn in any way and any commands;    *)
(* before that, what sendTo() has handed over when it returns true, for a  *)
(* message of any length, a buffer of any size and any number of calls     *)
(* that would block; and at the end what the sensors command answers, for  *)
(* any texts of the configuration and any transfers that fail.             *)
(***************************************************************************)
EXTENDS Control, FiniteSetTheorems, TLAPS

-----------------------------------------------------------------------------
(***************************************************************************)
(* sendTo().                                                               *)
(***************************************************************************)
USE LengthAssumption, RoomAssumption, RetriesAssumption

\* Every byte of the message before the current offset has been handed over.
HandedOver ==
  \A b \in 0 .. Length - pending - 1 : \E i \in DOMAIN out : out[i] = b

\* The current offset is at most one past the byte handed over last.
OffsetFollows == Length - pending <= (IF Len(out) = 0 THEN 0 ELSE out[Len(out)] + 1)

SendInv ==
  /\ SendTypeOK
  /\ BytesOwed
  /\ HandedOver
  /\ NoByteSkipped /\ OffsetFollows
  /\ result = "true" => pending = 0

LEMMA InitEstablishesSendInv == SendInit => SendInv
<1>1. SUFFICES ASSUME SendInit PROVE SendInv
  OBVIOUS
<1>2. out \in Seq(Int) /\ Len(out) = 0
  BY <1>1 DEF SendInit
<1>3. SendTypeOK /\ BytesOwed
  <2>1. SendTypeOK
    <3>1. broken \in BOOLEAN
      BY <1>1 DEF SendInit
    <3>2. QED
      BY <1>1, <1>2, <3>1 DEF SendInit, SendTypeOK
  <2>2. BytesOwed
    BY <1>1, <1>2 DEF SendInit, BytesOwed
  <2>3. QED
    BY <2>1, <2>2
<1>4. HandedOver
  <2>1. 0 .. Length - pending - 1 = {}
    BY <1>1 DEF SendInit
  <2>2. QED
    BY <2>1 DEF HandedOver
<1>5. NoByteSkipped /\ OffsetFollows
  BY <1>1, <1>2 DEF SendInit, NoByteSkipped, OffsetFollows
<1>6. QED
  BY <1>1, <1>3, <1>4, <1>5 DEF SendInit, SendInv

\* The one step that hands bytes over: it moves the offset past them.
LEMMA TransferPreservesSendInv ==
  ASSUME SendInv, Transfer
  PROVE  SendInv'
<1>1. PICK n \in 1 .. room :
        /\ n <= pending
        /\ out' = out \o [i \in 1 .. n |-> (Length - pending) + i - 1]
        /\ pending' = pending - n
        /\ room' = room - n
  BY DEF Transfer
<1> DEFINE chunk == [i \in 1 .. n |-> (Length - pending) + i - 1]
<1>2. /\ pending \in Nat /\ n \in Nat /\ out \in Seq(Int)
      /\ room \in 0 .. Room
  BY <1>1 DEF SendInv, SendTypeOK
<1>3. chunk \in Seq(Int) /\ Len(chunk) = n
  BY <1>2
<1>4. /\ out' \in Seq(Int)
      /\ Len(out') = Len(out) + n
      /\ \A i \in 1 .. Len(out) : out'[i] = out[i]
      /\ \A i \in 1 .. n : out'[Len(out) + i] = chunk[i]
      /\ Len(out) \in Nat
      /\ DOMAIN out = 1 .. Len(out)
      /\ DOMAIN out' = 1 .. Len(out')
  <2> HIDE DEF chunk
  <2>1. QED
    BY <1>1, <1>2, <1>3 DEF chunk
<1>5. SendTypeOK'
  BY <1>1, <1>2, <1>4 DEF Transfer, SendInv, SendTypeOK
<1>6. BytesOwed'
  BY <1>1, <1>2, <1>4 DEF Transfer, SendInv, BytesOwed
<1>7. HandedOver'
  <2>1. SUFFICES ASSUME NEW b \in 0 .. Length - pending' - 1
                 PROVE  \E i \in DOMAIN out' : out'[i] = b
    BY DEF HandedOver
  <2>2. CASE b < Length - pending
    <3>1. PICK i \in DOMAIN out : out[i] = b
      BY <1>1, <1>2, <2>2 DEF SendInv, HandedOver
    <3>2. i \in DOMAIN out' /\ out'[i] = b
      BY <1>2, <1>4, <3>1
    <3>3. QED
      BY <3>2
  <2>3. CASE ~(b < Length - pending)
    <3> DEFINE j == b - (Length - pending) + 1
    <3>1. j \in 1 .. n /\ j \in Int /\ chunk[j] = b
      BY <1>1, <1>2, <2>3
    <3> HIDE DEF j, chunk
    <3>2. Len(out) + j \in DOMAIN out' /\ out'[Len(out) + j] = b
      BY <1>2, <1>4, <3>1
    <3>3. QED
      BY <3>2
  <2>4. QED
    BY <2>2, <2>3
<1>8. (result = "true" => pending = 0)'
  BY DEF Transfer, Running
<1>9. NoByteSkipped'
  <2>1. SUFFICES ASSUME NEW i \in 1 .. Len(out')
                 PROVE  out'[i] <= (IF i = 1 THEN 0 ELSE out'[i - 1] + 1)
    BY <1>4 DEF NoByteSkipped
  <2>2. CASE i <= Len(out)
    <3>1. i \in DOMAIN out /\ (i # 1 => i - 1 \in 1 .. Len(out))
      BY <1>4, <2>1, <2>2
    <3>2. out[i] <= (IF i = 1 THEN 0 ELSE out[i - 1] + 1)
      BY <3>1 DEF SendInv, NoByteSkipped
    <3>3. out'[i] = out[i] /\ (i # 1 => out'[i - 1] = out[i - 1])
      BY <1>4, <3>1
    <3>4. QED
      BY <3>2, <3>3
  <2>3. CASE i = Len(out) + 1
    <3>1. out'[i] = chunk[1] /\ chunk[1] = Length - pending
      BY <1>2, <1>4, <2>1, <2>3
    <3>2. chunk[1] <= (IF Len(out) = 0 THEN 0 ELSE out[Len(out)] + 1)
      BY <3>1 DEF SendInv, OffsetFollows
    <3> HIDE DEF chunk
    <3>3. Len(out) # 0 => out'[i - 1] = out[Len(out)]
      BY <1>4, <2>3
    <3>4. Len(out) \in Nat
      BY <1>4
    <3>5. CASE Len(out) = 0
      BY <2>3, <3>1, <3>2, <3>5
    <3>6. CASE Len(out) # 0
      <4>1. i # 1 /\ out'[i - 1] = out[Len(out)]
        BY <2>3, <3>3, <3>4, <3>6
      <4>2. QED
        BY <3>1, <3>2, <3>6, <4>1
    <3>7. QED
      BY <3>5, <3>6
  <2>4. CASE i > Len(out) + 1
    <3> DEFINE j == i - Len(out)
    <3>1. j \in 1 .. n /\ j - 1 \in 1 .. n /\ j \in Int /\ i # 1
          /\ i = Len(out) + j /\ i - 1 = Len(out) + (j - 1)
      BY <1>2, <1>4, <2>1, <2>4
    <3>2. chunk[j] = chunk[j - 1] + 1
      BY <1>2, <3>1
    <3> HIDE DEF j, chunk
    <3>3. out'[i] = chunk[j] /\ out'[i - 1] = chunk[j - 1]
      BY <1>4, <3>1
    <3>4. chunk[j] \in Int
      BY <1>3, <3>1
    <3>5. QED
      BY <3>1, <3>2, <3>3, <3>4
  <2>5. i \in Int /\ Len(out) \in Int
    BY <1>2, <1>4, <2>1
  <2>6. i <= Len(out) \/ i = Len(out) + 1 \/ i > Len(out) + 1
    BY <2>5
  <2>7. QED
    BY <2>2, <2>3, <2>4, <2>6
<1>10. OffsetFollows'
  <2>1. n \in 1 .. n /\ Len(out') # 0 /\ chunk[n] = Length - pending + n - 1
    BY <1>1, <1>2, <1>4
  <2>2. out'[Len(out')] = Length - pending + n - 1
    BY <1>4, <2>1
  <2>3. QED
    BY <1>1, <1>2, <2>1, <2>2 DEF OffsetFollows
<1>11. QED
  BY <1>5, <1>6, <1>7, <1>8, <1>9, <1>10 DEF SendInv

LEMMA NextPreservesSendInv == SendInv /\ [SendNext]_sendVars => SendInv'
<1>1. SUFFICES ASSUME SendInv, [SendNext]_sendVars PROVE SendInv'
  OBVIOUS
<1>2. CASE Transfer
  BY <1>1, <1>2, TransferPreservesSendInv
<1>3. CASE WouldBlock
  <2>1. /\ pending' = pending + 1 /\ pending \in Nat
        /\ UNCHANGED <<out, result, room, broken>>
        /\ result = "none"
    BY <1>1, <1>3 DEF WouldBlock, Running, SendInv, SendTypeOK
  <2>2. SendTypeOK' /\ BytesOwed'
    BY <1>1, <1>3, <2>1 DEF WouldBlock, SendInv, SendTypeOK, BytesOwed
  <2>3. 0 .. Length - pending' - 1 \subseteq 0 .. Length - pending - 1
    BY <2>1
  <2>4. HandedOver'
    BY <1>1, <2>1, <2>3 DEF SendInv, HandedOver
  <2>5. NoByteSkipped' /\ OffsetFollows'
    <3>1. pending' >= pending /\ UNCHANGED out /\ pending' \in Nat /\ pending \in Nat
      BY <2>1
    <3>2. Len(out) # 0 => out[Len(out)] \in Int
      BY <1>1 DEF SendInv, SendTypeOK
    <3>3. QED
      BY <1>1, <3>1, <3>2 DEF SendInv, NoByteSkipped, OffsetFollows
  <2>6. QED
    BY <2>1, <2>2, <2>4, <2>5 DEF SendInv
<1>4. CASE Fail \/ Complete \/ Drain \/ BreakOff \/ UNCHANGED sendVars
  <2>1. UNCHANGED <<pending, out, retries>>
    BY <1>4 DEF Fail, Complete, Drain, BreakOff, sendVars
  <2>2. SendTypeOK'
    <3>1. result' \in {"none", "true", "false"} /\ broken' \in BOOLEAN
      BY <1>1, <1>4 DEF Fail, Complete, Drain, BreakOff, sendVars, SendInv, SendTypeOK
    <3>2. room' \in 0 .. Room
      BY <1>1, <1>4 DEF Fail, Complete, Drain, BreakOff, sendVars, SendInv, SendTypeOK
    <3>3. QED
      BY <1>1, <2>1, <3>1, <3>2 DEF SendInv, SendTypeOK
  <2>3. BytesOwed' /\ HandedOver'
    BY <1>1, <2>1 DEF SendInv, BytesOwed, HandedOver
  <2>4. (result = "true" => pending = 0)'
    BY <1>1, <1>4, <2>1 DEF Fail, Complete, Drain, BreakOff, sendVars, SendInv
  <2>5. NoByteSkipped' /\ OffsetFollows'
    BY <1>1, <2>1 DEF SendInv, NoByteSkipped, OffsetFollows
  <2>6. QED
    BY <2>2, <2>3, <2>4, <2>5 DEF SendInv
<1>5. QED
  BY <1>1, <1>2, <1>3, <1>4 DEF SendNext, SendLoop

\* Types are respected; what has been handed over and what is owed add up to
\* the message and the calls that would have blocked; a message reported as
\* sent has been handed over to its last byte; and no byte is left out.
THEOREM SendToDelivers ==
  SendSpec => [](SendTypeOK /\ BytesOwed /\ SentMeansDelivered /\ NoByteSkipped)
<1>1. SendInit => SendInv
  BY InitEstablishesSendInv
<1>2. SendInv /\ [SendNext]_sendVars => SendInv'
  BY NextPreservesSendInv
<1>3. SendInv => SendTypeOK /\ BytesOwed /\ SentMeansDelivered /\ NoByteSkipped
  BY DEF SendInv, SendTypeOK, HandedOver, SentMeansDelivered
<1>4. QED
  BY <1>1, <1>2, <1>3, PTL DEF SendSpec

\* What is handed over as number i is byte i - 1 of the message, or one as far
\* in front of it as there have been calls that would have blocked.
SetBack == \A i \in DOMAIN out : i - 1 - retries <= out[i] /\ out[i] <= i - 1

\* So that the calls that would have blocked are all that keeps a message
\* reported as sent from being the message.
RetriesSpoil ==
  /\ SetBack
  /\ retries = 0 => DeliversTheMessage
  /\ result = "true" => (DeliversTheMessage <=> retries = 0)

LEMMA InitSetsBack == SendInit => SetBack
<1>1. SendInit => DOMAIN out = {}
  BY DEF SendInit
<1>2. QED
  BY <1>1 DEF SetBack

LEMMA NextSetsBack ==
  ASSUME SendInv, SetBack, [SendNext]_sendVars
  PROVE  SetBack'
<1>1. /\ pending \in Nat /\ out \in Seq(Int) /\ retries \in Nat /\ Length \in Nat
      /\ Len(out) \in Nat /\ Len(out) + pending = Length + retries
      /\ DOMAIN out = 1 .. Len(out) /\ \A i \in DOMAIN out : out[i] \in Int
  BY LengthAssumption, RetriesAssumption DEF SendInv, SendTypeOK, BytesOwed
<1>2. CASE Transfer
  <2>1. PICK n \in 1 .. room :
          /\ n <= pending
          /\ out' = out \o [i \in 1 .. n |-> (Length - pending) + i - 1]
    BY <1>2 DEF Transfer
  <2> DEFINE chunk == [i \in 1 .. n |-> (Length - pending) + i - 1]
  <2>2. n \in Nat /\ room \in 0 .. Room /\ retries' = retries
    BY <1>2, <2>1 DEF SendInv, SendTypeOK, Transfer
  <2>3. /\ chunk \in Seq(Int) /\ Len(chunk) = n
        /\ \A j \in 1 .. n : chunk[j] = Len(out) + j - 1 - retries
    BY <1>1, <2>2
  <2>4. /\ DOMAIN out' = 1 .. Len(out) + n
        /\ \A i \in 1 .. Len(out) : out'[i] = out[i]
        /\ \A j \in 1 .. n : out'[Len(out) + j] = chunk[j]
    <3> HIDE DEF chunk
    <3>1. QED
      BY <1>1, <2>1, <2>2, <2>3 DEF chunk
  <2> HIDE DEF chunk
  <2>5. ASSUME NEW i \in DOMAIN out'
        PROVE  i - 1 - retries <= out'[i] /\ out'[i] <= i - 1
    <3>1. CASE i <= Len(out)
      <4>1. i \in DOMAIN out /\ out'[i] = out[i]
        BY <1>1, <2>4, <2>5, <3>1
      <4>2. QED
        BY <4>1 DEF SetBack
    <3>2. CASE i > Len(out)
      <4>1. i - Len(out) \in 1 .. n /\ i = Len(out) + (i - Len(out)) /\ i \in Int
        BY <1>1, <2>2, <2>4, <2>5, <3>2
      <4>2. out'[i] = i - 1 - retries
        BY <1>1, <2>3, <2>4, <4>1
      <4>3. QED
        BY <1>1, <4>1, <4>2
    <3>3. QED
      BY <1>1, <2>2, <2>4, <2>5, <3>1, <3>2
  <2>6. QED
    BY <2>2, <2>5 DEF SetBack
<1>3. CASE WouldBlock
  <2>1. out' = out /\ retries' = retries + 1
    BY <1>3 DEF WouldBlock
  <2>2. ASSUME NEW i \in DOMAIN out
        PROVE  i - 1 - (retries + 1) <= out[i] /\ out[i] <= i - 1
    <3>1. i - 1 - retries <= out[i] /\ out[i] <= i - 1 /\ out[i] \in Int /\ i \in Int
      BY <1>1, <2>2 DEF SetBack
    <3>2. QED
      BY <1>1, <3>1
  <2>3. QED
    BY <2>1, <2>2 DEF SetBack
<1>4. CASE Fail \/ Complete \/ Drain \/ BreakOff \/ UNCHANGED sendVars
  <2>1. out' = out /\ retries' = retries
    BY <1>4 DEF Fail, Complete, Drain, BreakOff, sendVars
  <2>2. QED
    BY <2>1 DEF SetBack
<1>5. QED
  BY <1>2, <1>3, <1>4 DEF SendNext, SendLoop

LEMMA SetBackSpoils ==
  ASSUME SendInv, SetBack
  PROVE  RetriesSpoil
<1>1. /\ pending \in Nat /\ out \in Seq(Int) /\ retries \in Nat /\ Length \in Nat
      /\ Len(out) \in Nat /\ Len(out) + pending = Length + retries
      /\ DOMAIN out = 1 .. Len(out) /\ \A i \in DOMAIN out : out[i] \in Int
  BY LengthAssumption, RetriesAssumption DEF SendInv, SendTypeOK, BytesOwed
<1>2. ASSUME retries = 0 PROVE DeliversTheMessage
  <2>1. Len(out) <= Length
    BY <1>1, <1>2
  <2>2. ASSUME NEW i \in 1 .. Len(out) PROVE out[i] = i - 1
    <3>1. i - 1 - 0 <= out[i] /\ out[i] <= i - 1 /\ out[i] \in Int
      BY <1>1, <1>2, <2>2 DEF SetBack
    <3>2. QED
      BY <3>1
  <2>3. Message \in Seq(Int) /\ Len(Message) = Length
    BY <1>1 DEF Message
  <2>4. ASSUME NEW i \in 1 .. Len(out) PROVE Message[i] = i - 1
    BY <1>1, <2>1, <2>4 DEF Message
  <2> DEFINE front == SubSeq(Message, 1, Len(out))
  <2>5. front \in Seq(Int) /\ Len(front) = Len(out)
        /\ \A i \in 1 .. Len(out) : front[i] = Message[i]
    BY <1>1, <2>1, <2>3
  <2> HIDE DEF front
  <2>6. out = front
    <3>1. \A i \in 1 .. Len(out) : out[i] = front[i]
      BY <2>2, <2>4, <2>5
    <3>2. /\ out = [i \in 1 .. Len(out) |-> out[i]]
          /\ front = [i \in 1 .. Len(out) |-> front[i]]
      BY <1>1, <2>5
    <3>3. QED
      BY <3>1, <3>2, Zenon
  <2>7. QED
    BY <2>1, <2>6 DEF front, DeliversTheMessage
<1>3. ASSUME result = "true", DeliversTheMessage PROVE retries = 0
  <2>1. pending = 0
    BY <1>3 DEF SendInv
  <2>2. QED
    BY <1>1, <1>3, <2>1 DEF DeliversTheMessage
<1>4. QED
  BY <1>2, <1>3 DEF RetriesSpoil

\* The peer receives the message, byte for byte, as long as the socket takes
\* what it is given; every call that would have blocked sets what follows back
\* by a byte, so that a message reported as sent is the message just when there
\* was none, for every length, buffer and number of such calls.
THEOREM OnlyRetriesSpoil == SendSpec => []RetriesSpoil
<1>1. SendInit => SendInv /\ SetBack
  BY InitEstablishesSendInv, InitSetsBack
<1>2. SendInv /\ SetBack /\ [SendNext]_sendVars => SendInv' /\ SetBack'
  BY NextPreservesSendInv, NextSetsBack
<1>3. SendInv /\ SetBack => RetriesSpoil
  BY SetBackSpoils
<1>4. QED
  BY <1>1, <1>2, <1>3, PTL DEF SendSpec

-----------------------------------------------------------------------------
USE DEF Wheel, Encoders

-----------------------------------------------------------------------------
(***************************************************************************)
(* Numbers.                                                                *)
(***************************************************************************)
LEMMA AbsBounds ==
  ASSUME NEW x \in Int
  PROVE  Abs(x) \in Nat /\ x <= Abs(x) /\ -x <= Abs(x) /\ (Abs(x) = x \/ Abs(x) = -x)
BY DEF Abs

\* Each wheel is driven forwards, backwards or not at all.
LEMMA DirectionValues ==
  ASSUME NEW m \in Kind
  PROVE  /\ \A w \in Wheel : Direction[m][w] \in {-1, 0, 1}
         /\ Abs(Direction[m]["front"]) + Abs(Direction[m]["back"])
              + Abs(Direction[m]["left"]) + Abs(Direction[m]["right"]) = Driven(m)
         /\ Driven(m) \in {2, 4}
<1>1. CASE m = "rotate"
  BY <1>1 DEF Direction, Driven, Abs
<1>2. CASE m = "moveX"
  BY <1>2 DEF Direction, Driven, Abs
<1>3. CASE m = "moveY"
  BY <1>3 DEF Direction, Driven, Abs
<1>4. QED
  BY <1>1, <1>2, <1>3 DEF Kind

\* A wheel is as far from its goal as it looks, but for what the two readings are off.
LEMMA WheelNearGoal ==
  ASSUME NEW d \in {-1, 0, 1}, NEW c \in Int, NEW o \in Int, NEW e \in Int, NEW r \in Int,
         NEW s \in Int, NEW b \in Nat, Abs(r - c) <= b, Abs(e - o) <= b
  PROVE  /\ Abs(d) * Abs(c - o - d * s) <= Abs(d) * Abs(r - (e + d * s)) + 2 * b * Abs(d)
         /\ Abs(d) * Abs(c - o - d * s) \in Int
         /\ Abs(d) * Abs(r - (e + d * s)) \in Int
         /\ 2 * b * Abs(d) \in Int
<1>1. CASE d = 0
  BY <1>1 DEF Abs
<1>2. CASE d = 1
  BY <1>2 DEF Abs
<1>3. CASE d = -1
  BY <1>3 DEF Abs
<1>4. QED
  BY <1>1, <1>2, <1>3

\* What a wheel seems to have turned is what it has, but for the same.
LEMMA WheelReported ==
  ASSUME NEW d \in {-1, 0, 1}, NEW c \in Int, NEW o \in Int, NEW e \in Int, NEW r \in Int,
         NEW b \in Nat, Abs(r - c) <= b, Abs(e - o) <= b
  PROVE  Abs(d * (r - e) - d * (c - o)) <= 2 * b * Abs(d)
<1>1. CASE d = 0
  BY <1>1 DEF Abs
<1>2. CASE d = 1
  BY <1>2 DEF Abs
<1>3. CASE d = -1
  BY <1>3 DEF Abs
<1>4. QED
  BY <1>1, <1>2, <1>3

\* A reading of counts that fit into 16 bits is off by no more than Blur.
LEMMA ReadingIsNear ==
  ASSUME NEW c \in Encoders, InRange(c), NEW r \in Readings(c)
  PROVE  r \in Encoders /\ \A w \in Wheel : Abs(r[w] - c[w]) <= Blur
<1>1. PICK e \in Errors : r = [w \in Wheel |-> Int16(c[w] + e[w])]
  BY DEF Readings
<1>2. ASSUME NEW w \in Wheel
      PROVE  e[w] \in -Blur .. Blur /\ c[w] \in Int
  BY <1>1, ErrorsAssumption
<1>3. ASSUME NEW w \in Wheel
      PROVE  r[w] = c[w] + e[w] /\ r[w] \in Int /\ Abs(r[w] - c[w]) <= Blur
  <2>1. -Half <= c[w] - Blur /\ c[w] + Blur < Half
    BY DEF InRange
  <2>2. Int16(c[w] + e[w]) = c[w] + e[w]
    BY <1>2, <2>1, WidthAssumption DEF Int16
  <2>3. r[w] = c[w] + e[w]
    BY <1>1, <2>2
  <2>4. QED
    BY <1>2, <2>3, WidthAssumption DEF Abs
<1>4. QED
  BY <1>1, <1>3

\* Readings are numbers whatever the counts.
LEMMA ReadingsAreNumbers ==
  ASSUME NEW c \in Encoders
  PROVE  Readings(c) \subseteq Encoders
<1> SUFFICES ASSUME NEW e \in Errors
             PROVE  \A w \in Wheel : Int16(c[w] + e[w]) \in Int
  BY DEF Readings
<1> TAKE w \in Wheel
<1>1. c[w] + e[w] \in Int
  BY ErrorsAssumption, WidthAssumption
<1>2. QED
  BY <1>1, WidthAssumption DEF Int16

-----------------------------------------------------------------------------
(***************************************************************************)
(* A movement.                                                             *)
(***************************************************************************)
\* The first reading is as near as any to the counts when it was taken.
StartIsKnown ==
  ~lost /\ InRange(origin) => \A w \in Wheel : Abs(e0[w] - origin[w]) <= Blur

MvInv == MvTypeOK /\ StartIsKnown /\ ArrivedMeansThere /\ ReportIsTrue

USE DEF worldVars, taskVars

LEMMA CountsAreNumbers ==
  /\ NoCount \in Encoders
  /\ Motions \subseteq Encoders
  /\ \A a, b \in Encoders : Plus(a, b) \in Encoders
BY MotionsAssumption DEF NoCount, Plus

LEMMA SumIsNumber ==
  ASSUME NEW a \in Encoders, NEW b \in Encoders, NEW m \in Kind
  PROVE  Sum(a, Direction[m]) \in Int /\ Sum(Minus(a, b), Direction[m]) \in Int
<1>1. \A w \in Wheel : Direction[m][w] \in Int
  BY DirectionValues
<1>2. \A x, y \in Int : x * y \in Int
  OBVIOUS
<1>3. \A e \in Encoders : Sum(e, Direction[m]) \in Int
  BY <1>1, <1>2 DEF Sum
<1>4. Minus(a, b) \in Encoders
  BY DEF Minus
<1>5. QED
  BY <1>3, <1>4

LEMMA MvInitEstablishesInv == MvInit => MvInv
<1> SUFFICES ASSUME MvInit
             PROVE  MvInv
  OBVIOUS
<1>1. MvTypeOK
  <2>1. lost \in BOOLEAN
    BY DEF MvInit
  <2>2. QED
    BY <2>1 DEF MvInit, MvTypeOK, NoCount, Kind
<1>2. StartIsKnown
  BY WidthAssumption DEF MvInit, StartIsKnown, NoCount, Abs
<1>3. ArrivedMeansThere /\ ReportIsTrue
  BY DEF MvInit, ArrivedMeansThere, ReportIsTrue
<1>4. QED
  BY <1>1, <1>2, <1>3 DEF MvInv

\* What is read, and whether a loss is noted.
LEMMA ReadTells ==
  ASSUME MvTypeOK, NEW r \in Readings(count) \cup {NoCount}, Read(r)
  PROVE  /\ r \in Encoders /\ lost' \in BOOLEAN
         /\ ~lost' => ~lost
         /\ ~lost' /\ InRange(count) => \A w \in Wheel : Abs(r[w] - count[w]) <= Blur
<1>1. r \in Encoders
  BY ReadingsAreNumbers, CountsAreNumbers DEF MvTypeOK
<1>2. CASE r \in Readings(count) /\ UNCHANGED lost
  <2>1. lost' \in BOOLEAN /\ (~lost' => ~lost)
    BY <1>2 DEF MvTypeOK
  <2>2. InRange(count) => \A w \in Wheel : Abs(r[w] - count[w]) <= Blur
    BY <1>2, ReadingIsNear DEF MvTypeOK
  <2>3. QED
    BY <1>1, <2>1, <2>2
<1>3. CASE lost' = TRUE
  BY <1>1, <1>3
<1>4. QED
  BY <1>2, <1>3 DEF Read

\* Too small an error means having arrived.
LEMMA SmallErrorMeansThere ==
  ASSUME NEW m \in Kind, NEW c \in Encoders, NEW o \in Encoders, NEW e \in Encoders,
         NEW r \in Encoders, NEW s \in Int,
         \A w \in Wheel : Abs(r[w] - c[w]) <= Blur /\ Abs(e[w] - o[w]) <= Blur
  PROVE  LET off(w)  == Abs(Direction[m][w]) * Abs(c[w] - o[w] - Direction[m][w] * s)
             seen(w) == Abs(Direction[m][w]) * Abs(r[w] - (e[w] + Direction[m][w] * s))
         IN off("front") + off("back") + off("left") + off("right")
              <= seen("front") + seen("back") + seen("left") + seen("right")
                   + Driven(m) * (2 * Blur)
<1> DEFINE off(w)  == Abs(Direction[m][w]) * Abs(c[w] - o[w] - Direction[m][w] * s)
           seen(w) == Abs(Direction[m][w]) * Abs(r[w] - (e[w] + Direction[m][w] * s))
           part(w) == 2 * Blur * Abs(Direction[m][w])
<1>1. ASSUME NEW w \in Wheel
      PROVE  /\ off(w) <= seen(w) + part(w)
             /\ off(w) \in Int /\ seen(w) \in Int /\ part(w) \in Int
  <2>1. Direction[m][w] \in {-1, 0, 1}
    BY DirectionValues
  <2>2. Abs(r[w] - c[w]) <= Blur /\ Abs(e[w] - o[w]) <= Blur
    OBVIOUS
  <2>3. c[w] \in Int /\ o[w] \in Int /\ e[w] \in Int /\ r[w] \in Int /\ Blur \in Nat
    BY WidthAssumption
  <2> HIDE DEF off, seen, part
  <2>4. QED
    BY <2>1, <2>2, <2>3, WheelNearGoal DEF off, seen, part
<1>2. part("front") + part("back") + part("left") + part("right") = Driven(m) * (2 * Blur)
  <2>1. /\ Abs(Direction[m]["front"]) + Abs(Direction[m]["back"])
             + Abs(Direction[m]["left"]) + Abs(Direction[m]["right"]) = Driven(m)
        /\ \A w \in Wheel : Abs(Direction[m][w]) \in Int
    BY DirectionValues DEF Abs
  <2>2. \A p, q, u, v, b \in Int :
          2 * b * p + 2 * b * q + 2 * b * u + 2 * b * v = (p + q + u + v) * (2 * b)
    OBVIOUS
  <2>3. QED
    BY <2>1, <2>2, WidthAssumption
<1> HIDE DEF off, seen, part
<1>3. /\ off("front") <= seen("front") + part("front")
      /\ off("back") <= seen("back") + part("back")
      /\ off("left") <= seen("left") + part("left")
      /\ off("right") <= seen("right") + part("right")
  BY <1>1
<1>4. off("front") + off("back") + off("left") + off("right")
        <= seen("front") + seen("back") + seen("left") + seen("right")
             + (part("front") + part("back") + part("left") + part("right"))
  <2>1. /\ off("front") \in Int /\ off("back") \in Int
        /\ off("left") \in Int /\ off("right") \in Int
        /\ seen("front") \in Int /\ seen("back") \in Int
        /\ seen("left") \in Int /\ seen("right") \in Int
        /\ part("front") \in Int /\ part("back") \in Int
        /\ part("left") \in Int /\ part("right") \in Int
    BY <1>1
  <2>2. QED
    BY <2>1, <1>3
<1>5. QED
  BY <1>2, <1>4 DEF off, seen

\* What a movement reports is what it has done, but for the readings' errors.
LEMMA ReportedMeansDone ==
  ASSUME NEW m \in Kind, NEW c \in Encoders, NEW o \in Encoders, NEW e \in Encoders,
         NEW r \in Encoders,
         \A w \in Wheel : Abs(r[w] - c[w]) <= Blur /\ Abs(e[w] - o[w]) <= Blur
  PROVE  Abs(Sum(Minus(r, e), Direction[m]) - Sum(Minus(c, o), Direction[m]))
           <= 2 * Blur * Driven(m)
<1> DEFINE seen(w) == Direction[m][w] * (r[w] - e[w])
           done(w) == Direction[m][w] * (c[w] - o[w])
           part(w) == 2 * Blur * Abs(Direction[m][w])
<1>1. ASSUME NEW w \in Wheel
      PROVE  /\ Abs(seen(w) - done(w)) <= part(w)
             /\ seen(w) \in Int /\ done(w) \in Int /\ part(w) \in Int
  <2>1. Direction[m][w] \in {-1, 0, 1}
    BY DirectionValues
  <2>2. Abs(r[w] - c[w]) <= Blur /\ Abs(e[w] - o[w]) <= Blur
    OBVIOUS
  <2>3. c[w] \in Int /\ o[w] \in Int /\ e[w] \in Int /\ r[w] \in Int /\ Blur \in Nat
    BY WidthAssumption
  <2> HIDE DEF seen, done, part
  <2>4. Abs(seen(w) - done(w)) <= part(w)
    BY <2>1, <2>2, <2>3, WheelReported DEF seen, done, part
  <2>5. seen(w) \in Int /\ done(w) \in Int /\ part(w) \in Int
    BY <2>1, <2>3 DEF seen, done, part, Abs
  <2>6. QED
    BY <2>4, <2>5
<1>2. part("front") + part("back") + part("left") + part("right") = 2 * Blur * Driven(m)
  <2>1. /\ Abs(Direction[m]["front"]) + Abs(Direction[m]["back"])
             + Abs(Direction[m]["left"]) + Abs(Direction[m]["right"]) = Driven(m)
        /\ \A w \in Wheel : Abs(Direction[m][w]) \in Int
    BY DirectionValues DEF Abs
  <2>2. \A p, q, u, v, b \in Int :
          2 * b * p + 2 * b * q + 2 * b * u + 2 * b * v = 2 * b * (p + q + u + v)
    OBVIOUS
  <2>3. QED
    BY <2>1, <2>2, WidthAssumption
<1>3. /\ Sum(Minus(r, e), Direction[m])
           = seen("front") + seen("back") + seen("left") + seen("right")
      /\ Sum(Minus(c, o), Direction[m])
           = done("front") + done("back") + done("left") + done("right")
  BY DEF Sum, Minus
<1> HIDE DEF seen, done, part
<1>4. Abs((seen("front") + seen("back") + seen("left") + seen("right"))
            - (done("front") + done("back") + done("left") + done("right")))
        <= part("front") + part("back") + part("left") + part("right")
  <2>1. /\ seen("front") \in Int /\ seen("back") \in Int
        /\ seen("left") \in Int /\ seen("right") \in Int
        /\ done("front") \in Int /\ done("back") \in Int
        /\ done("left") \in Int /\ done("right") \in Int
        /\ part("front") \in Int /\ part("back") \in Int
        /\ part("left") \in Int /\ part("right") \in Int
    BY <1>1
  <2>2. /\ Abs(seen("front") - done("front")) <= part("front")
        /\ Abs(seen("back") - done("back")) <= part("back")
        /\ Abs(seen("left") - done("left")) <= part("left")
        /\ Abs(seen("right") - done("right")) <= part("right")
    BY <1>1
  <2>3. QED
    BY <2>1, <2>2 DEF Abs
<1>5. QED
  BY <1>2, <1>3, <1>4

LEMMA BeginPreservesInv ==
  ASSUME MvInv, NEW m \in Kind, NEW s \in Int, Begin(m, s)
  PROVE  MvInv'
<1> USE DEF MvInv
<1>1. e0' \in Encoders /\ lost' \in BOOLEAN
  BY ReadingsAreNumbers, CountsAreNumbers DEF Begin, MvTypeOK
<1>2. MvTypeOK'
  BY <1>1 DEF Begin, MvTypeOK
<1>3. StartIsKnown'
  <2>1. CASE e0' \in Readings(count)
    <3>1. InRange(count) => \A w \in Wheel : Abs(e0'[w] - count[w]) <= Blur
      BY <2>1, ReadingIsNear DEF MvTypeOK
    <3>2. QED
      BY <3>1 DEF Begin, StartIsKnown
  <2>2. CASE lost' = TRUE
    BY <2>2 DEF StartIsKnown
  <2>3. QED
    BY <2>1, <2>2 DEF Begin
<1>4. ArrivedMeansThere' /\ ReportIsTrue'
  BY DEF Begin, ArrivedMeansThere, ReportIsTrue
<1>5. QED
  BY <1>2, <1>3, <1>4

LEMMA IteratePreservesInv ==
  ASSUME MvInv, Iterate
  PROVE  MvInv'
<1> USE DEF MvInv
<1>1. PICK r \in Readings(count) \cup {NoCount} :
        /\ Read(r)
        /\ IF TotalError(r) < Driven(kind) * Near
             THEN LeaveLoop("arrived") /\ UNCHANGED <<k, worldVars>>
             ELSE Turn /\ k' = k + Tick /\ UNCHANGED <<phase, ended>>
  BY DEF Iterate
<1>2. /\ phase = "drive" /\ k < MaxTime
      /\ UNCHANGED <<kind, steps, e0, reported, origin>>
  BY DEF Iterate
<1>3. /\ r \in Encoders /\ lost' \in BOOLEAN
      /\ ~lost' => ~lost
      /\ ~lost' /\ InRange(count) => \A w \in Wheel : Abs(r[w] - count[w]) <= Blur
  BY <1>1, ReadTells
<1>4. StartIsKnown'
  BY <1>2, <1>3 DEF StartIsKnown
<1>5. CASE TotalError(r) < Driven(kind) * Near
  <2>1. phase' = "brake" /\ ended' = "arrived" /\ UNCHANGED <<k, count, motion>>
    BY <1>1, <1>5 DEF LeaveLoop
  <2>2. MvTypeOK'
    BY <1>2, <1>3, <2>1 DEF MvTypeOK
  <2>3. ArrivedMeansThere'
    <3> SUFFICES ASSUME Trusted'
                 PROVE  ArrivedMeansThere'
      BY DEF ArrivedMeansThere
    <3> DEFINE off(w) == Abs(Direction[kind][w])
                           * Abs(count[w] - origin[w] - Direction[kind][w] * steps)
               err(w) == Abs(Direction[kind][w])
                           * Abs(r[w] - (e0[w] + Direction[kind][w] * steps))
    <3>1. ~lost /\ InRange(origin) /\ InRange(count) /\ ~lost'
      BY <1>2, <1>3, <2>1 DEF Trusted
    <3>2. \A w \in Wheel : Abs(r[w] - count[w]) <= Blur /\ Abs(e0[w] - origin[w]) <= Blur
      BY <1>3, <3>1 DEF StartIsKnown
    <3>3. off("front") + off("back") + off("left") + off("right")
            <= err("front") + err("back") + err("left") + err("right")
                 + Driven(kind) * (2 * Blur)
      BY <1>3, <3>2, SmallErrorMeansThere DEF MvTypeOK
    <3>4. TotalError(r) = err("front") + err("back") + err("left") + err("right")
      BY DEF TotalError, Goal
    <3>5. \A w \in Wheel : off(w) \in Int /\ err(w) \in Int
      <4> SUFFICES ASSUME NEW w \in Wheel
                   PROVE  off(w) \in Int /\ err(w) \in Int
        OBVIOUS
      <4>1. Direction[kind][w] \in {-1, 0, 1}
        BY DirectionValues DEF MvTypeOK
      <4>2. /\ count[w] \in Int /\ origin[w] \in Int /\ e0[w] \in Int /\ r[w] \in Int
            /\ steps \in Int /\ Blur \in Nat
        BY <1>3, WidthAssumption DEF MvTypeOK
      <4>3. Abs(r[w] - count[w]) <= Blur /\ Abs(e0[w] - origin[w]) <= Blur
        BY <3>2
      <4> HIDE DEF off, err
      <4>4. QED
        BY <4>1, <4>2, <4>3, WheelNearGoal DEF off, err
    <3> HIDE DEF off, err
    <3>6. off("front") + off("back") + off("left") + off("right")
            < Driven(kind) * (Near + 2 * Blur)
      <4>1. /\ Driven(kind) \in Int /\ Near \in Int /\ Blur \in Int
            /\ Driven(kind) * (Near + 2 * Blur)
                 = Driven(kind) * Near + Driven(kind) * (2 * Blur)
        <5>1. Driven(kind) \in {2, 4}
          BY DirectionValues DEF MvTypeOK
        <5>2. QED
          BY <5>1, WidthAssumption, TimeAssumption
      <4>2. /\ off("front") \in Int /\ off("back") \in Int
            /\ off("left") \in Int /\ off("right") \in Int
            /\ err("front") \in Int /\ err("back") \in Int
            /\ err("left") \in Int /\ err("right") \in Int
            /\ Driven(kind) * Near \in Int /\ Driven(kind) * (2 * Blur) \in Int
        BY <3>5, <4>1
      <4>3. err("front") + err("back") + err("left") + err("right") < Driven(kind) * Near
        BY <1>5, <3>4
      <4>4. QED
        BY <3>3, <4>1, <4>2, <4>3
    <3>7. kind' = kind /\ steps' = steps /\ count' = count /\ origin' = origin
      BY <1>2, <2>1
    <3>8. QED
      BY <3>6, <3>7 DEF ArrivedMeansThere, off
  <2>4. ReportIsTrue'
    BY <2>1 DEF ReportIsTrue
  <2>5. QED
    BY <1>4, <2>2, <2>3, <2>4
<1>6. CASE ~(TotalError(r) < Driven(kind) * Near)
  <2>1. /\ motion' \in Encoders /\ count' \in Encoders
        /\ k' = k + Tick /\ UNCHANGED <<phase, ended>>
    BY <1>1, <1>6, CountsAreNumbers DEF Turn, MvTypeOK
  <2>2. MvTypeOK'
    BY <1>2, <1>3, <2>1 DEF MvTypeOK, Tick
  <2>3. ArrivedMeansThere' /\ ReportIsTrue'
    BY <1>2, <2>1 DEF ArrivedMeansThere, ReportIsTrue
  <2>4. QED
    BY <1>4, <2>2, <2>3
<1>7. QED
  BY <1>5, <1>6

LEMMA ReportPreservesInv ==
  ASSUME MvInv, Report
  PROVE  MvInv'
<1> USE DEF MvInv
<1>1. PICK r \in Readings(count) \cup {NoCount} :
        Read(r) /\ reported' = Sum(Minus(r, e0), Direction[kind])
  BY DEF Report
<1>2. /\ phase = "report" /\ phase' = "done"
      /\ UNCHANGED <<kind, steps, e0, k, ended, count, motion, origin>>
  BY DEF Report
<1>3. /\ r \in Encoders /\ lost' \in BOOLEAN
      /\ ~lost' => ~lost
      /\ ~lost' /\ InRange(count) => \A w \in Wheel : Abs(r[w] - count[w]) <= Blur
  BY <1>1, ReadTells
<1>4. MvTypeOK'
  <2>1. reported' \in Int
    BY <1>1, <1>3, SumIsNumber DEF MvTypeOK
  <2>2. QED
    BY <1>2, <1>3, <2>1 DEF MvTypeOK
<1>5. StartIsKnown'
  BY <1>2, <1>3 DEF StartIsKnown
<1>6. ReportIsTrue'
  <2> SUFFICES ASSUME Trusted'
               PROVE  ReportIsTrue'
    BY DEF ReportIsTrue
  <2>1. ~lost /\ InRange(origin) /\ InRange(count) /\ ~lost'
    BY <1>2, <1>3 DEF Trusted
  <2>2. \A w \in Wheel : Abs(r[w] - count[w]) <= Blur /\ Abs(e0[w] - origin[w]) <= Blur
    BY <1>3, <2>1 DEF StartIsKnown
  <2>3. Abs(Sum(Minus(r, e0), Direction[kind]) - Sum(Minus(count, origin), Direction[kind]))
          <= 2 * Blur * Driven(kind)
    BY <1>3, <2>2, ReportedMeansDone DEF MvTypeOK
  <2>4. QED
    BY <1>1, <1>2, <2>3 DEF ReportIsTrue
<1>7. ArrivedMeansThere'
  BY <1>2 DEF ArrivedMeansThere
<1>8. QED
  BY <1>4, <1>5, <1>6, <1>7

LEMMA MvNextPreservesInv == MvInv /\ [MvNext]_mvVars => MvInv'
<1> SUFFICES ASSUME MvInv, [MvNext]_mvVars
             PROVE  MvInv'
  OBVIOUS
<1>1. CASE \E m \in Kind, s \in Int : Begin(m, s)
  BY <1>1, BeginPreservesInv
<1>2. CASE Iterate
  BY <1>2, IteratePreservesInv
<1>3. CASE Report
  BY <1>3, ReportPreservesInv
<1> USE DEF MvInv, StartIsKnown, ArrivedMeansThere, ReportIsTrue
<1>4. CASE OutOfTime
  <2>1. MvTypeOK'
    BY <1>4 DEF OutOfTime, LeaveLoop, MvTypeOK
  <2>2. QED
    BY <1>4, <2>1 DEF OutOfTime, LeaveLoop
<1>5. CASE Aborted \/ Brake \/ WaitStop
  <2>1. MvTypeOK'
    BY <1>5 DEF Aborted, Brake, WaitStop, LeaveLoop, MvTypeOK
  <2>2. QED
    BY <1>5, <2>1 DEF Aborted, Brake, WaitStop, LeaveLoop
<1>6. CASE Coast
  <2>1. motion' \in Encoders /\ count' \in Encoders
    BY <1>6, CountsAreNumbers DEF Coast, Turn, MvTypeOK
  <2>2. MvTypeOK'
    BY <1>6, <2>1 DEF Coast, MvTypeOK
  <2>3. QED
    BY <1>6, <2>2 DEF Coast
<1>7. CASE Return
  <2>1. MvTypeOK'
    <3>1. lost' \in BOOLEAN /\ e0' \in Encoders /\ origin' \in Encoders
      BY <1>7, CountsAreNumbers DEF Return
    <3>2. QED
      BY <1>7, <3>1 DEF Return, MvTypeOK, Kind
  <2>2. StartIsKnown'
    BY <1>7, WidthAssumption DEF Return, NoCount, Abs
  <2>3. QED
    BY <1>7, <2>1, <2>2 DEF Return
<1>8. CASE UNCHANGED mvVars
  <2>1. MvTypeOK'
    BY <1>8 DEF mvVars, MvTypeOK
  <2>2. QED
    BY <1>8, <2>1 DEF mvVars, Trusted
<1>9. QED
  BY <1>1, <1>2, <1>3, <1>4, <1>5, <1>6, <1>7, <1>8 DEF MvNext, Go

\* Whatever the encoders' width and error and however the wheels turn, a movement
\* that has arrived is where it was to go, and returns what it has done.
THEOREM MovementsAreTrue ==
  MvSpec => [](MvTypeOK /\ ArrivedMeansThere /\ ReportIsTrue)
<1>1. MvInv => MvTypeOK /\ ArrivedMeansThere /\ ReportIsTrue
  BY DEF MvInv
<1>2. QED
  BY <1>1, MvInitEstablishesInv, MvNextPreservesInv, PTL DEF MvSpec

-----------------------------------------------------------------------------
(***************************************************************************)
(* The web server's commands.                                              *)
(***************************************************************************)
\* What is known of the call that server s is at: if it meets a setter that is not
\* noted to be alone, the numbers of a setter are one command's, and what a call that
\* is alone has stored or read so far is still there.
CallInv(s) ==
  LET c == call[s]
  IN /\ c.does # "none" /\ Setting(Peer[s], c.what) => ~c.alone
     /\ c.does = "set" => OneCommands(c.numbers)
     /\ c.does = "set" /\ c.alone =>
          \A i \in 1 .. 4 : i < c.at => told[c.what][i] = c.numbers[i]
     /\ c.does = "get" /\ c.alone =>
          \A i \in 1 .. 4 : i < c.at => fargs[i] = told[c.what][i]

\* The TCP server calls setters only.
CallsInv ==
  /\ SettersTypeOK /\ DOMAIN fargs = 1 .. 4
  /\ CallInv("web") /\ CallInv("tcp")
  /\ call["tcp"].does # "get"

SetInv == CallsInv /\ NumbersOfOneCommand

\* The numbers of the reply are zero until they are read back, which no call does
\* before the command is handled.
NumbersInv ==
  /\ issued \in 0 .. MaxCommands /\ req.number \in 0 .. MaxCommands
  /\ task = "handle" => fargs = Zeros /\ Quiet("web")
  /\ SetInv

LEMMA ZerosAreOneCommands == OneCommands(Zeros) /\ DOMAIN Zeros = 1 .. 4
<1>1. 0 \in 0 .. MaxCommands
  BY CommandsAssumption
<1>2. \A i \in 1 .. 4 : Zeros[i] = Zero
  BY DEF Zeros
<1>3. QED
  BY <1>1, <1>2 DEF OneCommands, Zeros

LEMMA ArgsAreOneCommands ==
  ASSUME NEW n \in 0 .. MaxCommands, NEW given
  PROVE  OneCommands(Args(n, given)) /\ DOMAIN Args(n, given) = 1 .. 4
<1>1. \A i \in 1 .. 4 : Args(n, given)[i] \in {Zero, <<n, i>>}
  BY DEF Args
<1>2. QED
  BY <1>1 DEF OneCommands, Args

LEMMA PairIsOneCommands ==
  ASSUME NEW n \in 0 .. MaxCommands
  PROVE  /\ OneCommands(<<<<n, 1>>, Zero, Zero, Zero>>)
         /\ DOMAIN <<<<n, 1>>, Zero, Zero, Zero>> = 1 .. 4
<1>1. \A i \in 1 .. 4 : <<<<n, 1>>, Zero, Zero, Zero>>[i] \in {Zero, <<n, i>>}
  OBVIOUS
<1>2. QED
  BY <1>1 DEF OneCommands

\* The fields of the calls once s has entered one, p being the other server.
Entered(s, p, does, what, numbers) ==
  /\ Quiet(s) /\ UNCHANGED <<told, mixed>>
  /\ DOMAIN call' = Server
  /\ DOMAIN call'[s] = {"does", "what", "numbers", "at", "alone"}
  /\ call'[s].does = does /\ call'[s].what = what /\ call'[s].numbers = numbers
  /\ call'[s].at = 1 /\ call'[s].alone \in BOOLEAN
  /\ Setting(p, what) => ~call'[s].alone
  /\ DOMAIN call'[p] = {"does", "what", "numbers", "at", "alone"}
  /\ call'[p].does = call[p].does /\ call'[p].what = call[p].what
  /\ call'[p].numbers = call[p].numbers /\ call'[p].at = call[p].at
  /\ call'[p].alone \in BOOLEAN
  /\ call'[p].alone => call[p].alone
  /\ does = "set" /\ (Setting(p, what) \/ Getting(p, what)) => ~call'[p].alone

LEMMA EnterTells ==
  ASSUME SettersTypeOK, NEW s \in Server, NEW does, NEW what \in Numbers, NEW numbers,
         Enter(s, does, what, numbers)
  PROVE  Entered(s, Peer[s], does, what, numbers)
<1> DEFINE p == Peer[s]
           meets == \/ Setting(Peer[s], what)
                    \/ Getting(Peer[s], what) /\ does = "set"
           entered == [does |-> does, what |-> what, numbers |-> numbers, at |-> 1,
                       alone |-> ~meets]
<1>1. p \in Server /\ p # s
  BY DEF Server, Peer
<1>2. /\ Quiet(s) /\ UNCHANGED <<told, mixed>>
      /\ call' = [call EXCEPT ![s] = entered, ![Peer[s]].alone = @ /\ ~meets]
  BY DEF Enter
<1>3. meets \in BOOLEAN /\ (call[p].alone /\ ~meets) \in BOOLEAN
  OBVIOUS
<1>4. DOMAIN call = Server /\ DOMAIN call[p] = {"does", "what", "numbers", "at", "alone"}
  BY <1>1 DEF SettersTypeOK
<1>5. /\ DOMAIN call' = Server /\ call'[s] = entered
      /\ call'[p] = [call[p] EXCEPT !.alone = (call[p].alone /\ ~meets)]
  BY <1>1, <1>2, <1>4
<1> DEFINE kept == call[p].alone /\ ~meets
<1>6. /\ call'[p].does = call[p].does /\ call'[p].what = call[p].what
      /\ call'[p].numbers = call[p].numbers /\ call'[p].at = call[p].at
      /\ DOMAIN call'[p] = {"does", "what", "numbers", "at", "alone"}
      /\ call'[p].alone = kept
  <2> HIDE DEF kept, p
  <2>1. call'[p] = [call[p] EXCEPT !.alone = kept]
    BY <1>5 DEF kept
  <2>2. QED
    BY <1>4, <2>1
<1> DEFINE free == ~meets
<1>7. /\ call'[s].does = does /\ call'[s].what = what /\ call'[s].numbers = numbers
      /\ call'[s].at = 1 /\ call'[s].alone = free
      /\ DOMAIN call'[s] = {"does", "what", "numbers", "at", "alone"}
  <2> HIDE DEF free
  <2>1. call'[s] = [does |-> does, what |-> what, numbers |-> numbers, at |-> 1,
                    alone |-> free]
    BY <1>5 DEF free
  <2>2. QED
    BY <2>1
<1>8. /\ call'[s].alone \in BOOLEAN /\ call'[p].alone \in BOOLEAN
      /\ Setting(p, what) => ~call'[s].alone
      /\ call'[p].alone => call[p].alone
      /\ does = "set" /\ (Setting(p, what) \/ Getting(p, what)) => ~call'[p].alone
  BY <1>6, <1>7
<1>9. QED
  BY <1>2, <1>5, <1>6, <1>7, <1>8 DEF Entered

LEMMA PeersAre ==
  /\ Server = {"web", "tcp"} /\ Peer["web"] = "tcp" /\ Peer["tcp"] = "web"
  /\ \A s \in Server : Peer[s] \in Server /\ Peer[s] # s /\ Peer[Peer[s]] = s
BY DEF Server, Peer

\* Entering a call keeps what is known of both.
LEMMA EnterKeepsSetInv ==
  ASSUME SetInv, NEW s \in Server, NEW does \in {"set", "get"}, NEW what \in Numbers,
         NEW numbers, DOMAIN numbers = 1 .. 4, OneCommands(numbers),
         s = "tcp" => does = "set",
         Enter(s, does, what, numbers), UNCHANGED fargs
  PROVE  SetInv'
<1> DEFINE p == Peer[s]
<1>1. /\ p \in Server /\ p # s /\ Peer[p] = s /\ SettersTypeOK
      /\ CallInv(s) /\ CallInv(p)
  BY PeersAre DEF SetInv, CallsInv
<1>2. Entered(s, p, does, what, numbers)
  BY <1>1, EnterTells
<1> HIDE DEF p
<1> USE DEF Entered
<1>3. SettersTypeOK'
  <2>1. \A t \in Server : t = s \/ t = p
    BY <1>1, PeersAre
  <2>2. QED
    BY <1>1, <1>2, <2>1 DEF SettersTypeOK
<1>4. CallInv(s)'
  <2>1. Setting(p, what)' <=> Setting(p, what)
    BY <1>2 DEF Setting
  <2>2. \A i \in 1 .. 4 : ~(i < 1)
    OBVIOUS
  <2>3. QED
    BY <1>2, <2>1, <2>2 DEF CallInv, p
<1>5. CallInv(p)'
  <2>1. /\ call'[p].does # "none" /\ Setting(s, call[p].what)' => ~call'[p].alone
    <3>1. Setting(s, call[p].what)' => does = "set" /\ what = call[p].what
      BY <1>2 DEF Setting
    <3>2. call[p].does \in {"none", "set", "get"}
      BY <1>1 DEF SettersTypeOK
    <3>3. QED
      BY <1>2, <3>1, <3>2 DEF Setting, Getting
  <2>2. QED
    BY <1>1, <1>2, <2>1 DEF CallInv
<1>6. CallInv("web")' /\ CallInv("tcp")'
  BY <1>1, <1>4, <1>5, PeersAre
<1>7. call'["tcp"].does # "get" /\ DOMAIN fargs' = 1 .. 4
  BY <1>1, <1>2, PeersAre DEF SetInv, CallsInv
<1>8. NumbersOfOneCommand'
  <2>1. ASSUME NEW w \in Numbers, NEW t \in Server, Setting(t, w)
        PROVE  Setting(t, w)'
    BY <1>1, <1>2, <2>1, PeersAre DEF Setting, Quiet
  <2>2. call'["web"].does # "get" => call["web"].does # "get"
    BY <1>1, <1>2, PeersAre DEF Quiet
  <2>3. QED
    BY <1>2, <2>1, <2>2 DEF SetInv, NumbersOfOneCommand
<1>9. QED
  BY <1>3, <1>6, <1>7, <1>8 DEF SetInv, CallsInv

\* What a step of a call does to it.
LEMMA AdvanceTells ==
  ASSUME SettersTypeOK, NEW s \in Server, Advance(s)
  PROVE  /\ DOMAIN call' = Server /\ call'[Peer[s]] = call[Peer[s]]
         /\ DOMAIN call'[s] = {"does", "what", "numbers", "at", "alone"}
         /\ DOMAIN call'[s].numbers = 1 .. 4
         /\ call'[s].at \in 1 .. 4 /\ call'[s].alone \in BOOLEAN /\ call'[s].what \in Numbers
         /\ call[s].at = 4 => call'[s].does = "none"
         /\ call[s].at # 4 =>
              /\ call'[s].does = call[s].does /\ call'[s].what = call[s].what
              /\ call'[s].numbers = call[s].numbers /\ call'[s].alone = call[s].alone
              /\ call'[s].at = call[s].at + 1
<1>1. /\ DOMAIN call = Server /\ DOMAIN call[s] = {"does", "what", "numbers", "at", "alone"}
      /\ call[s].at \in 1 .. 4 /\ DOMAIN call[s].numbers = 1 .. 4
      /\ call[s].alone \in BOOLEAN /\ call[s].what \in Numbers
      /\ Peer[s] \in Server /\ Peer[s] # s
  BY PeersAre DEF SettersTypeOK
<1>2. CASE call[s].at = 4
  <2>1. call' = [call EXCEPT ![s] = NoCall]
    BY <1>2 DEF Advance
  <2>2. DOMAIN call' = Server /\ call'[Peer[s]] = call[Peer[s]] /\ call'[s] = NoCall
    BY <1>1, <2>1
  <2>3. QED
    BY <1>2, <2>2 DEF NoCall, Zeros, Numbers
<1>3. CASE call[s].at # 4
  <2>1. call' = [call EXCEPT ![s].at = call[s].at + 1]
    BY <1>3 DEF Advance
  <2>2. /\ DOMAIN call' = Server /\ call'[Peer[s]] = call[Peer[s]]
        /\ call'[s] = [call[s] EXCEPT !.at = call[s].at + 1]
    BY <1>1, <2>1
  <2>3. /\ DOMAIN call'[s] = {"does", "what", "numbers", "at", "alone"}
        /\ call'[s].does = call[s].does /\ call'[s].what = call[s].what
        /\ call'[s].numbers = call[s].numbers /\ call'[s].alone = call[s].alone
        /\ call'[s].at = call[s].at + 1
    BY <1>1, <2>2
  <2>4. QED
    BY <1>1, <1>3, <2>2, <2>3
<1>4. QED
  BY <1>2, <1>3

\* A setter goes on by one field, or returns.
LEMMA StoreKeepsSetInv ==
  ASSUME SetInv, NEW s \in Server, Store(s), UNCHANGED fargs
  PROVE  SetInv'
<1> DEFINE p == Peer[s]
           w == call[s].what
           j == call[s].at
           numbers == call[s].numbers
<1>1. /\ p \in Server /\ p # s /\ Peer[p] = s /\ SettersTypeOK
      /\ CallInv(s) /\ CallInv(p) /\ Setting(s, w)
  BY PeersAre DEF SetInv, CallsInv, Store, Setting
<1>2. /\ told' = [told EXCEPT ![w] = [@ EXCEPT ![j] = numbers[j]]]
      /\ mixed' = IF j = 4 THEN [mixed EXCEPT ![w] = ~call[s].alone] ELSE mixed
      /\ Advance(s) /\ call[s].does = "set"
  BY DEF Store
<1>3. /\ DOMAIN call' = Server /\ call'[p] = call[p]
      /\ DOMAIN call'[s] = {"does", "what", "numbers", "at", "alone"}
      /\ DOMAIN call'[s].numbers = 1 .. 4
      /\ call'[s].at \in 1 .. 4 /\ call'[s].alone \in BOOLEAN /\ call'[s].what \in Numbers
      /\ j = 4 => call'[s].does = "none"
      /\ j # 4 =>
           /\ call'[s].does = call[s].does /\ call'[s].what = w
           /\ call'[s].numbers = numbers /\ call'[s].alone = call[s].alone
           /\ call'[s].at = j + 1
  BY <1>1, <1>2, AdvanceTells
<1>4. /\ w \in Numbers /\ j \in 1 .. 4 /\ DOMAIN told = Numbers
      /\ \A x \in Numbers : DOMAIN told[x] = 1 .. 4
      /\ DOMAIN numbers = 1 .. 4 /\ call[s].alone \in BOOLEAN
      /\ mixed \in [Numbers \cup {"reply"} -> BOOLEAN]
  BY <1>1 DEF SettersTypeOK
<1>5. /\ DOMAIN told' = Numbers /\ \A x \in Numbers \ {w} : told'[x] = told[x]
      /\ DOMAIN told'[w] = 1 .. 4 /\ told'[w][j] = numbers[j]
      /\ \A i \in 1 .. 4 : i # j => told'[w][i] = told[w][i]
  <2> HIDE DEF w, j, numbers
  <2>1. QED
    BY <1>2, <1>4
<1>6. /\ mixed' \in [Numbers \cup {"reply"} -> BOOLEAN]
      /\ \A x \in Numbers \cup {"reply"} : x # w => mixed'[x] = mixed[x]
      /\ j = 4 => (mixed'[w] <=> ~call[s].alone)
  <2> DEFINE gone == ~call[s].alone
  <2>1. gone \in BOOLEAN
    OBVIOUS
  <2>2. mixed' = IF j = 4 THEN [mixed EXCEPT ![w] = gone] ELSE mixed
    BY <1>2
  <2> HIDE DEF gone, w, j
  <2>3. /\ mixed' \in [Numbers \cup {"reply"} -> BOOLEAN]
        /\ \A x \in Numbers \cup {"reply"} : x # w => mixed'[x] = mixed[x]
        /\ j = 4 => mixed'[w] = gone
    BY <1>4, <2>1, <2>2
  <2>4. QED
    BY <2>3 DEF gone
<1>7. SettersTypeOK'
  <2>1. \A t \in Server : t = s \/ t = p
    BY <1>1, PeersAre
  <2>2. call'[s].does \in {"none", "set", "get"}
    BY <1>2, <1>3
  <2> HIDE DEF w, j, numbers
  <2>3. \A x \in Numbers : DOMAIN told'[x] = 1 .. 4
    BY <1>4, <1>5
  <2>4. \A t \in Server :
          /\ DOMAIN call'[t] = {"does", "what", "numbers", "at", "alone"}
          /\ call'[t].does \in {"none", "set", "get"} /\ call'[t].what \in Numbers
          /\ DOMAIN call'[t].numbers = 1 .. 4 /\ call'[t].at \in 1 .. 4
          /\ call'[t].alone \in BOOLEAN
    BY <1>1, <1>3, <2>1, <2>2 DEF SettersTypeOK
  <2>5. QED
    BY <1>3, <1>5, <1>6, <2>3, <2>4 DEF SettersTypeOK
<1>8. CallInv(s)'
  <2>1. CASE j = 4
    BY <1>3, <2>1 DEF CallInv
  <2>2. CASE j # 4
    <3>1. Setting(p, w)' <=> Setting(p, w)
      BY <1>3, <2>2 DEF Setting
    <3>2. call[s].alone => \A i \in 1 .. 4 : i < j + 1 => told'[w][i] = numbers[i]
      <4>1. call[s].alone => \A i \in 1 .. 4 : i < j => told[w][i] = numbers[i]
        BY <1>1, <1>2 DEF CallInv
      <4> HIDE DEF w, j, numbers
      <4>2. \A i \in 1 .. 4 : i < j + 1 => i < j \/ i = j
        BY <1>4
      <4>3. \A i \in 1 .. 4 : i < j => i # j
        BY <1>4
      <4>4. QED
        BY <1>5, <4>1, <4>2, <4>3
    <3>3. QED
      BY <1>1, <1>2, <1>3, <2>2, <3>1, <3>2 DEF CallInv
  <2>3. QED
    BY <2>1, <2>2
<1>9. CallInv(p)'
  <2>1. call[p].does # "none" /\ call[p].what = w => ~call[p].alone
    BY <1>1 DEF CallInv
  <2>2. Setting(s, call[p].what)' => Setting(s, call[p].what)
    BY <1>2, <1>3 DEF Setting
  <2>3. call[p].what \in Numbers
    BY <1>1 DEF SettersTypeOK
  <2>4. call[p].what # w => told'[call[p].what] = told[call[p].what]
    BY <1>5, <2>3
  <2>5. QED
    BY <1>1, <1>3, <2>1, <2>2, <2>4 DEF CallInv
<1>10. CallInv("web")' /\ CallInv("tcp")'
  BY <1>1, <1>8, <1>9, PeersAre
<1>11. call'["tcp"].does # "get" /\ DOMAIN fargs' = 1 .. 4
  BY <1>1, <1>2, <1>3, PeersAre DEF SetInv, CallsInv
<1>12. NumbersOfOneCommand'
  <2>1. ASSUME NEW x \in Numbers, ~mixed'[x], ~(\E t \in Server : Setting(t, x)')
        PROVE  OneCommands(told'[x])
    <3>1. CASE x # w
      <4>1. \A t \in Server : Setting(t, x) => Setting(t, x)'
        BY <1>1, <1>3, <3>1, PeersAre DEF Setting
      <4>2. ~mixed[x] /\ told'[x] = told[x]
        BY <1>5, <1>6, <2>1, <3>1
      <4>3. QED
        BY <2>1, <4>1, <4>2 DEF SetInv, NumbersOfOneCommand
    <3>2. CASE x = w
      <4>1. j = 4
        BY <1>1, <1>2, <1>3, <2>1, <3>2 DEF Setting
      <4>2. call[s].alone
        BY <1>6, <2>1, <3>2, <4>1
      <4>3. OneCommands(numbers) /\ \A i \in 1 .. 4 : i < j => told[w][i] = numbers[i]
        BY <1>1, <1>2, <4>2 DEF CallInv
      <4>4. \A i \in 1 .. 4 : told'[w][i] = numbers[i]
        <5> HIDE DEF w, j, numbers
        <5>1. \A i \in 1 .. 4 : i < 4 \/ i = 4
          OBVIOUS
        <5>2. QED
          BY <1>5, <4>1, <4>3, <5>1
      <4>5. QED
        BY <3>2, <4>3, <4>4 DEF OneCommands
    <3>3. QED
      BY <3>1, <3>2
  <2>2. ~mixed'["reply"] /\ call'["web"].does # "get" => OneCommands(fargs')
    <3>1. mixed'["reply"] = mixed["reply"]
      BY <1>4, <1>6 DEF Numbers
    <3>2. call["web"].does = "get" => call'["web"].does = "get"
      BY <1>1, <1>2, <1>3, PeersAre
    <3>3. QED
      BY <3>1, <3>2 DEF SetInv, NumbersOfOneCommand
  <2>3. QED
    BY <2>1, <2>2 DEF NumbersOfOneCommand, Setting
<1>13. QED
  BY <1>7, <1>10, <1>11, <1>12 DEF SetInv, CallsInv

\* The web server's getter goes on by one field, or returns.
LEMMA FetchKeepsSetInv ==
  ASSUME SetInv, Fetch("web", fargs)
  PROVE  SetInv'
<1> DEFINE w == call["web"].what
           j == call["web"].at
<1>1. /\ "web" \in Server /\ Peer["web"] = "tcp" /\ Peer["tcp"] = "web" /\ SettersTypeOK
      /\ CallInv("web") /\ CallInv("tcp") /\ DOMAIN fargs = 1 .. 4
  BY PeersAre DEF SetInv, CallsInv
<1>2. /\ fargs' = [fargs EXCEPT ![j] = told[w][j]]
      /\ mixed' = IF j = 4
                    THEN [mixed EXCEPT !["reply"] = ~call["web"].alone \/ mixed[w]]
                    ELSE mixed
      /\ Advance("web") /\ call["web"].does = "get" /\ UNCHANGED told
  BY DEF Fetch
<1>3. /\ DOMAIN call' = Server /\ call'["tcp"] = call["tcp"]
      /\ DOMAIN call'["web"] = {"does", "what", "numbers", "at", "alone"}
      /\ DOMAIN call'["web"].numbers = 1 .. 4
      /\ call'["web"].at \in 1 .. 4 /\ call'["web"].alone \in BOOLEAN
      /\ call'["web"].what \in Numbers
      /\ j = 4 => call'["web"].does = "none"
      /\ j # 4 =>
           /\ call'["web"].does = call["web"].does /\ call'["web"].what = w
           /\ call'["web"].alone = call["web"].alone /\ call'["web"].at = j + 1
  BY <1>1, <1>2, AdvanceTells
<1>4. /\ w \in Numbers /\ j \in 1 .. 4 /\ "reply" \notin Numbers
      /\ mixed \in [Numbers \cup {"reply"} -> BOOLEAN]
  BY <1>1 DEF SettersTypeOK, Numbers
<1>5. /\ DOMAIN fargs' = 1 .. 4 /\ fargs'[j] = told[w][j]
      /\ \A i \in 1 .. 4 : i # j => fargs'[i] = fargs[i]
  <2> HIDE DEF w, j
  <2>1. QED
    BY <1>1, <1>2, <1>4
<1>6. /\ mixed' \in [Numbers \cup {"reply"} -> BOOLEAN]
      /\ \A x \in Numbers : mixed'[x] = mixed[x]
      /\ j = 4 => (mixed'["reply"] <=> ~call["web"].alone \/ mixed[w])
  <2> DEFINE torn == ~call["web"].alone \/ mixed[w]
  <2>1. torn \in BOOLEAN
    OBVIOUS
  <2>2. mixed' = IF j = 4 THEN [mixed EXCEPT !["reply"] = torn] ELSE mixed
    BY <1>2
  <2> HIDE DEF torn, w, j
  <2>3. /\ mixed' \in [Numbers \cup {"reply"} -> BOOLEAN]
        /\ \A x \in Numbers : mixed'[x] = mixed[x]
        /\ j = 4 => mixed'["reply"] = torn
    BY <1>4, <2>1, <2>2
  <2>4. QED
    BY <2>3 DEF torn
<1>7. SettersTypeOK'
  <2>1. call'["web"].does \in {"none", "set", "get"}
    BY <1>2, <1>3
  <2>2. \A t \in Server :
          /\ DOMAIN call'[t] = {"does", "what", "numbers", "at", "alone"}
          /\ call'[t].does \in {"none", "set", "get"} /\ call'[t].what \in Numbers
          /\ DOMAIN call'[t].numbers = 1 .. 4 /\ call'[t].at \in 1 .. 4
          /\ call'[t].alone \in BOOLEAN
    BY <1>1, <1>3, <2>1, PeersAre DEF SettersTypeOK
  <2>3. QED
    BY <1>1, <1>2, <1>3, <1>6, <2>2 DEF SettersTypeOK
<1>8. CallInv("web")'
  <2>1. CASE j = 4
    BY <1>3, <2>1 DEF CallInv
  <2>2. CASE j # 4
    <3>1. Setting("tcp", w)' <=> Setting("tcp", w)
      BY <1>3, <2>2 DEF Setting
    <3>2. call["web"].alone => \A i \in 1 .. 4 : i < j + 1 => fargs'[i] = told'[w][i]
      <4>1. call["web"].alone => \A i \in 1 .. 4 : i < j => fargs[i] = told[w][i]
        BY <1>1, <1>2 DEF CallInv
      <4>2. told' = told
        BY <1>2
      <4> HIDE DEF w, j
      <4>3. \A i \in 1 .. 4 : i < j + 1 => i < j \/ i = j
        BY <1>4
      <4>4. \A i \in 1 .. 4 : i < j => i # j
        BY <1>4
      <4>5. QED
        BY <1>5, <4>1, <4>2, <4>3, <4>4
    <3>3. QED
      BY <1>1, <1>2, <1>3, <2>2, <3>1, <3>2 DEF CallInv
  <2>3. QED
    BY <2>1, <2>2
<1>9. CallInv("tcp")'
  <2>1. Setting("web", call["tcp"].what)' => Setting("web", call["tcp"].what)
    BY <1>2, <1>3 DEF Setting
  <2>2. call["tcp"].does # "get"
    BY DEF SetInv, CallsInv
  <2>3. QED
    BY <1>1, <1>2, <1>3, <2>1, <2>2 DEF CallInv
<1>10. call'["tcp"].does # "get"
  BY <1>3 DEF SetInv, CallsInv
<1>11. NumbersOfOneCommand'
  <2>1. \A x \in Numbers, t \in Server : Setting(t, x)' <=> Setting(t, x)
    BY <1>2, <1>3, PeersAre DEF Setting
  <2>2. ASSUME NEW x \in Numbers, ~mixed'[x], ~(\E t \in Server : Setting(t, x)')
        PROVE  OneCommands(told'[x])
    BY <1>2, <1>6, <2>1, <2>2 DEF SetInv, NumbersOfOneCommand
  <2>3. ASSUME ~mixed'["reply"], call'["web"].does # "get"
        PROVE  OneCommands(fargs')
    <3>1. j = 4
      BY <1>2, <1>3, <2>3
    <3>2. call["web"].alone /\ ~mixed[w]
      BY <1>6, <2>3, <3>1
    <3>3. ~(\E t \in Server : Setting(t, w))
      BY <1>1, <1>2, <3>2, PeersAre DEF CallInv, Setting
    <3>4. OneCommands(told[w])
      BY <1>4, <3>2, <3>3 DEF SetInv, NumbersOfOneCommand
    <3>5. \A i \in 1 .. 4 : i < j => fargs[i] = told[w][i]
      BY <1>1, <1>2, <3>2 DEF CallInv
    <3>6. \A i \in 1 .. 4 : fargs'[i] = told[w][i]
      <4> HIDE DEF w, j
      <4>1. \A i \in 1 .. 4 : i < 4 \/ i = 4
        OBVIOUS
      <4>2. QED
        BY <1>5, <3>1, <3>5, <4>1
    <3>7. QED
      BY <3>4, <3>6 DEF OneCommands
  <2>4. QED
    BY <2>2, <2>3 DEF NumbersOfOneCommand, Setting
<1>12. QED
  BY <1>5, <1>7, <1>8, <1>9, <1>10, <1>11 DEF SetInv, CallsInv

\* Nothing of the setters and the reply's numbers changes.
LEMMA StillKeepsSetInv == SetInv /\ UNCHANGED <<setVars, fargs>> => SetInv'
BY DEF SetInv, CallsInv, SettersTypeOK, CallInv, NumbersOfOneCommand, Setting, OneCommands,
   setVars

LEMMA InitEstablishesNumbersInv == Init => NumbersInv
<1> SUFFICES ASSUME Init
             PROVE  NumbersInv
  OBVIOUS
<1>1. /\ told = [what \in Numbers |-> Zeros] /\ call = [s \in Server |-> NoCall]
      /\ mixed = [what \in Numbers \cup {"reply"} |-> FALSE]
      /\ fargs = Zeros /\ issued = 0 /\ req.number = 0 /\ task = "idle"
  BY DEF Init, SettersInit
<1>2. \A s \in Server : call[s] = NoCall
  BY <1>1
<1>3. SettersTypeOK
  <2>1. mixed \in [Numbers \cup {"reply"} -> BOOLEAN]
    BY <1>1
  <2>2. DOMAIN NoCall = {"does", "what", "numbers", "at", "alone"}
    BY DEF NoCall
  <2>3. /\ NoCall.does = "none" /\ NoCall.what \in Numbers /\ NoCall.at \in 1 .. 4
        /\ NoCall.alone \in BOOLEAN /\ DOMAIN NoCall.numbers = 1 .. 4
    BY DEF NoCall, Numbers, Zeros
  <2>4. QED
    BY <1>1, <1>2, <2>1, <2>2, <2>3, ZerosAreOneCommands DEF SettersTypeOK
<1>4. call["web"].does = "none" /\ call["tcp"].does = "none"
  BY <1>2 DEF Server, NoCall
<1>5. CallInv("web") /\ CallInv("tcp")
  BY <1>4 DEF CallInv
<1>6. NumbersOfOneCommand
  BY <1>1, ZerosAreOneCommands DEF NumbersOfOneCommand
<1>7. QED
  BY <1>1, <1>3, <1>4, <1>5, <1>6, ZerosAreOneCommands, CommandsAssumption
  DEF NumbersInv, SetInv, CallsInv

\* A new request finds the web server at no call and clears the reply.
LEMMA DecodeKeepsSetInv ==
  ASSUME SetInv, Quiet("web"), NEW cmd, NEW n, NEW way, Decode(cmd, n, way)
  PROVE  SetInv'
<1>1. /\ UNCHANGED <<told, call>> /\ fargs' = Zeros
      /\ mixed' = [mixed EXCEPT !["reply"] = FALSE]
  BY DEF Decode
<1>2. mixed \in [Numbers \cup {"reply"} -> BOOLEAN]
  BY DEF SetInv, CallsInv, SettersTypeOK
<1>3. /\ mixed' \in [Numbers \cup {"reply"} -> BOOLEAN]
      /\ \A x \in Numbers : mixed'[x] = mixed[x]
  BY <1>1, <1>2 DEF Numbers
<1>4. SettersTypeOK'
  BY <1>1, <1>3 DEF SetInv, CallsInv, SettersTypeOK
<1>5. CallInv("web")'
  BY <1>1 DEF CallInv, Quiet
<1>6. CallInv("tcp")'
  BY <1>1 DEF SetInv, CallsInv, CallInv, Setting
<1>7. NumbersOfOneCommand'
  <2>1. \A x \in Numbers, t \in Server : Setting(t, x)' <=> Setting(t, x)
    BY <1>1 DEF Setting
  <2>2. ASSUME NEW x \in Numbers, ~mixed'[x], ~(\E t \in Server : Setting(t, x)')
        PROVE  OneCommands(told'[x])
    BY <1>1, <1>3, <2>1, <2>2 DEF SetInv, NumbersOfOneCommand
  <2>3. OneCommands(fargs')
    BY <1>1, ZerosAreOneCommands
  <2>4. QED
    BY <2>2, <2>3 DEF NumbersOfOneCommand, Setting
<1>8. QED
  BY <1>1, <1>4, <1>5, <1>6, <1>7, ZerosAreOneCommands DEF SetInv, CallsInv

\* A command of the web server calls a setter with its own numbers, as long as the
\* reply holds zeros.
LEMMA TellKeepsSetInv ==
  ASSUME SetInv, NEW what \in Numbers, NEW four, OneCommands(four), DOMAIN four = 1 .. 4,
         req.number \in 0 .. MaxCommands, fargs = Zeros, UNCHANGED fargs,
         Tell(what, four)
  PROVE  SetInv'
<1>1. CASE req.nfargs \notin {2, 4}
  BY <1>1, StillKeepsSetInv DEF Tell
<1>2. CASE req.nfargs = 2
  <2>1. Enter("web", "set", what, <<<<req.number, 1>>, Zero, Zero, Zero>>)
    BY <1>2 DEF Tell, Zeros
  <2>2. "web" \in Server /\ "set" \in {"set", "get"}
    BY DEF Server
  <2>3. QED
    BY <2>1, <2>2, PairIsOneCommands, EnterKeepsSetInv
<1>3. CASE req.nfargs = 4
  <2>1. Enter("web", "set", what, four)
    BY <1>3 DEF Tell
  <2>2. "web" \in Server /\ "set" \in {"set", "get"}
    BY DEF Server
  <2>3. QED
    BY <2>1, <2>2, EnterKeepsSetInv
<1>4. QED
  BY <1>1, <1>2, <1>3

LEMMA NextKeepsSetInv == NumbersInv /\ [Next]_vars => SetInv'
<1> SUFFICES ASSUME NumbersInv, [Next]_vars
             PROVE  SetInv'
  OBVIOUS
<1>1. /\ SetInv /\ issued \in 0 .. MaxCommands /\ req.number \in 0 .. MaxCommands
      /\ task = "handle" => fargs = Zeros
  BY DEF NumbersInv
<1>2. /\ "web" \in Server /\ "tcp" \in Server /\ "set" \in {"set", "get"}
      /\ "get" \in {"set", "get"} /\ "pwm" \in Numbers /\ "spd" \in Numbers
  BY DEF Server, Numbers
<1>3. CASE Quiet("web") /\ Request
  <2>1. PICK cmd, n, way : Decode(cmd, n, way)
    BY <1>3 DEF Request
  <2>2. QED
    BY <1>1, <1>3, <2>1, DecodeKeepsSetInv
<1>4. CASE SetPwm
  <2>1. /\ task = "handle" /\ UNCHANGED fargs /\ Tell("pwm", Args(req.number, 4))
    BY <1>4 DEF SetPwm, Handling
  <2>2. QED
    BY <1>1, <1>2, <2>1, ArgsAreOneCommands, TellKeepsSetInv
<1>5. CASE SetSpeed
  <2>1. /\ task = "handle" /\ UNCHANGED fargs /\ Tell("spd", fargs)
    BY <1>5 DEF SetSpeed, Handling
  <2>2. QED
    BY <1>1, <1>2, <2>1, ZerosAreOneCommands, TellKeepsSetInv
<1>6. CASE WebStop \/ BeginMovement \/ Move
  <2>1. UNCHANGED fargs
    BY <1>6 DEF WebStop, Handling, BeginMovement, Move, rply
  <2>2. Enter("web", "set", "pwm", Zeros) \/ UNCHANGED setVars
    BY <1>6 DEF WebStop, BeginMovement, Move
  <2>3. QED
    BY <1>1, <1>2, <2>1, <2>2, ZerosAreOneCommands, EnterKeepsSetInv, StillKeepsSetInv
<1>7. CASE ReadBack
  <2>1. UNCHANGED fargs /\ \E what \in Numbers : Enter("web", "get", what, Zeros)
    BY <1>2, <1>7 DEF ReadBack, rply
  <2>2. QED
    BY <1>1, <1>2, <2>1, ZerosAreOneCommands, EnterKeepsSetInv
<1>8. CASE WebCall
  <2>1. \/ Store("web") /\ UNCHANGED fargs
        \/ Fetch("web", fargs)
    BY <1>8 DEF WebCall
  <2>2. QED
    BY <1>1, <1>2, <2>1, StoreKeepsSetInv, FetchKeepsSetInv
<1>9. CASE OtherCall
  BY <1>1, <1>2, <1>9, StoreKeepsSetInv DEF OtherCall, rply
<1>10. CASE OtherStop
  <2>1. UNCHANGED fargs /\ Enter("tcp", "set", "pwm", Zeros)
    BY <1>10 DEF OtherStop, OtherCommand, rply
  <2>2. QED
    BY <1>1, <1>2, <2>1, ZerosAreOneCommands, EnterKeepsSetInv
<1>11. CASE OtherSet
  <2>1. UNCHANGED fargs /\ issued + 1 \in 0 .. MaxCommands
    BY <1>1, <1>11, CommandsAssumption DEF OtherSet, OtherCommand, rply
  <2>2. PICK what \in Numbers, given \in {2, 4} :
          Enter("tcp", "set", what, Args(issued + 1, given))
    BY <1>11 DEF OtherSet
  <2>3. QED
    BY <1>1, <1>2, <2>1, <2>2, ArgsAreOneCommands, EnterKeepsSetInv
<1>12. CASE \/ Unknown \/ ReadSensors \/ EndMovement \/ SendResult \/ Send \/ HangUp
            \/ UNCHANGED vars
  BY <1>1, <1>12, StillKeepsSetInv
  DEF Unknown, ReadSensors, Handling, EndMovement, SendResult, Send, HangUp, vars, rply
<1>13. QED
  BY <1>3, <1>4, <1>5, <1>6, <1>7, <1>8, <1>9, <1>10, <1>11, <1>12 DEF Next, WebTask

LEMMA NextPreservesNumbersInv == NumbersInv /\ [Next]_vars => NumbersInv'
<1> SUFFICES ASSUME NumbersInv, [Next]_vars
             PROVE  NumbersInv'
  OBVIOUS
<1>1. CASE Quiet("web") /\ Request
  <2>1. PICK cmd, n, way : Decode(cmd, n, way)
    BY <1>1 DEF Request
  <2>2. /\ issued < MaxCommands /\ issued' = issued + 1 /\ req'.number = issued + 1
        /\ fargs' = Zeros /\ Quiet("web")'
    BY <1>1, <2>1 DEF Decode, Quiet
  <2>3. QED
    BY <2>2, NextKeepsSetInv, CommandsAssumption DEF NumbersInv
<1>2. CASE OtherStop \/ OtherSet \/ OtherCall
  <2>1. issued' \in 0 .. MaxCommands /\ UNCHANGED <<task, req, fargs>>
    BY <1>2, CommandsAssumption DEF NumbersInv, OtherStop, OtherSet, OtherCommand, OtherCall,
       rply
  <2>2. /\ SettersTypeOK /\ "tcp" \in Server /\ Peer["tcp"] = "web" /\ "pwm" \in Numbers
    BY PeersAre DEF NumbersInv, SetInv, CallsInv, Numbers
  <2>3. \/ \E what \in Numbers : \E numbers : Enter("tcp", "set", what, numbers)
        \/ Advance("tcp")
    BY <1>2, <2>2 DEF OtherStop, OtherSet, OtherCall, Store
  <2>4. call'["web"].does = call["web"].does
    <3>1. ASSUME NEW what \in Numbers, NEW numbers, Enter("tcp", "set", what, numbers)
          PROVE  call'["web"].does = call["web"].does
      <4>1. call'[Peer["tcp"]].does = call[Peer["tcp"]].does
        BY <2>2, <3>1, EnterTells DEF Entered
      <4>2. QED
        BY <2>2, <4>1
    <3>2. CASE Advance("tcp")
      <4>1. call'[Peer["tcp"]] = call[Peer["tcp"]]
        BY <2>2, <3>2, AdvanceTells
      <4>2. QED
        BY <2>2, <4>1
    <3>3. QED
      BY <2>3, <3>1, <3>2
  <2>5. QED
    BY <2>1, <2>4, NextKeepsSetInv DEF NumbersInv, Quiet
<1>3. CASE WebCall
  <2>1. task # "handle"
    BY <1>3 DEF WebCall, Store, Fetch, NumbersInv, Quiet
  <2>2. QED
    BY <1>3, <2>1, NextKeepsSetInv DEF WebCall, NumbersInv
<1>4. CASE \/ WebStop \/ SetPwm \/ SetSpeed \/ ReadBack \/ ReadSensors \/ Unknown
           \/ BeginMovement \/ EndMovement \/ SendResult \/ Send \/ HangUp
  <2>1. UNCHANGED <<issued, req>> /\ task' # "handle"
    BY <1>4 DEF WebStop, SetPwm, SetSpeed, ReadBack, ReadSensors, Unknown, Handling,
       BeginMovement, EndMovement, SendResult, Send, HangUp
  <2>2. QED
    BY <2>1, NextKeepsSetInv DEF NumbersInv
<1>5. CASE Move
  <2>1. UNCHANGED <<issued, req, task, fargs>>
    BY <1>5 DEF Move, rply
  <2>2. task # "handle"
    BY <1>5 DEF Move
  <2>3. QED
    BY <2>1, <2>2, NextKeepsSetInv DEF NumbersInv
<1>6. CASE UNCHANGED vars
  BY <1>6, NextKeepsSetInv DEF NumbersInv, vars, rply, setVars, Quiet
<1>7. QED
  BY <1>1, <1>2, <1>3, <1>4, <1>5, <1>6 DEF Next, WebTask

\* Whatever number of commands both servers are given, the base keeps, and speed and
\* pwm answer, numbers of one command, as far as no call has met another one's setter:
\* none that an earlier command has left in the reply.
THEOREM NumbersKeepTogether == Spec => []NumbersOfOneCommand
<1>1. NumbersInv => NumbersOfOneCommand
  BY DEF NumbersInv, SetInv
<1>2. QED
  BY <1>1, InitEstablishesNumbersInv, NextPreservesNumbersInv, PTL DEF Spec

-----------------------------------------------------------------------------
(***************************************************************************)
(* mv uses the base as a movement is meant to be used, and passes on what  *)
(* it is told.                                                             *)
(***************************************************************************)
WayIsNumbers == req.way.turn \in Int /\ req.way.drive \in Int

LEMMA InitMapsToMvInit == Init => MvInit /\ WayIsNumbers
BY DEF Init, WayIsNumbers, NoWay

LEMMA NextKeepsWay == WayIsNumbers /\ [Next]_vars => WayIsNumbers'
<1> SUFFICES ASSUME WayIsNumbers, [Next]_vars
             PROVE  WayIsNumbers'
  OBVIOUS
<1>1. CASE Request
  <2>1. CASE \E cmd \in WebCommand, n \in 0 .. 4 : Decode(cmd, n, NoWay)
    BY <2>1 DEF Decode, WayIsNumbers, NoWay
  <2>2. CASE \E way \in Ways : Decode("mv", 2, way)
    BY <2>2, WaysAssumption DEF Decode, WayIsNumbers
  <2>3. QED
    BY <1>1, <2>1, <2>2 DEF Request, WebCommand
<1>2. CASE ~Request
  <2>1. req' = req
    BY <1>2 DEF Next, WebTask, WebStop, Unknown, SetPwm, SetSpeed, ReadSensors, Handling,
       ReadBack, BeginMovement, Move, EndMovement, SendResult, Send, HangUp, OtherStop,
       OtherSet, OtherCommand,
       OtherCall, WebCall, vars
  <2>2. QED
    BY <2>1 DEF WayIsNumbers
<1>3. QED
  BY <1>1, <1>2

LEMMA NextMapsToMvNext == WayIsNumbers /\ [Next]_vars => [MvNext]_mvVars
<1> SUFFICES ASSUME WayIsNumbers, [Next]_vars
             PROVE  [MvNext]_mvVars
  OBVIOUS
<1>1. CASE BeginMovement
  <2>1. \E s \in Int : Begin("rotate", s) \/ Begin("moveX", s)
    BY <1>1 DEF BeginMovement, WayIsNumbers
  <2>2. QED
    BY <2>1 DEF MvNext, Kind
<1>2. CASE Move
  BY <1>2 DEF Move, MvNext
<1>3. CASE EndMovement
  BY <1>3 DEF EndMovement, MvNext
<1>4. CASE OtherStop
  BY <1>4 DEF OtherStop, MvNext
<1>5. CASE ~(BeginMovement \/ Move \/ EndMovement \/ OtherStop)
  <2>1. UNCHANGED mvVars
    BY <1>5 DEF Next, WebTask, Request, Decode, WebStop, Unknown, SetPwm, SetSpeed,
       ReadSensors, Handling, ReadBack, SendResult, Send, HangUp, OtherSet, OtherCall,
       WebCall, vars
  <2>2. QED
    BY <2>1
<1>6. QED
  BY <1>1, <1>2, <1>3, <1>4, <1>5

\* The web server begins, waits for and ends movements only as rotate() and moveX()
\* allow, so that what is true of a movement is true of its movements.
THEOREM ControlUsesMovement == Spec => MvSpec
<1>1. QED
  BY InitMapsToMvInit, NextKeepsWay, NextMapsToMvNext, PTL DEF Spec, MvSpec

\* mv is at the movement it has begun; what it has stored is what the base did.
AnswerInv ==
  /\ task = "turn" => kind = "rotate"
  /\ task = "drive" => kind = "moveX"
  /\ DOMAIN ways = {"turn", "drive"} /\ DOMAIN moved = {"turn", "drive", "known"}
  /\ moved.known =>
       /\ Abs(ways.turn - moved.turn) <= 8 * Blur
       /\ Abs(ways.drive - moved.drive) <= 4 * Blur

LEMMA NothingMovedYet ==
  Abs(0 - 0) <= 8 * Blur /\ Abs(0 - 0) <= 4 * Blur
BY WidthAssumption DEF Abs

LEMMA InitEstablishesAnswerInv == Init => AnswerInv
BY NothingMovedYet DEF Init, AnswerInv, NoWay

\* The movement mv waits for ends.
LEMMA EndPreservesAnswerInv ==
  ASSUME MvInv, AnswerInv, EndMovement
  PROVE  AnswerInv'
<1> DEFINE done == Sum(Minus(count, origin), Direction[kind])
<1>1. /\ task \in {"turn", "drive"} /\ phase = "done"
      /\ ways' = [ways EXCEPT ![task] = reported]
      /\ moved' = [moved EXCEPT ![task] = done, !.known = @ /\ Trusted]
      /\ task' = IF task = "turn" THEN "straight" ELSE "result"
  BY DEF EndMovement, Return
<1>2. Trusted => Abs(reported - done) <= 2 * Blur * Driven(kind)
  BY <1>1 DEF MvInv, ReportIsTrue
<1> HIDE DEF done
<1>3. moved'.known => moved.known /\ Trusted
  BY <1>1 DEF AnswerInv
<1>4. CASE task = "turn"
  <2>1. /\ ways'.turn = reported /\ ways'.drive = ways.drive
        /\ moved'.turn = done /\ moved'.drive = moved.drive
    BY <1>1, <1>4 DEF AnswerInv
  <2>2. 2 * Blur * Driven(kind) = 8 * Blur
    BY <1>4, WidthAssumption DEF AnswerInv, Driven
  <2>3. moved'.known => Abs(ways'.turn - moved'.turn) <= 8 * Blur
    BY <1>2, <1>3, <2>1, <2>2
  <2>4. moved'.known => Abs(ways'.drive - moved'.drive) <= 4 * Blur
    BY <1>3, <2>1 DEF AnswerInv
  <2>5. DOMAIN ways' = {"turn", "drive"} /\ DOMAIN moved' = {"turn", "drive", "known"}
    BY <1>1 DEF AnswerInv
  <2>6. task' \notin {"turn", "drive"}
    BY <1>1
  <2>7. QED
    BY <2>3, <2>4, <2>5, <2>6 DEF AnswerInv
<1>5. CASE task = "drive"
  <2>1. /\ ways'.drive = reported /\ ways'.turn = ways.turn
        /\ moved'.drive = done /\ moved'.turn = moved.turn
    BY <1>1, <1>5 DEF AnswerInv
  <2>2. 2 * Blur * Driven(kind) = 4 * Blur
    BY <1>5, WidthAssumption DEF AnswerInv, Driven
  <2>3. moved'.known => Abs(ways'.drive - moved'.drive) <= 4 * Blur
    BY <1>2, <1>3, <2>1, <2>2
  <2>4. moved'.known => Abs(ways'.turn - moved'.turn) <= 8 * Blur
    BY <1>3, <2>1 DEF AnswerInv
  <2>5. DOMAIN ways' = {"turn", "drive"} /\ DOMAIN moved' = {"turn", "drive", "known"}
    BY <1>1 DEF AnswerInv
  <2>6. task' \notin {"turn", "drive"}
    BY <1>1
  <2>7. QED
    BY <2>3, <2>4, <2>5, <2>6 DEF AnswerInv
<1>6. QED
  BY <1>1, <1>4, <1>5

LEMMA NextPreservesAnswerInv == MvInv /\ AnswerInv /\ [Next]_vars => AnswerInv'
<1> SUFFICES ASSUME MvInv, AnswerInv, [Next]_vars
             PROVE  AnswerInv'
  OBVIOUS
<1>1. CASE EndMovement
  BY <1>1, EndPreservesAnswerInv
<1>2. CASE BeginMovement
  <2>1. /\ UNCHANGED <<ways, moved>>
        /\ \/ task' = "turn" /\ kind' = "rotate"
           \/ task' = "drive" /\ kind' = "moveX"
    BY <1>2 DEF BeginMovement, Begin, rply
  <2>2. QED
    BY <2>1 DEF AnswerInv
<1>3. CASE Request \/ HangUp
  <2>1. ForgetMoves /\ task' \notin {"turn", "drive"}
    BY <1>3 DEF Request, Decode, HangUp
  <2>2. QED
    BY <2>1, NothingMovedYet DEF ForgetMoves, NoWay, AnswerInv
<1>4. CASE Move \/ OtherStop
  <2>1. UNCHANGED <<task, ways, moved>>
    BY <1>4 DEF Move, OtherStop, OtherCommand, rply
  <2>2. kind' = kind
    BY <1>4 DEF Move, OtherStop, Go, Iterate, OutOfTime, Brake, Coast, WaitStop, Report,
       Aborted, mvVars
  <2>3. QED
    BY <2>1, <2>2 DEF AnswerInv
<1>5. CASE \/ WebStop \/ Unknown \/ SetPwm \/ SetSpeed \/ ReadSensors \/ ReadBack
           \/ SendResult \/ Send \/ OtherSet \/ OtherCall \/ WebCall \/ UNCHANGED vars
  <2>1. UNCHANGED <<ways, moved, kind>>
    BY <1>5 DEF WebStop, Unknown, SetPwm, SetSpeed, ReadSensors, Handling, ReadBack,
       SendResult, Send, OtherSet, OtherCommand, OtherCall, WebCall, vars, rply, mvVars
  <2>2. task' \in {"turn", "drive"} => task' = task
    BY <1>5 DEF WebStop, Unknown, SetPwm, SetSpeed, ReadSensors, Handling, ReadBack,
       SendResult, Send, OtherSet, OtherCommand,
       OtherCall, WebCall, vars
  <2>3. QED
    BY <2>1, <2>2 DEF AnswerInv
<1>6. QED
  BY <1>1, <1>2, <1>3, <1>4, <1>5 DEF Next, WebTask

\* Whatever cuts a movement short and however far the wheels run on, mv answers how
\* far the base has turned and driven, up to the readings' errors.
THEOREM AnswersAreTrue ==
  Spec => [](AnswerTellsMotion /\ ArrivedMeansThere /\ ReportIsTrue)
<1>1. AnswerInv => AnswerTellsMotion
  BY DEF AnswerInv, AnswerTellsMotion
<1>2. MvInv => ArrivedMeansThere /\ ReportIsTrue
  BY DEF MvInv
<1>3. Spec => []MvInv
  BY ControlUsesMovement, MvInitEstablishesInv, MvNextPreservesInv, PTL DEF MvSpec
<1>4. QED
  BY <1>1, <1>2, <1>3, InitEstablishesAnswerInv, NextPreservesAnswerInv, PTL DEF Spec

-----------------------------------------------------------------------------
(***************************************************************************)
(* Types.                                                                  *)
(***************************************************************************)
\* What Control adds to the types of a movement and of an answer.
CommandTypes ==
  /\ task \in {"idle", "handle", "read", "turn", "straight", "drive", "result", "send"}
  /\ req \in [number : 0 .. MaxCommands, cmd : WebCommand, nfargs : 0 .. 4,
               way : [turn : Int, drive : Int]]
  /\ ways \in [turn : Int, drive : Int]
  /\ moved \in [turn : Int, drive : Int, known : BOOLEAN]
  /\ issued \in 0 .. MaxCommands
  /\ task \in {"turn", "drive"} <=> phase # "idle"

LEMMA InitEstablishesCommandTypes == Init => CommandTypes
<1> SUFFICES ASSUME Init
             PROVE  CommandTypes
  OBVIOUS
<1>1. req \in [number : 0 .. MaxCommands, cmd : WebCommand, nfargs : 0 .. 4,
               way : [turn : Int, drive : Int]]
  BY CommandsAssumption DEF Init, WebCommand, NoWay
<1>2. ways \in [turn : Int, drive : Int] /\ moved \in [turn : Int, drive : Int, known : BOOLEAN]
  BY DEF Init, NoWay
<1>3. task = "idle" /\ phase = "idle" /\ issued \in 0 .. MaxCommands
  BY CommandsAssumption DEF Init, MvInit
<1>4. QED
  BY <1>1, <1>2, <1>3 DEF CommandTypes

\* What mv has stored and what the wheels have done are numbers.
LEMMA EndPreservesCommandTypes ==
  ASSUME MvInv, CommandTypes, EndMovement
  PROVE  CommandTypes'
<1> DEFINE done == Sum(Minus(count, origin), Direction[kind])
<1>1. /\ task \in {"turn", "drive"} /\ phase' = "idle"
      /\ ways' = [ways EXCEPT ![task] = reported]
      /\ moved' = [moved EXCEPT ![task] = done, !.known = @ /\ Trusted]
      /\ task' = IF task = "turn" THEN "straight" ELSE "result"
      /\ UNCHANGED <<req, issued>>
  BY DEF EndMovement, Return
<1>2. reported \in Int /\ done \in Int
  <2>1. Minus(count, origin) \in Encoders /\ kind \in Kind /\ reported \in Int
    BY DEF MvInv, MvTypeOK, Minus
  <2>2. QED
    BY <2>1, SumIsNumber
<1> HIDE DEF done
<1>3. ways' \in [turn : Int, drive : Int]
  BY <1>1, <1>2 DEF CommandTypes
<1>4. moved' \in [turn : Int, drive : Int, known : BOOLEAN]
  <2> DEFINE trusted == moved.known /\ Trusted
  <2>1. trusted \in BOOLEAN
    OBVIOUS
  <2>2. moved' = [moved EXCEPT ![task] = done, !.known = trusted]
    BY <1>1 DEF CommandTypes
  <2> HIDE DEF trusted
  <2>3. QED
    BY <1>1, <1>2, <2>1, <2>2 DEF CommandTypes
<1>5. QED
  BY <1>1, <1>3, <1>4 DEF CommandTypes

LEMMA NextPreservesCommandTypes == MvInv /\ CommandTypes /\ [Next]_vars => CommandTypes'
<1> SUFFICES ASSUME MvInv, CommandTypes, [Next]_vars
             PROVE  CommandTypes'
  OBVIOUS
<1>1. CASE EndMovement
  BY <1>1, EndPreservesCommandTypes
<1>2. CASE Request
  <2>1. PICK cmd \in WebCommand, n \in 0 .. 4, way \in [turn : Int, drive : Int] :
          Decode(cmd, n, way)
    BY <1>2, WaysAssumption DEF Request, WebCommand, NoWay
  <2>2. /\ task = "idle" /\ task' = "handle" /\ issued < MaxCommands /\ issued' = issued + 1
        /\ req' = [number |-> issued + 1, cmd |-> cmd, nfargs |-> n, way |-> way]
        /\ ForgetMoves /\ phase' = phase
    BY <2>1 DEF Decode, mvVars, taskVars
  <2>3. issued + 1 \in 0 .. MaxCommands
    BY <2>2, CommandsAssumption DEF CommandTypes
  <2>4. QED
    BY <2>2, <2>3 DEF CommandTypes, ForgetMoves, NoWay
<1>3. CASE BeginMovement
  BY <1>3 DEF BeginMovement, Begin, CommandTypes, rply
<1>4. CASE Move
  <2>1. phase # "idle" /\ phase' # "idle"
    BY <1>4 DEF Move, Go, Iterate, LeaveLoop, OutOfTime, Brake, Coast, WaitStop, Report,
       taskVars
  <2>2. QED
    BY <1>4, <2>1 DEF Move, CommandTypes, rply
<1>5. CASE HangUp
  BY <1>5 DEF HangUp, ForgetMoves, NoWay, CommandTypes, mvVars, taskVars
<1>6. CASE OtherStop \/ OtherSet
  <2>1. issued < MaxCommands /\ issued' = issued + 1 /\ UNCHANGED <<task, req, ways, moved>>
    BY <1>6 DEF OtherStop, OtherSet, OtherCommand, rply
  <2>2. issued' \in 0 .. MaxCommands
    BY <2>1, CommandsAssumption DEF CommandTypes
  <2>3. phase # "idle" <=> phase' # "idle"
    BY <1>6 DEF OtherStop, OtherSet, Aborted, LeaveLoop, mvVars, taskVars
  <2>4. QED
    BY <2>1, <2>2, <2>3 DEF CommandTypes
<1>7. CASE \/ WebStop \/ Unknown \/ SetPwm \/ SetSpeed \/ ReadSensors \/ ReadBack
           \/ SendResult \/ Send \/ OtherCall \/ WebCall \/ UNCHANGED vars
  <2>1. UNCHANGED <<req, ways, moved, issued, phase>>
    BY <1>7 DEF WebStop, Unknown, SetPwm, SetSpeed, ReadSensors, Handling, ReadBack,
       SendResult, Send, OtherCall, WebCall, vars, rply, mvVars, taskVars
  <2>2. \/ task' = task
        \/ task \in {"handle", "read", "result"} /\ task' \in {"read", "result", "send"}
    BY <1>7 DEF WebStop, Unknown, SetPwm, SetSpeed, ReadSensors, Handling, ReadBack,
       SendResult, Send, OtherCall, WebCall, vars
  <2>3. QED
    BY <2>1, <2>2 DEF CommandTypes
<1>8. QED
  BY <1>1, <1>2, <1>3, <1>4, <1>5, <1>6, <1>7 DEF Next, WebTask

-----------------------------------------------------------------------------
(***************************************************************************)
(* The answer on its way: sendTo() is begun anew for each, on whatever     *)
(* room the socket has.                                                    *)
(***************************************************************************)
LEMMA InitMapsToSendInit == Init => SendInit
BY RoomAssumption DEF Init, SendInit

LEMMA NewAnswerEstablishesSendInv ==
  ASSUME NEW free \in 0 .. Room, NewAnswer(free)
  PROVE  SendInv'
<1>1. /\ pending' = Length /\ out' = <<>> /\ result' = "none" /\ retries' = 0
      /\ room' \in 0 .. Room /\ broken' = FALSE
  BY DEF NewAnswer
<1>2. out' \in Seq(Int) /\ Len(out') = 0
  BY <1>1
<1>3. SendTypeOK' /\ BytesOwed'
  <2>1. broken' \in BOOLEAN
    BY <1>1
  <2>2. pending' \in Nat /\ retries' \in 0 .. MaxRetries
    BY <1>1, LengthAssumption, RetriesAssumption
  <2>3. SendTypeOK'
    BY <1>1, <1>2, <2>1, <2>2 DEF SendTypeOK
  <2>4. BytesOwed'
    BY <1>1, <1>2, LengthAssumption DEF BytesOwed
  <2>5. QED
    BY <2>3, <2>4
<1>4. HandedOver'
  <2>1. 0 .. Length - pending' - 1 = {}
    BY <1>1, LengthAssumption
  <2>2. QED
    BY <2>1 DEF HandedOver
<1>5. NoByteSkipped' /\ OffsetFollows'
  BY <1>1, <1>2, LengthAssumption DEF NoByteSkipped, OffsetFollows
<1>6. QED
  BY <1>1, <1>3, <1>4, <1>5 DEF SendInv

LEMMA NextKeepsSendInv == SendInv /\ [Next]_vars => SendInv'
<1> SUFFICES ASSUME SendInv, [Next]_vars
             PROVE  SendInv'
  OBVIOUS
<1>1. CASE SendResult
  BY <1>1, NewAnswerEstablishesSendInv DEF SendResult
<1>2. CASE HangUp
  <2>1. Room \in 0 .. Room
    BY RoomAssumption
  <2>2. QED
    BY <1>2, <2>1, NewAnswerEstablishesSendInv DEF HangUp
<1>3. CASE Send
  BY <1>3, NextPreservesSendInv DEF Send
<1>4. CASE ~(SendResult \/ HangUp \/ Send)
  <2>1. UNCHANGED sendVars
    BY <1>4 DEF Next, WebTask, Request, Decode, WebStop, Unknown, SetPwm, SetSpeed,
       ReadSensors, Handling, ReadBack, BeginMovement, Move, EndMovement, OtherStop,
       OtherSet, OtherCommand,
       OtherCall, WebCall, vars
  <2>2. QED
    BY <2>1, NextPreservesSendInv
<1>5. QED
  BY <1>1, <1>2, <1>3, <1>4

\* Every variable keeps its type, and the base moves exactly while mv waits for it.
THEOREM ControlTypes == Spec => []TypeOK
<1>1. MvInv /\ CommandTypes /\ SendInv /\ NumbersInv => TypeOK
  BY DEF MvInv, CommandTypes, SendInv, NumbersInv, SetInv, CallsInv, TypeOK
<1>2. Spec => []MvInv
  BY ControlUsesMovement, MvInitEstablishesInv, MvNextPreservesInv, PTL DEF MvSpec
<1>3. Spec => []CommandTypes
  BY <1>2, InitEstablishesCommandTypes, NextPreservesCommandTypes, PTL DEF Spec
<1>4. Init => SendInv
  BY InitMapsToSendInit, InitEstablishesSendInv
<1>5. Spec => []SendInv
  BY <1>4, NextKeepsSendInv, PTL DEF Spec
<1>6. Spec => []NumbersInv
  BY InitEstablishesNumbersInv, NextPreservesNumbersInv, PTL DEF Spec
<1>7. QED
  BY <1>1, <1>2, <1>3, <1>5, <1>6, PTL

\* An answer reported as sent has been handed over to its last byte, none is left
\* out, and what is owed and what has gone out add up, from one command's answer to
\* the next.
THEOREM AnswersAreDelivered == Spec => [](BytesOwed /\ SentMeansDelivered /\ NoByteSkipped)
<1>1. SendInv => BytesOwed /\ SentMeansDelivered /\ NoByteSkipped
  BY LengthAssumption DEF SendInv, SendTypeOK, HandedOver, SentMeansDelivered
<1>2. Init => SendInv
  BY InitMapsToSendInit, InitEstablishesSendInv
<1>3. QED
  BY <1>1, <1>2, NextKeepsSendInv, PTL DEF Spec

-----------------------------------------------------------------------------
(***************************************************************************)
(* The sensors command.                                                    *)
(***************************************************************************)
\* How many of S are at most i, and how many are before it.
UpTo(S, i) == Cardinality({j \in S : j <= i})

\* Two of a set differ in how many of the set are before them, and no max
\* exceeds the set's.
LEMMA PlacesOfASet ==
  ASSUME NEW S \in SUBSET Int, IsFiniteSet(S), NEW i \in S
  PROVE  /\ UpTo(S, i) \in Nat /\ Cardinality(S) \in Nat
         /\ Place(S, i) = UpTo(S, i)
         /\ UpTo(S, i) <= Cardinality(S)
         /\ \A l \in S : i < l => UpTo(S, i) < UpTo(S, l)
<1> DEFINE below(l) == {j \in S : j < l}
           upTo(l)  == {j \in S : j <= l}
<1>1. \A l \in S : /\ IsFiniteSet(below(l)) /\ IsFiniteSet(upTo(l))
                   /\ Cardinality(below(l)) \in Nat /\ Cardinality(upTo(l)) \in Nat
  <2>1. TAKE l \in S
  <2>2. below(l) \in SUBSET S /\ upTo(l) \in SUBSET S
    OBVIOUS
  <2>3. IsFiniteSet(below(l)) /\ IsFiniteSet(upTo(l))
    BY <2>2, FS_Subset
  <2>4. QED
    BY <2>3, FS_CardinalityType
<1>2. \A l \in S : upTo(l) = below(l) \cup {l} /\ l \notin below(l)
  <2>1. \A l \in S, j \in S : (j <= l <=> j < l \/ j = l) /\ ~(l < l)
    <3>1. \A l \in Int, j \in Int : (j <= l <=> j < l \/ j = l) /\ ~(l < l)
      OBVIOUS
    <3>2. S \subseteq Int
      OBVIOUS
    <3>3. QED
      BY <3>1, <3>2
  <2>2. QED
    BY <2>1
<1>3. \A l \in S : Cardinality(upTo(l)) = Cardinality(below(l)) + 1
  <2>1. TAKE l \in S
  <2>2. Cardinality(below(l) \cup {l}) = Cardinality(below(l)) + 1
    BY <1>1, <1>2, FS_AddElement
  <2>3. QED
    BY <1>2, <2>2
<1>4. Place(S, i) = UpTo(S, i)
  BY <1>1, <1>3 DEF Place, UpTo
<1>5. UpTo(S, i) <= Cardinality(S) /\ Cardinality(S) \in Nat
  <2>1. upTo(i) \in SUBSET S
    OBVIOUS
  <2>2. QED
    BY <2>1, FS_Subset, FS_CardinalityType DEF UpTo
<1>6. ASSUME NEW l \in S, i < l PROVE UpTo(S, i) < UpTo(S, l)
  <2>1. upTo(i) \in SUBSET below(l)
    <3>0. i \in Int /\ l \in Int
      OBVIOUS
    <3>1. \A j \in Int : j <= i => j < l
      BY <1>6, <3>0
    <3>2. QED
      BY <3>1
  <2>2. Cardinality(upTo(i)) <= Cardinality(below(l))
    BY <1>1, <2>1, FS_Subset
  <2> HIDE DEF below, upTo
  <2>3. Cardinality(upTo(i)) < Cardinality(upTo(l))
    BY <1>1, <1>3, <2>2
  <2>4. QED
    BY <2>3 DEF UpTo, upTo
<1>7. QED
  BY <1>1, <1>4, <1>5, <1>6 DEF UpTo

\* So no two have the same place.
LEMMA PlacesAreDistinct ==
  ASSUME NEW S \in SUBSET Int, IsFiniteSet(S), NEW i \in S, NEW l \in S,
         Place(S, i) = Place(S, l)
  PROVE  i = l
<1>1. Place(S, i) = UpTo(S, i) /\ UpTo(S, i) \in Nat
  BY PlacesOfASet
<1>2. Place(S, l) = UpTo(S, l) /\ UpTo(S, l) \in Nat
  BY PlacesOfASet
<1>3. i < l => UpTo(S, i) < UpTo(S, l)
  BY PlacesOfASet
<1>4. l < i => UpTo(S, l) < UpTo(S, i)
  BY PlacesOfASet
<1>5. i \in Int /\ l \in Int
  OBVIOUS
<1>6. UpTo(S, i) = UpTo(S, l)
  BY <1>1, <1>2
<1>7. ~(i < l) /\ ~(l < i)
  BY <1>1, <1>2, <1>3, <1>4, <1>6
<1>8. QED
  BY <1>5, <1>7

\* The channels are converted to what the converter takes for them.
LEMMA OwnValue == \A i \in 0 .. DistCount - 1 : Sampled(i) = i
<1>1. \A c \in 0 .. 7 : Connected(AdcCh2C(c)) = c
  BY DEF Connected, AdcCh2C
<1>2. TAKE i \in 0 .. DistCount - 1
<1>3. i % 8 \in 0 .. 7 /\ i = 8 * (i \div 8) + (i % 8)
  <2>1. i \in Int
    BY DEF DistCount
  <2>2. i % 8 \in 0 .. 7
    BY <2>1
  <2>3. i = 8 * (i \div 8) + (i % 8)
    <3>1. CASE i \in 0 .. 7
      <4>1. i \div 8 = 0 /\ i % 8 = i
        BY <3>1
      <4>2. QED
        BY <2>1, <4>1
    <3>2. CASE i \in 8 .. 15
      <4>1. i \div 8 = 1 /\ i % 8 = i - 8
        BY <3>2
      <4>2. QED
        BY <2>1, <4>1
    <3>3. QED
      BY <3>1, <3>2 DEF DistCount
  <2>4. QED
    BY <2>2, <2>3
<1>4. QED
  BY <1>1, <1>3 DEF Sampled

\* A reading of sensors of which those with an angle are the ones that a text
\* gives one lists them in the text's order.
LEMMA ReadingLists ==
  ASSUME NEW text, NEW max \in 0 .. DistCount, NEW failed,
         NEW angles \in [0 .. max - 1 -> Int],
         Asked(angles) = Given(text, max),
         \A i \in Given(text, max) : angles[i] = text[i + 1]
  PROVE  Lists(ReadAngled(angles, max, failed), text, failed)
<1> DEFINE reading == ReadAngled(angles, max, failed)
           given   == Given(text, max)
           nothing == [angle |-> None, value |-> None]
           tuple(i) == [angle |-> text[i + 1], value |-> IF i \in failed THEN None ELSE i]
           here(n)  == {i \in given : Place(given, i) = n}
<1>1. given \in SUBSET Int /\ IsFiniteSet(given) /\ given \subseteq 0 .. DistCount - 1
  <2>1. given \in SUBSET (0 .. max - 1)
    BY DEF Given
  <2>2. IsFiniteSet(0 .. max - 1)
    BY FS_Interval DEF DistCount
  <2>3. IsFiniteSet(given)
    BY <2>1, <2>2, FS_Subset
  <2>4. \A i \in 0 .. max - 1 : i \in Int /\ i \in 0 .. DistCount - 1
    BY DEF DistCount
  <2>5. given \in SUBSET Int /\ given \subseteq 0 .. DistCount - 1
    BY <2>1, <2>4
  <2>6. QED
    BY <2>3, <2>5
<1>2. DOMAIN reading = 1 .. max /\ Len(reading) = max
  <2>1. reading = [n \in 1 .. max |-> reading[n]]
    BY DEF ReadAngled
  <2>2. QED
    BY <2>1 DEF DistCount
<1>3. ASSUME NEW n \in 1 .. max, here(n) = {}
      PROVE  reading[n] = nothing
  BY <1>3 DEF ReadAngled
<1>4. ASSUME NEW i \in given, Place(given, i) \in 1 .. max
      PROVE  reading[Place(given, i)] = tuple(i)
  <2>1. here(Place(given, i)) = {i}
    BY <1>1, PlacesAreDistinct
  <2>2. (CHOOSE l \in here(Place(given, i)) : TRUE) = i
    BY <2>1
  <2>3. reading[Place(given, i)]
          = [angle |-> angles[i], value |-> IF i \in failed THEN None ELSE Sampled(i)]
    BY <1>4, <2>1, <2>2 DEF ReadAngled
  <2>4. angles[i] = text[i + 1] /\ Sampled(i) = i
    BY <1>1, OwnValue
  <2>5. QED
    BY <2>3, <2>4
<1>5. Cardinality(given) \in 0 .. max
  <2>1. given \in SUBSET (0 .. max - 1)
    BY DEF Given
  <2>2. IsFiniteSet(0 .. max - 1) /\ Cardinality(0 .. max - 1) = max
    <3>1. max - 1 \in Int /\ (0 > max - 1 => max = 0) /\ max - 1 - 0 + 1 = max
      BY DEF DistCount
    <3>2. QED
      BY <3>1, FS_Interval
  <2>3. Cardinality(given) <= max /\ Cardinality(given) \in Nat
    BY <2>1, <2>2, FS_Subset, FS_CardinalityType
  <2>4. QED
    BY <2>3 DEF DistCount
<1>6. \A i \in given : /\ Place(given, i) = UpTo(given, i)
                       /\ Place(given, i) \in 1 .. Cardinality(given)
  <2>2. TAKE i \in given
  <2>3. Place(given, i) = UpTo(given, i) /\ UpTo(given, i) \in Nat
        /\ UpTo(given, i) <= Cardinality(given)
    BY <1>1, PlacesOfASet
  <2>4. Place(given, i) # 0
    <3> DEFINE before == {j \in given : j < i}
    <3>1. IsFiniteSet(before)
      BY <1>1, FS_Subset
    <3>2. Cardinality(before) \in Nat
      BY <3>1, FS_CardinalityType
    <3>3. QED
      BY <3>2 DEF Place
  <2>5. QED
    BY <1>5, <2>3, <2>4
<1>7. \A n \in 1 .. max : n > Cardinality(given) => here(n) = {}
  <2>1. Cardinality(given) \in Int /\ max \in Int
    BY <1>5 DEF DistCount
  <2>2. QED
    BY <1>6, <2>1
<1>8. QED
  <2>1. \A i \in given : reading[Cardinality({j \in given : j <= i})] = tuple(i)
    BY <1>4, <1>5, <1>6 DEF UpTo
  <2>2. \A n \in DOMAIN reading : n > Cardinality(given) => reading[n] = nothing
    BY <1>2, <1>3, <1>7
  <2>3. QED
    BY <1>2, <2>1, <2>2 DEF Lists

\* A place on the floor that the text gives one sensor shows that sensor.
LEMMA FloorShows ==
  ASSUME NEW text \in Seq(Int), NEW failed, NEW i \in 1 .. 4 \cap DOMAIN text,
         text[i] \in 0 .. 3,
         \A j \in DOMAIN text : j # i => text[j] # text[i]
  PROVE  ReadFloor(SetFloorSenOrder(text), failed)[text[i]]
           = IF i - 1 \in failed THEN None ELSE i - 1
<1> DEFINE order == SetFloorSenOrder(text)
           p     == text[i]
           sent  == {j \in DOMAIN order : order[j] = p}
<1>1. DOMAIN order = 0 .. 3 /\ DOMAIN text = 1 .. Len(text) /\ Len(text) \in Nat
  BY DEF SetFloorSenOrder, FloorCount
<1>2. \A j \in 0 .. 3 : order[j] = p <=> j = i - 1
  <2>1. TAKE j \in 0 .. 3
  <2>2. order[j] = IF j < Len(text) /\ text[j + 1] \in 0 .. 3 THEN text[j + 1] ELSE None
    BY DEF SetFloorSenOrder, FloorCount
  <2>3. None \notin 0 .. 3
    BY DEF None
  <2>4. j < Len(text) => j + 1 \in DOMAIN text
    BY <1>1
  <2>5. i - 1 < Len(text)
    BY <1>1
  <2>6. QED
    BY <2>2, <2>3, <2>4, <2>5
<1>3. sent = {i - 1}
  <2>1. i - 1 \in 0 .. 3
    OBVIOUS
  <2>2. QED
    BY <1>1, <1>2, <2>1
<1>4. (CHOOSE j \in sent : \A l \in sent : l <= j) = i - 1
  BY <1>3
<1>5. ReadFloor(order, failed)[p] = IF i - 1 \in failed THEN None ELSE Sampled(i - 1)
  <2>1. p \in 0 .. FloorCount - 1
    BY DEF FloorCount
  <2>2. QED
    BY <1>3, <1>4, <2>1 DEF ReadFloor
<1>6. Sampled(i - 1) = i - 1
  <2>1. i - 1 \in 0 .. DistCount - 1
    BY DEF DistCount
  <2>2. QED
    BY <2>1, OwnValue
<1>7. QED
  BY <1>5, <1>6

\* The angles of max sensors when none is left from before the text.
AnglesOf(text, max) ==
  [i \in 0 .. max - 1 |-> IF i < Len(text) THEN Angled(text[i + 1]) ELSE None]

\* They are what the text gives, and the others have none.
LEMMA AnglesAreGiven ==
  ASSUME NEW text \in Seq(Int), NEW max \in 0 .. DistCount
  PROVE  /\ AnglesOf(text, max) \in [0 .. max - 1 -> Int]
         /\ Asked(AnglesOf(text, max)) = Given(text, max)
         /\ \A i \in Given(text, max) : AnglesOf(text, max)[i] = text[i + 1]
<1> DEFINE angles == AnglesOf(text, max)
<1>1. ASSUME NEW i \in 0 .. max - 1
      PROVE  /\ angles[i] \in Int
             /\ angles[i] >= 0 <=> (i < Len(text) /\ text[i + 1] >= 0)
             /\ (i < Len(text) /\ text[i + 1] >= 0) => angles[i] = text[i + 1]
  <2>1. angles[i] = IF i < Len(text) THEN Angled(text[i + 1]) ELSE None
    BY DEF AnglesOf
  <2>2. CASE i < Len(text)
    <3>1. i + 1 \in 1 .. Len(text)
      BY <2>2 DEF DistCount
    <3>2. PICK a \in Int : text[i + 1] = a
      BY <3>1
    <3>3. QED
      BY <2>1, <2>2, <3>2 DEF Angled, None
  <2>3. CASE ~(i < Len(text))
    BY <2>1, <2>3 DEF None
  <2>4. QED
    BY <2>2, <2>3
<1>2. DOMAIN angles = 0 .. max - 1 /\ angles = [i \in 0 .. max - 1 |-> angles[i]]
  BY DEF AnglesOf
<1> HIDE DEF angles
<1>3. angles \in [0 .. max - 1 -> Int]
  BY <1>1, <1>2
<1>4. Asked(angles) = Given(text, max)
  BY <1>1, <1>2 DEF Asked, Given
<1>5. \A i \in Given(text, max) : angles[i] = text[i + 1]
  BY <1>1 DEF Given
<1>6. QED
  BY <1>3, <1>4, <1>5 DEF angles

\* With the angles the configuration gives them, the sensors that are asked are
\* the ones its texts name: no angle is left from before.
LEMMA AnsweredTells ==
  ASSUME NEW texts \in Configs, NEW failed
  PROVE  LET r == Answered(texts, failed)
         IN /\ Lists(r.dist, texts.dist, failed)
            /\ Lists(r.light, texts.light, failed)
            /\ \A i \in 1 .. 4 \cap DOMAIN texts.floor :
                 texts.floor[i] \in 0 .. 3
                 /\ (\A j \in DOMAIN texts.floor : j # i => texts.floor[j] # texts.floor[i])
                   => r.floor[texts.floor[i]] = IF i - 1 \in failed THEN None ELSE i - 1
<1>1. texts.dist \in Seq(Int) /\ texts.light \in Seq(Int) /\ texts.floor \in Seq(Int)
  BY ConfigsAssumption
<1>2. Lists(ReadAngled(DistAngles(texts), DistCount, failed), texts.dist, failed)
  <2>1. DistAngles(texts) = AnglesOf(texts.dist, DistCount)
    BY DEF DistAngles, SetDistSenAnglesDeg, ConstructedDist, AnglesOf
  <2>2. DistCount \in 0 .. DistCount
    BY DEF DistCount
  <2>3. QED
    BY <1>1, <2>1, <2>2, AnglesAreGiven, ReadingLists
<1>3. Lists(ReadAngled(LightAngles(texts), LightCount, failed), texts.light, failed)
  <2>1. LightAngles(texts) = AnglesOf(texts.light, LightCount)
    BY DEF LightAngles, SetLightSenAnglesDeg, AnglesOf
  <2>2. LightCount \in 0 .. DistCount
    BY DEF DistCount, LightCount
  <2>3. QED
    BY <1>1, <2>1, <2>2, AnglesAreGiven, ReadingLists
<1>4. ASSUME NEW i \in 1 .. 4 \cap DOMAIN texts.floor,
             texts.floor[i] \in 0 .. 3,
             \A j \in DOMAIN texts.floor : j # i => texts.floor[j] # texts.floor[i]
      PROVE  ReadFloor(FloorOrder(texts), failed)[texts.floor[i]]
               = IF i - 1 \in failed THEN None ELSE i - 1
  BY <1>1, <1>4, FloorShows DEF FloorOrder
<1>5. QED
  BY <1>2, <1>3, <1>4 DEF Answered

\* The configuration is what it was at boot, and a reading in the reply is one of
\* sensors that have their angles from it.
ReadingsInv ==
  /\ config \in Configs
  /\ readings # <<>> => \E failed \in Failures : readings = Answered(config, failed)

LEMMA NextKeepsReadingsInv == ReadingsInv /\ [Next]_vars => ReadingsInv'
<1> SUFFICES ASSUME ReadingsInv, [Next]_vars PROVE ReadingsInv'
  OBVIOUS
<1>1. config' = config
  BY DEF Next, WebTask, Request, Decode, WebStop, Unknown, SetPwm, SetSpeed, ReadSensors,
     Handling, ReadBack, BeginMovement, Move, EndMovement, SendResult, Send, HangUp,
     OtherStop, OtherSet, OtherCommand,
       OtherCall, WebCall, vars
<1>2. CASE ReadSensors
  BY <1>1, <1>2 DEF ReadSensors, ReadingsInv
<1>3. CASE ~ReadSensors
  <2>1. readings' = readings \/ readings' = <<>>
    BY <1>3 DEF Next, WebTask, Request, Decode, ForgetMoves, WebStop, Unknown, SetPwm,
       SetSpeed, Handling, ReadBack, BeginMovement, Move, EndMovement, SendResult, Send,
       HangUp, OtherStop, OtherSet, OtherCommand, OtherCall, WebCall, rply, vars
  <2>2. QED
    BY <1>1, <2>1 DEF ReadingsInv
<1>4. QED
  BY <1>2, <1>3

\* Every reading that the sensors command puts into an answer holds the sensors
\* that the configuration gives an angle, in the order of its text, each with its
\* own value, and on the floor every sensor that has a place to itself.
THEOREM ReadingsTellTheirSensors == Spec => []ReadingsAreTheConfigureds
<1>1. Init => ReadingsInv
  BY DEF Init, ReadingsInv
<1>2. ReadingsInv => ReadingsAreTheConfigureds
  <2> SUFFICES ASSUME ReadingsInv, readings # <<>>,
                      NEW failed \in Failures, readings = Answered(config, failed)
               PROVE  ReadingsAreTheConfigureds
    BY DEF ReadingsInv, ReadingsAreTheConfigureds
  <2>1. readings.failed = failed
    BY DEF Answered
  <2>2. QED
    BY <2>1, AnsweredTells DEF ReadingsInv, ReadingsAreTheConfigureds
<1>3. QED
  BY <1>1, <1>2, NextKeepsReadingsInv, PTL DEF Spec
=============================================================================
