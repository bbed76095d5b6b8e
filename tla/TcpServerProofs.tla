-------------------------- MODULE TcpServerProofs --------------------------
(***************************************************************************)
(* What the command server answers, for any number of clients, messages of *)
(* any form, with any ids and arguments, buffers of any length and any way *)
(* in which the network cuts and joins what is written.                    *)
(*                                                                         *)
(* What is still to be received of a client is the end of what it has      *)
(* written: from every word of it the rest of its message follows, and     *)
(* then later messages do, from their beginnings.  As long as no recv()    *)
(* has ended inside a message it also starts with a beginning.             *)
(***************************************************************************)
EXTENDS TcpServer, SequenceTheorems, TLAPS

\* What is still to be received of client c.
Stream(c) == arrived[c] \o wire[c]

\* In str, from a word of message k that is its i-th,
\* the rest of the message follows,
Runs(len, str, p, k, i) ==
  \A j \in 0 .. len - i : p + j <= Len(str) /\ str[p + j] = <<k, i + j>>

\* and later words are of the same message or, after its end, of later ones.
Rises(len, str, p, k, i) ==
  \A q \in p + 1 .. Len(str) : k <= str[q][1] /\ (i = len => k < str[q][1])

\* str is the end of what has been written, messages msgs one after the other.
InPlace(msgs, str) ==
  \A p \in 1 .. Len(str) : \A k, i \in Nat : str[p] = <<k, i>> =>
    /\ k \in DOMAIN msgs /\ i \in 1 .. Len(msgs[k])
    /\ Runs(Len(msgs[k]), str, p, k, i)
    /\ Rises(Len(msgs[k]), str, p, k, i)
    /\ i = Len(msgs[k]) /\ p < Len(str) => str[p + 1][2] = 1

\* The stream begins where a message does.
Whole(str) == str # <<>> => str[1][2] = 1

\* Message k is gone from the stream, all of it unless the stream is cut.
Gone(k, str, cut) ==
  str # <<>> => k <= str[1][1] /\ (~cut => k < str[1][1])

\* The answers given are to messages that are gone, in their order.
Given(msgs, given, str, cut) ==
  \A i \in 1 .. Len(given) :
    /\ given[i].to \in DOMAIN msgs /\ Gone(given[i].to, str, cut)
    /\ i > 1 => given[i - 1].to <= given[i].to
    /\ ~cut => /\ Answers(given[i], msgs[given[i].to])
               /\ i > 1 => given[i - 1].to < given[i].to

\* Request r, which begins in message k, is the next to be answered.
Due(msgs, given, str, cut, k, r) ==
  /\ k \in DOMAIN msgs /\ Gone(k, str, cut)
  /\ \A i \in 1 .. Len(given) : given[i].to <= k /\ (~cut => given[i].to < k)
  /\ ~cut => Answers([id |-> r[2], cmd |-> r[3]], msgs[k])

ClientInv(c) ==
  /\ InPlace(asked[c], Stream(c))
  /\ ~torn[c] => Whole(Stream(c))
  /\ Given(asked[c], replies[c], Stream(c), torn[c])
  /\ busy = c => Due(asked[c], replies[c], Stream(c), torn[c], from, req)

FramingInv == TypeOK /\ \A c \in Client : ClientInv(c)

-----------------------------------------------------------------------------
(***************************************************************************)
(* Words and streams.                                                      *)
(***************************************************************************)
\* A word of a stream tells its message and its place there.
LEMMA WordOf ==
  ASSUME NEW str \in Seq(Nat \X Nat), NEW p \in 1 .. Len(str)
  PROVE  \E k, i \in Nat : str[p] = <<k, i>> /\ str[p][1] = k /\ str[p][2] = i
<1>1. str[p] \in Nat \X Nat
  BY ElementOfSeq
<1>2. QED
  BY <1>1

\* What InPlace says of one word.
LEMMA Placed ==
  ASSUME NEW msgs, NEW str, InPlace(msgs, str), NEW p \in 1 .. Len(str),
         NEW k \in Nat, NEW i \in Nat, str[p] = <<k, i>>
  PROVE  /\ k \in DOMAIN msgs /\ i \in 1 .. Len(msgs[k])
         /\ Runs(Len(msgs[k]), str, p, k, i)
         /\ Rises(Len(msgs[k]), str, p, k, i)
         /\ i = Len(msgs[k]) /\ p < Len(str) => str[p + 1][2] = 1
BY DEF InPlace

\* What InPlace says of the first word.
LEMMA FirstPlaced ==
  ASSUME NEW msgs, NEW str, InPlace(msgs, str), 1 \in 1 .. Len(str),
         NEW k \in Nat, NEW i \in Nat, str[1] = <<k, i>>
  PROVE  k \in DOMAIN msgs /\ Runs(Len(msgs[k]), str, 1, k, i)
<1>1. PICK p \in 1 .. Len(str) : p = 1
  OBVIOUS
<1>2. str[p] = <<k, i>>
  BY <1>1
<1>3. k \in DOMAIN msgs /\ Runs(Len(msgs[k]), str, p, k, i)
  BY <1>2, Placed
<1>4. QED
  BY <1>1, <1>3

\* The words of a message.
LEMMA WordsOf ==
  ASSUME NEW m \in Seq(Nat), NEW k \in Nat
  PROVE  /\ Words(k, m) \in Seq(Nat \X Nat) /\ Len(Words(k, m)) = Len(m)
         /\ \A i \in 1 .. Len(m) : Words(k, m)[i] = <<k, i>>
<1>1. Len(m) \in Nat
  BY LenProperties
<1>2. PICK n \in Nat : n = Len(m)
  BY <1>1
<1>3. Words(k, m) = [i \in 1 .. n |-> <<k, i>>]
  BY <1>2 DEF Words
<1>4. \A i \in 1 .. n : <<k, i>> \in Nat \X Nat
  OBVIOUS
<1>5. [i \in 1 .. n |-> <<k, i>>] \in [1 .. n -> Nat \X Nat]
  BY <1>4
<1>6. QED
  BY <1>2, <1>3, <1>5

\* What a client writes next comes behind all that it has written before.
LEMMA WritesInPlace ==
  ASSUME NEW msgs \in Seq(Seq(Nat)), NEW m \in Seq(Nat),
         NEW str \in Seq(Nat \X Nat), InPlace(msgs, str)
  PROVE  InPlace(Append(msgs, m), str \o Words(Len(msgs) + 1, m))
<1> DEFINE all  == Append(msgs, m)
           more == str \o Words(Len(msgs) + 1, m)
<1>1. PICK n \in Nat, l \in Nat, z \in Nat : n = Len(msgs) /\ l = Len(m) /\ z = Len(str)
  BY LenProperties
<1>2. /\ DOMAIN msgs = 1 .. n /\ DOMAIN all = 1 .. n + 1
      /\ \A k \in 1 .. n : all[k] = msgs[k]
      /\ all[n + 1] = m
  <2>1. all \in Seq(Seq(Nat)) /\ Len(all) = n + 1
    BY <1>1, AppendProperties
  <2>2. DOMAIN msgs = 1 .. n /\ DOMAIN all = 1 .. n + 1
    BY <1>1, <2>1, LenProperties
  <2>3. QED
    BY <1>1, <2>2, AppendProperties
<1>3. /\ Len(more) = z + l
      /\ \A q \in 1 .. z : more[q] = str[q]
      /\ \A q \in z + 1 .. z + l : more[q] = <<n + 1, q - z>>
  <2>1. PICK w \in Seq(Nat \X Nat) : w = Words(Len(msgs) + 1, m)
    BY <1>1, WordsOf
  <2>2. Len(w) = l /\ \A i \in 1 .. l : w[i] = <<n + 1, i>>
    <3>1. n + 1 \in Nat
      OBVIOUS
    <3>2. QED
      BY <1>1, <2>1, <3>1, WordsOf
  <2>3. /\ Len(more) = z + l
        /\ \A q \in 1 .. z + l : more[q] = IF q <= z THEN str[q] ELSE w[q - z]
    <3>1. more = str \o w
      BY <2>1
    <3> HIDE DEF more
    <3>2. /\ Len(str \o w) = Len(str) + Len(w)
          /\ \A q \in 1 .. Len(str) + Len(w) :
               (str \o w)[q] = IF q <= Len(str) THEN str[q] ELSE w[q - Len(str)]
      BY ConcatProperties
    <3>3. QED
      BY <1>1, <2>2, <3>1, <3>2
  <2>4. ASSUME NEW q \in z + 1 .. z + l
        PROVE  more[q] = <<n + 1, q - z>>
    <3>1. q \in 1 .. z + l /\ ~(q <= z) /\ q - z \in 1 .. l
      OBVIOUS
    <3>2. more[q] = w[q - z] /\ w[q - z] = <<n + 1, q - z>>
      BY <2>2, <2>3, <3>1
    <3>3. QED
      BY <3>2
  <2>5. \A q \in 1 .. z : q \in 1 .. z + l /\ q <= z
    OBVIOUS
  <2>6. QED
    BY <2>3, <2>4, <2>5
<1> HIDE DEF all, more
<1>4. ASSUME NEW p \in 1 .. z + l, NEW k \in Nat, NEW i \in Nat, more[p] = <<k, i>>
      PROVE  /\ k \in DOMAIN all /\ i \in 1 .. Len(all[k])
             /\ Runs(Len(all[k]), more, p, k, i)
             /\ Rises(Len(all[k]), more, p, k, i)
             /\ i = Len(all[k]) /\ p < Len(more) => more[p + 1][2] = 1
  <2>1. CASE p <= z
    <3>1. p \in 1 .. z /\ str[p] = <<k, i>>
      BY <1>3, <1>4, <2>1
    <3>2. /\ k \in 1 .. n /\ i \in 1 .. Len(msgs[k])
          /\ Runs(Len(msgs[k]), str, p, k, i)
          /\ Rises(Len(msgs[k]), str, p, k, i)
          /\ i = Len(msgs[k]) /\ p < z => str[p + 1][2] = 1
      <4>1. p \in 1 .. Len(str)
        BY <1>1, <3>1
      <4>2. /\ k \in DOMAIN msgs /\ i \in 1 .. Len(msgs[k])
            /\ Runs(Len(msgs[k]), str, p, k, i)
            /\ Rises(Len(msgs[k]), str, p, k, i)
            /\ i = Len(msgs[k]) /\ p < Len(str) => str[p + 1][2] = 1
        BY <3>1, <4>1, Placed
      <4>3. QED
        BY <1>1, <1>2, <4>2
    <3>3. PICK len \in Nat : len = Len(msgs[k]) /\ Len(all[k]) = len /\ i \in 1 .. len
      <4>1. msgs[k] \in Seq(Nat)
        BY <1>1, <3>2, ElementOfSeq
      <4>2. Len(msgs[k]) \in Nat
        BY <4>1, LenProperties
      <4>3. QED
        BY <1>2, <3>2, <4>2
    <3>4. \A j \in 0 .. len - i : p + j \in 1 .. z /\ str[p + j] = <<k, i + j>>
      <4>1. Runs(len, str, p, k, i)
        BY <3>2, <3>3
      <4>2. ASSUME NEW j \in 0 .. len - i
            PROVE  p + j \in 1 .. z /\ str[p + j] = <<k, i + j>>
        <5>1. p + j <= z /\ str[p + j] = <<k, i + j>>
          BY <1>1, <4>1 DEF Runs
        <5>2. QED
          BY <3>1, <5>1
      <4>3. QED
        BY <4>2
    <3>5. Runs(len, more, p, k, i)
      <4>1. \A j \in 0 .. len - i : p + j <= z + l /\ more[p + j] = <<k, i + j>>
        <5>1. ASSUME NEW j \in 0 .. len - i
              PROVE  p + j <= z + l /\ more[p + j] = <<k, i + j>>
          <6>1. p + j \in 1 .. z /\ str[p + j] = <<k, i + j>>
            BY <3>4
          <6>2. more[p + j] = str[p + j]
            BY <1>3, <6>1
          <6>3. QED
            BY <6>1, <6>2
        <5>2. QED
          BY <5>1
      <4>2. QED
        BY <1>3, <4>1 DEF Runs
    <3>6. ASSUME NEW q \in p + 1 .. z + l
          PROVE  k <= more[q][1] /\ (i = len => k < more[q][1])
      <4>1. CASE q <= z
        <5>1. q \in p + 1 .. z /\ q \in 1 .. z /\ more[q] = str[q]
          BY <1>3, <4>1
        <5>2. QED
          BY <1>1, <3>2, <3>3, <5>1 DEF Rises
      <4>2. CASE ~(q <= z)
        <5>1. more[q][1] = n + 1
          BY <1>3, <4>2
        <5>2. QED
          BY <3>2, <5>1
      <4>3. QED
        BY <4>1, <4>2
    <3>7. Rises(len, more, p, k, i)
      BY <1>3, <3>6 DEF Rises
    <3>8. ASSUME i = len, p < z + l
          PROVE  more[p + 1][2] = 1
      <4>1. CASE p < z
        <5>1. p + 1 \in 1 .. z
          BY <3>1, <4>1
        <5>2. more[p + 1] = str[p + 1]
          BY <1>3, <5>1
        <5>3. i = Len(msgs[k])
          BY <3>3, <3>8
        <5>4. str[p + 1][2] = 1
          BY <3>2, <4>1, <5>3
        <5>5. QED
          BY <5>2, <5>4
      <4>2. CASE ~(p < z)
        <5>1. p + 1 \in z + 1 .. z + l /\ (p + 1) - z = 1
          BY <2>1, <3>8, <4>2
        <5>2. more[p + 1] = <<n + 1, 1>>
          BY <1>3, <5>1
        <5>3. QED
          BY <5>2
      <4>3. QED
        BY <4>1, <4>2
    <3>9. k \in 1 .. n + 1
      BY <3>2
    <3>10. QED
      BY <1>2, <1>3, <3>3, <3>5, <3>7, <3>8, <3>9
  <2>2. CASE ~(p <= z)
    <3>1. k = n + 1 /\ i = p - z /\ i \in 1 .. l
      <4>1. p \in z + 1 .. z + l
        BY <2>2
      <4>2. more[p] = <<n + 1, p - z>>
        BY <1>3, <4>1
      <4>3. k = n + 1 /\ i = p - z
        BY <1>4, <4>2
      <4>4. QED
        BY <4>1, <4>3
    <3>2. all[k] = m /\ Len(all[k]) = l /\ k \in 1 .. n + 1
      BY <1>1, <1>2, <3>1
    <3>3. Runs(l, more, p, k, i)
      <4>1. ASSUME NEW j \in 0 .. l - i
            PROVE  p + j <= Len(more) /\ more[p + j] = <<k, i + j>>
        <5>1. p + j \in z + 1 .. z + l /\ (p + j) - z = i + j
          BY <2>2, <3>1
        <5>2. more[p + j] = <<n + 1, (p + j) - z>>
          BY <1>3, <5>1
        <5>3. QED
          BY <1>3, <3>1, <5>1, <5>2
      <4>2. QED
        BY <4>1 DEF Runs
    <3>4. ASSUME NEW q \in p + 1 .. z + l
          PROVE  k <= more[q][1] /\ (i = l => k < more[q][1])
      <4>1. q \in z + 1 .. z + l /\ i # l
        BY <2>2, <3>1
      <4>2. more[q][1] = n + 1
        BY <1>3, <4>1
      <4>3. QED
        BY <3>1, <4>1, <4>2
    <3>5. Rises(l, more, p, k, i)
      BY <1>3, <3>4 DEF Rises
    <3>6. i = l => ~(p < z + l)
      BY <3>1
    <3>7. QED
      BY <1>2, <1>3, <3>1, <3>2, <3>3, <3>5, <3>6
  <2>3. QED
    BY <2>1, <2>2
<1>5. InPlace(all, more)
  BY <1>3, <1>4 DEF InPlace
<1>6. QED
  BY <1>5 DEF all, more

\* rest is what is left of str without its first n words.
IsRest(rest, str, n) ==
  /\ Len(rest) = Len(str) - n
  /\ \A i \in 1 .. Len(str) - n : rest[i] = str[n + i]

\* What is left in place stays there.
LEMMA RestInPlace ==
  ASSUME NEW msgs, NEW str, InPlace(msgs, str), Len(str) \in Nat,
         NEW n \in Nat, NEW rest, IsRest(rest, str, n)
  PROVE  InPlace(msgs, rest)
<1>1. PICK z \in Nat : z = Len(str)
  OBVIOUS
<1>2. Len(rest) = z - n /\ \A i \in 1 .. z - n : rest[i] = str[n + i]
  BY <1>1 DEF IsRest
<1>3. ASSUME NEW p \in 1 .. z - n, NEW k \in Nat, NEW i \in Nat, rest[p] = <<k, i>>
      PROVE  /\ k \in DOMAIN msgs /\ i \in 1 .. Len(msgs[k])
             /\ Runs(Len(msgs[k]), rest, p, k, i)
             /\ Rises(Len(msgs[k]), rest, p, k, i)
             /\ i = Len(msgs[k]) /\ p < Len(rest) => rest[p + 1][2] = 1
  <2>1. n + p \in 1 .. z /\ str[n + p] = <<k, i>>
    BY <1>2, <1>3
  <2>2. /\ k \in DOMAIN msgs /\ i \in 1 .. Len(msgs[k])
        /\ Runs(Len(msgs[k]), str, n + p, k, i)
        /\ Rises(Len(msgs[k]), str, n + p, k, i)
        /\ i = Len(msgs[k]) /\ n + p < z => str[(n + p) + 1][2] = 1
    BY <1>1, <2>1, Placed
  <2>3. ASSUME NEW j \in 0 .. Len(msgs[k]) - i
        PROVE  p + j <= Len(rest) /\ rest[p + j] = <<k, i + j>>
    <3>1. (n + p) + j <= z /\ str[(n + p) + j] = <<k, i + j>>
      BY <1>1, <2>2, <2>3 DEF Runs
    <3>2. p + j \in 1 .. z - n /\ n + (p + j) = (n + p) + j
      BY <3>1
    <3>3. QED
      BY <1>2, <3>1, <3>2
  <2>4. ASSUME NEW q \in p + 1 .. z - n
        PROVE  k <= rest[q][1] /\ (i = Len(msgs[k]) => k < rest[q][1])
    <3>1. n + q \in (n + p) + 1 .. z /\ q \in 1 .. z - n
      OBVIOUS
    <3>2. rest[q] = str[n + q]
      BY <1>2, <3>1
    <3>3. QED
      BY <1>1, <2>2, <3>1, <3>2 DEF Rises
  <2>5. ASSUME i = Len(msgs[k]), p < z - n
        PROVE  rest[p + 1][2] = 1
    <3>1. p + 1 \in 1 .. z - n /\ n + (p + 1) = (n + p) + 1 /\ n + p < z
      BY <2>5
    <3>2. QED
      BY <1>2, <2>2, <2>5, <3>1
  <2>6. QED
    BY <1>2, <2>2, <2>3, <2>4, <2>5 DEF Runs, Rises
<1>4. QED
  BY <1>2, <1>3 DEF InPlace

-----------------------------------------------------------------------------
(***************************************************************************)
(* What recv() returns.                                                    *)
(***************************************************************************)
\* data is what the first n words of str say.
Says(data, msgs, str, n) ==
  /\ Len(data) = n
  /\ \A p \in 1 .. n : data[p] = msgs[str[p][1]][str[p][2]]

\* Word n of str is the last of its message.
EndsAt(msgs, str, n) == str[n][2] = Len(msgs[str[n][1]])

\* str begins with the beginning of message k.
StartsWith(str, k) == str[1] = <<k, 1>>

\* The sizes of requests.
LEMMA SizesOfCommands ==
  ASSUME NEW cmd \in Command
  PROVE  ExpectedSize(cmd) \in RequestSize
<1>1. CASE cmd \in TwoFloats
  BY <1>1 DEF ExpectedSize, RequestSize
<1>2. CASE cmd \notin TwoFloats /\ cmd \in FourFloats
  BY <1>2 DEF ExpectedSize, RequestSize
<1>3. CASE cmd \notin TwoFloats /\ cmd \notin FourFloats
  BY <1>3 DEF ExpectedSize, RequestSize
<1>4. QED
  BY <1>1, <1>2, <1>3

\* What is accepted is three, five or seven words long.
LEMMA AcceptedLength ==
  ASSUME NEW data \in Seq(Nat), Accepted(data)
  PROVE  /\ Len(data) \in {3, 5, 7} /\ data[3] \in Command
         /\ data[1] = 4 * Len(data) /\ ExpectedSize(data[3]) = 4 * Len(data)
<1>1. Len(data) \in Nat
  BY LenProperties
<1>2. data[3] \in Command /\ data[1] = 4 * Len(data) /\ ExpectedSize(data[3]) = 4 * Len(data)
  BY DEF Accepted
<1>3. PICK l \in Nat : Len(data) = l
  BY <1>1
<1>4. 4 * l \in RequestSize
  BY <1>2, <1>3, SizesOfCommands
<1>5. l \in {3, 5, 7}
  BY <1>4 DEF RequestSize
<1>6. QED
  BY <1>2, <1>3, <1>5

\* What is accepted, taken from where a message begins to where one ends, is that
\* message, unless it is cut short.
LEMMA AcceptedIsMessage ==
  ASSUME NEW msgs \in Seq(Seq(Nat)), NEW str \in Seq(Nat \X Nat), InPlace(msgs, str),
         NEW k \in Nat, NEW n \in 1 .. Len(str), StartsWith(str, k),
         EndsAt(msgs, str, n),
         NEW data \in Seq(Nat), Says(data, msgs, str, n), Accepted(data)
  PROVE  Answers([id |-> data[2], cmd |-> data[3]], msgs[k])
<1>1. /\ n \in Nat /\ n >= 3 /\ data[1] = 4 * n /\ data[3] \in Command
      /\ ExpectedSize(data[3]) = 4 * n
  <2>1. Len(data) = n
    BY DEF Says
  <2>2. Len(data) \in {3, 5, 7}
    BY AcceptedLength
  <2>3. n \in Nat /\ n >= 3
    BY <2>1, <2>2
  <2>4. QED
    BY <2>1, <2>3, AcceptedLength
<1>2. /\ 1 \in 1 .. Len(str) /\ k \in DOMAIN msgs
      /\ Runs(Len(msgs[k]), str, 1, k, 1)
  <2>1. 1 \in 1 .. Len(str)
    BY LenProperties
  <2>2. str[1] = <<k, 1>> /\ 1 \in Nat
    BY DEF StartsWith
  <2>3. k \in DOMAIN msgs /\ Runs(Len(msgs[k]), str, 1, k, 1)
    BY <2>1, <2>2, FirstPlaced
  <2>4. QED
    BY <2>1, <2>3
<1>3. PICK m \in Seq(Nat) : m = msgs[k]
  <2>1. DOMAIN msgs = 1 .. Len(msgs)
    BY LenProperties
  <2>2. QED
    BY <1>2, <2>1, ElementOfSeq
<1>4. PICK l \in Nat : l = Len(m)
  BY LenProperties
<1>5. ASSUME NEW p \in 1 .. n, p <= l
      PROVE  str[p] = <<k, p>> /\ data[p] = m[p]
  <2>1. p - 1 \in 0 .. l - 1 /\ 1 + (p - 1) = p
    BY <1>1, <1>5
  <2>2. str[p] = <<k, p>>
    BY <1>2, <1>3, <1>4, <2>1 DEF Runs
  <2>3. data[p] = msgs[str[p][1]][str[p][2]]
    BY DEF Says
  <2>4. QED
    BY <1>3, <2>2, <2>3
<1>6. 1 <= l
  <2>1. 1 \in 1 .. Len(msgs[k])
    BY <1>2, Placed DEF StartsWith
  <2>2. QED
    BY <1>3, <1>4, <2>1
<1>7. m[1] = 4 * n
  <2>1. 1 \in 1 .. n
    BY <1>1
  <2>2. data[1] = m[1]
    BY <1>5, <1>6, <2>1
  <2>3. QED
    BY <1>1, <2>2
<1>8. CASE n <= l
  <2>1. str[n] = <<k, n>>
    <3>1. n \in 1 .. n
      BY <1>1
    <3>2. QED
      BY <1>5, <1>8, <3>1
  <2>2. n = l
    BY <1>3, <1>4, <2>1 DEF EndsAt
  <2>3. data[2] = m[2] /\ data[3] = m[3]
    <3>1. 2 \in 1 .. n /\ 3 \in 1 .. n /\ 2 <= l /\ 3 <= l
      BY <1>1, <1>8
    <3>2. QED
      BY <1>5, <3>1
  <2>4. WellFormed(m)
    <3>1. Len(m) = n /\ n >= 3
      BY <1>1, <1>4, <2>2
    <3>2. m[3] \in Command /\ ExpectedSize(m[3]) = 4 * n
      BY <1>1, <2>3
    <3>3. QED
      BY <1>7, <3>1, <3>2, Zenon DEF WellFormed
  <2>5. QED
    BY <1>3, <2>3, <2>4 DEF Answers
<1>9. CASE ~(n <= l)
  <2>1. 4 * n > 4 * l
    BY <1>1, <1>9
  <2>2. CutShort(m)
    BY <1>4, <1>7, <2>1 DEF CutShort
  <2>3. QED
    BY <1>3, <2>2 DEF Answers
<1>10. QED
  BY <1>1, <1>8, <1>9

\* Words joined one way or the other.
LEMMA Joined ==
  ASSUME NEW a \in Seq(Nat \X Nat), NEW b \in Seq(Nat \X Nat), NEW d \in Seq(Nat \X Nat)
  PROVE  (a \o b) \o d = a \o (b \o d)
BY ConcatAssociative, SMTT(30)

\* Cutting a stream in two.
LEMMA CutTypes ==
  ASSUME NEW str \in Seq(Nat \X Nat), NEW n \in 1 .. Len(str)
  PROVE  /\ SubSeq(str, 1, n) \in Seq(Nat \X Nat) /\ Len(SubSeq(str, 1, n)) = n
         /\ \A i \in 1 .. n : SubSeq(str, 1, n)[i] = str[i]
         /\ SubSeq(str, n + 1, Len(str)) \in Seq(Nat \X Nat)
         /\ IsRest(SubSeq(str, n + 1, Len(str)), str, n)
         /\ SubSeq(str, 1, n) \o SubSeq(str, n + 1, Len(str)) = str
<1>1. Len(str) \in Nat /\ \A i \in 1 .. Len(str) : str[i] \in Nat \X Nat
  BY LenProperties, ElementOfSeq
<1>2. /\ \A i \in 1 .. n : str[i] \in Nat \X Nat
      /\ \A i \in n + 1 .. Len(str) : str[i] \in Nat \X Nat
  BY <1>1
<1>3. /\ SubSeq(str, 1, n) \in Seq(Nat \X Nat) /\ Len(SubSeq(str, 1, n)) = n
      /\ \A i \in 1 .. n : SubSeq(str, 1, n)[i] = str[i]
  BY <1>1, <1>2, SubSeqProperties
<1>4. /\ SubSeq(str, n + 1, Len(str)) \in Seq(Nat \X Nat)
      /\ Len(SubSeq(str, n + 1, Len(str))) = Len(str) - n
      /\ \A i \in 1 .. Len(str) - n : SubSeq(str, n + 1, Len(str))[i] = str[n + i]
  BY <1>1, <1>2, SubSeqProperties
<1>5. SubSeq(str, 1, n) \o SubSeq(str, n + 1, Len(str)) = str
  <2>1. /\ 1 \in 1 .. Len(str) + 1 /\ n \in 1 - 1 .. Len(str) /\ Len(str) \in n .. Len(str)
    BY <1>1
  <2>2. SubSeq(str, 1, n) \o SubSeq(str, n + 1, Len(str)) = SubSeq(str, 1, Len(str))
    BY <2>1, ConcatAdjacentSubSeq
  <2>3. QED
    BY <2>2, SubSeqFull
<1>6. QED
  BY <1>3, <1>4, <1>5 DEF IsRest

\* What recv() takes: the first n words of what has arrived of client c, and all
\* that follows from it.
Taken(c, n, data) ==
  /\ Says(data, asked[c], Stream(c), n)
  /\ IsRest(Stream(c)', Stream(c), n)
  /\ torn'[c] = (torn[c] \/ ~EndsAt(asked[c], Stream(c), n))
  /\ arrived' = [arrived EXCEPT ![c] = arrived'[c]]
  /\ arrived'[c] \in Seq(Nat \X Nat)
  /\ \/ Accepted(data) /\ busy' = c /\ req' = data /\ from' = Stream(c)[1][1]
     \/ ~Accepted(data) /\ UNCHANGED <<busy, req, from>>

LEMMA ReceiveTakes ==
  ASSUME FramingInv, NEW c \in Client, Receive(c)
  PROVE  /\ Stream(c) \in Seq(Nat \X Nat)
         /\ \E n \in 1 .. Len(Stream(c)), data \in Seq(Nat) : Taken(c, n, data)
<1>1. /\ arrived \in [Client -> Seq(Nat \X Nat)] /\ arrived[c] \in Seq(Nat \X Nat)
      /\ wire[c] \in Seq(Nat \X Nat) /\ asked[c] \in Seq(Seq(Nat))
      /\ torn \in [Client -> BOOLEAN]
  BY DEF FramingInv, TypeOK
<1>2. PICK a \in Nat, w \in Nat : a = Len(arrived[c]) /\ w = Len(wire[c])
  BY <1>1, LenProperties
<1>3. a > 0
  BY <1>1, <1>2, EmptySeq DEF Receive
<1> DEFINE n == IF Len(arrived[c]) <= RcvWords THEN Len(arrived[c]) ELSE RcvWords
           piece == SubSeq(arrived[c], 1, n)
           data == Said(c, piece)
           str == Stream(c)
<1>4. n \in 1 .. a
  BY <1>2, <1>3, BoundsAssumption
<1>5. /\ arrived' = [arrived EXCEPT ![c] = SubSeq(arrived[c], n + 1, Len(arrived[c]))]
      /\ torn' = [torn EXCEPT ![c] = torn[c] \/ ~Ends(c, piece[n])]
      /\ \/ Accepted(data) /\ busy' = c /\ req' = data /\ from' = piece[1][1]
         \/ ~Accepted(data) /\ UNCHANGED <<busy, req, from>>
      /\ wire' = wire /\ asked' = asked
  BY DEF Receive
<1> HIDE DEF n
<1>6. /\ piece \in Seq(Nat \X Nat) /\ Len(piece) = n
      /\ \A i \in 1 .. n : piece[i] = arrived[c][i]
      /\ SubSeq(arrived[c], n + 1, Len(arrived[c])) \in Seq(Nat \X Nat)
      /\ IsRest(SubSeq(arrived[c], n + 1, Len(arrived[c])), arrived[c], n)
  BY <1>1, <1>2, <1>4, CutTypes
<1> HIDE DEF piece
<1>7. /\ str \in Seq(Nat \X Nat) /\ Len(str) = a + w
      /\ \A i \in 1 .. a : str[i] = arrived[c][i]
      /\ \A i \in a + 1 .. a + w : str[i] = wire[c][i - a]
  <2>1. /\ str \in Seq(Nat \X Nat) /\ Len(str) = Len(arrived[c]) + Len(wire[c])
        /\ \A i \in 1 .. Len(arrived[c]) + Len(wire[c]) :
             str[i] = IF i <= Len(arrived[c]) THEN arrived[c][i]
                      ELSE wire[c][i - Len(arrived[c])]
    BY <1>1, ConcatProperties DEF Stream
  <2> HIDE DEF str
  <2>2. \A i \in 1 .. a : i \in 1 .. a + w /\ i <= a
    OBVIOUS
  <2>3. \A i \in a + 1 .. a + w : i \in 1 .. a + w /\ ~(i <= a)
    OBVIOUS
  <2>4. QED
    BY <1>2, <2>1, <2>2, <2>3
<1>8. /\ n \in 1 .. Len(str) /\ \A p \in 1 .. n : piece[p] = str[p]
      /\ piece[1] = str[1] /\ piece[n] = str[n]
  <2> HIDE DEF str
  <2>1. n \in 1 .. Len(str) /\ 1 \in 1 .. n /\ n \in 1 .. n
    BY <1>4, <1>7
  <2>2. \A p \in 1 .. n : p \in 1 .. a
    BY <1>4
  <2>3. \A p \in 1 .. n : piece[p] = str[p]
    BY <1>6, <1>7, <2>2
  <2>4. QED
    BY <2>1, <2>3
<1>9. data \in Seq(Nat) /\ Says(data, asked[c], str, n)
  <2>1. /\ Len(data) = n /\ data = [p \in 1 .. n |-> asked[c][str[p][1]][str[p][2]]]
    BY <1>4, <1>6, <1>8 DEF Said
  <2>2. ASSUME NEW p \in 1 .. n
        PROVE  asked[c][str[p][1]][str[p][2]] \in Nat
    <3>1. p \in 1 .. Len(str) /\ InPlace(asked[c], str)
      BY <1>4, <1>7 DEF FramingInv, ClientInv
    <3>2. PICK k \in Nat, i \in Nat : str[p] = <<k, i>> /\ str[p][1] = k /\ str[p][2] = i
      BY <1>7, <3>1, WordOf
    <3>3. k \in DOMAIN asked[c] /\ i \in 1 .. Len(asked[c][k])
      <4> HIDE DEF str
      <4>1. PICK msgs, s : msgs = asked[c] /\ s = str
        OBVIOUS
      <4>2. InPlace(msgs, s) /\ p \in 1 .. Len(s) /\ s[p] = <<k, i>>
        BY <3>1, <3>2, <4>1
      <4>3. k \in DOMAIN msgs /\ i \in 1 .. Len(msgs[k])
        BY <4>2, Placed
      <4>4. QED
        BY <4>1, <4>3
    <3>4. asked[c][k] \in Seq(Nat)
      <4>1. DOMAIN asked[c] = 1 .. Len(asked[c])
        BY <1>1, LenProperties
      <4>2. QED
        BY <1>1, <3>3, <4>1, ElementOfSeq
    <3>5. asked[c][k][i] \in Nat
      BY <3>3, <3>4, ElementOfSeq
    <3>6. QED
      BY <3>2, <3>5
  <2> HIDE DEF data, str
  <2>3. data \in [1 .. n -> Nat]
    BY <2>1, <2>2
  <2>4. n \in Nat
    BY <1>4
  <2>5. data \in Seq(Nat)
    BY <2>3, <2>4
  <2>6. QED
    BY <2>1, <2>5 DEF Says
<1>10. IsRest(str', str, n)
  <2>1. PICK rest \in Seq(Nat \X Nat) : rest = SubSeq(arrived[c], n + 1, Len(arrived[c]))
    BY <1>6
  <2>2. str' = rest \o wire[c]
    BY <1>1, <1>5, <2>1 DEF Stream
  <2>3. /\ Len(rest) = a - n /\ \A i \in 1 .. a - n : rest[i] = arrived[c][n + i]
    BY <1>2, <1>6, <2>1 DEF IsRest
  <2>4. /\ Len(str') = (a - n) + w
        /\ \A i \in 1 .. (a - n) + w : str'[i] = IF i <= a - n THEN rest[i]
                                                   ELSE wire[c][i - (a - n)]
    <3>1. /\ Len(rest \o wire[c]) = Len(rest) + Len(wire[c])
          /\ \A i \in 1 .. Len(rest) + Len(wire[c]) :
               (rest \o wire[c])[i] = IF i <= Len(rest) THEN rest[i] ELSE wire[c][i - Len(rest)]
      BY <1>1, ConcatProperties
    <3>2. QED
      BY <1>2, <2>2, <2>3, <3>1
  <2>5. ASSUME NEW i \in 1 .. (a + w) - n
        PROVE  str'[i] = str[n + i]
    <3>1. CASE i <= a - n
      <4>1. i \in 1 .. (a - n) + w /\ i \in 1 .. a - n /\ n + i \in 1 .. a
        BY <1>4, <3>1
      <4>2. QED
        BY <1>7, <2>3, <2>4, <3>1, <4>1
    <3>2. CASE ~(i <= a - n)
      <4>1. i \in 1 .. (a - n) + w /\ n + i \in a + 1 .. a + w /\ (n + i) - a = i - (a - n)
        BY <1>4, <3>2
      <4>2. QED
        BY <1>7, <2>4, <3>2, <4>1
    <3>3. QED
      BY <3>1, <3>2
  <2>6. (a - n) + w = (a + w) - n
    BY <1>4
  <2>7. QED
    BY <1>7, <2>4, <2>5, <2>6 DEF IsRest
<1>11. torn'[c] = (torn[c] \/ ~EndsAt(asked[c], str, n))
  <2> HIDE DEF str
  <2>1. Ends(c, piece[n]) <=> EndsAt(asked[c], str, n)
    BY <1>8 DEF Ends, EndsAt
  <2>2. torn'[c] = (torn[c] \/ ~Ends(c, piece[n]))
    BY <1>1, <1>5, Zenon
  <2>3. QED
    BY <2>1, <2>2, Zenon
<1>12. arrived'[c] = SubSeq(arrived[c], n + 1, Len(arrived[c]))
  BY <1>1, <1>5
<1>13. Taken(c, n, data)
  <2> HIDE DEF data
  <2>1. arrived' = [arrived EXCEPT ![c] = arrived'[c]] /\ arrived'[c] \in Seq(Nat \X Nat)
    BY <1>5, <1>6, <1>12
  <2>2. \/ Accepted(data) /\ busy' = c /\ req' = data /\ from' = str[1][1]
        \/ ~Accepted(data) /\ UNCHANGED <<busy, req, from>>
    BY <1>5, <1>8
  <2>3. QED
    BY <1>9, <1>10, <1>11, <2>1, <2>2 DEF Taken
<1>14. QED
  BY <1>7, <1>8, <1>9, <1>13

-----------------------------------------------------------------------------
(***************************************************************************)
(* Types.                                                                  *)
(***************************************************************************)
\* Numbers of 16 bits.
LEMMA Width == MaxSize \in Nat /\ MaxSize >= 200
  BY DEF MaxSize

\* What a handler may return with.
LEMMA OutcomeTypes ==
  ASSUME NEW o \in Outcomes
  PROVE  o.tuples \in 0 .. 16 /\ o.stray \in 0 .. MaxSize
<1>1. PICK n \in Tuples : o \in {[tuples |-> n, stray |-> s] : s \in StrayCounts(n)}
  BY DEF Outcomes
<1>2. PICK s \in StrayCounts(n) : o = [tuples |-> n, stray |-> s]
  BY <1>1
<1>3. n \in 0 .. 16 /\ Stray \subseteq 0 .. MaxSize
  BY ReadingAssumption
<1>4. s \in 0 .. MaxSize
  <2>1. s = 191 \/ s \in Stray
    BY <1>2 DEF StrayCounts
  <2>2. 191 \in 0 .. MaxSize
    BY Width
  <2>3. QED
    BY <1>3, <2>1, <2>2
<1>5. QED
  BY <1>2, <1>3, <1>4

\* A reply's size is computed in 16 bits, and only that to ReadAll needs them.
LEMMA SizeFits ==
  ASSUME NEW n \in 0 .. 16, NEW s \in 0 .. MaxSize, NEW cmd \in Command
  PROVE  ReplySize(cmd, n, s) \in 0 .. MaxSize
<1>1. CASE cmd = ReadAll
  <2>1. ReplySize(cmd, n, s) = (13 + 85 + 2 + s * 4) % (MaxSize + 1)
    BY <1>1 DEF ReplySize
  <2>2. PICK t \in Nat : t = 13 + 85 + 2 + s * 4
    BY Width
  <2>3. \A w \in Nat : t % (w + 1) \in 0 .. w
    OBVIOUS
  <2>4. QED
    BY <2>1, <2>2, <2>3, Width
<1>2. CASE cmd # ReadAll
  <2>1. PICK x \in {0, 3, 4, 16} : Floats(cmd) = x
    BY DEF Floats
  <2>2. ReplySize(cmd, n, s) =
          13 + 4 * x + (IF cmd = ReadBatt THEN 5 ELSE 0)
                     + (IF cmd = ReadDist THEN 2 + n * 4 ELSE 0)
    BY <1>2, <2>1 DEF ReplySize
  <2>3. PICK a \in Nat : a <= 5 /\ a = IF cmd = ReadBatt THEN 5 ELSE 0
    OBVIOUS
  <2>4. PICK b \in Nat : b <= 66 /\ b = IF cmd = ReadDist THEN 2 + n * 4 ELSE 0
    OBVIOUS
  <2>5. ReplySize(cmd, n, s) = 13 + 4 * x + a + b
    BY <2>2, <2>3, <2>4
  <2>6. QED
    BY <2>3, <2>4, <2>5, Width
<1>3. QED
  BY <1>1, <1>2

\* A reply to an accepted request.
LEMMA ReplyFits ==
  ASSUME NEW k \in Nat, NEW r \in Seq(Nat), Len(r) > 0, Len(r) \in {0, 3, 5, 7},
         r[3] \in Command, NEW o \in Outcomes
  PROVE  /\ ReplyTo(k, r, o) \in Reply /\ ReplyTo(k, r, o).to = k
         /\ ReplyTo(k, r, o).id = r[2] /\ ReplyTo(k, r, o).cmd = r[3]
<1>1. r[2] \in Nat
  <2>1. 2 \in 1 .. Len(r)
    OBVIOUS
  <2>2. QED
    BY <2>1, ElementOfSeq
<1>2. o.tuples \in 0 .. 16 /\ o.stray \in 0 .. MaxSize
  BY OutcomeTypes
<1>3. ReplySize(r[3], o.tuples, o.stray) \in 0 .. MaxSize
  BY <1>2, SizeFits
<1>4. QED
  BY <1>1, <1>2, <1>3 DEF ReplyTo, Reply

\* Every step keeps the types.
LEMMA TypesStep ==
  ASSUME FramingInv, [Next]_vars
  PROVE  TypeOK'
<1>0. TypeOK
  BY DEF FramingInv
<1>1. ASSUME NEW c \in Client, Ask(c)
      PROVE  TypeOK'
  <2>1. PICK m \in Forms[c] :
          /\ asked' = [asked EXCEPT ![c] = Append(@, m)]
          /\ wire' = [wire EXCEPT ![c] = @ \o Words(Len(asked[c]) + 1, m)]
    BY <1>1 DEF Ask
  <2>2. /\ asked[c] \in Seq(Seq(Nat)) /\ wire[c] \in Seq(Nat \X Nat)
        /\ Len(asked[c]) + 1 \in Nat /\ m \in Seq(Nat)
    BY <1>0, LenProperties, FormsAssumption DEF TypeOK
  <2>3. Words(Len(asked[c]) + 1, m) \in Seq(Nat \X Nat)
    BY <2>2, WordsOf
  <2>4. /\ Append(asked[c], m) \in Seq(Seq(Nat))
        /\ wire[c] \o Words(Len(asked[c]) + 1, m) \in Seq(Nat \X Nat)
    BY <2>2, <2>3, AppendProperties, ConcatProperties
  <2>5. asked' \in [Client -> Seq(Seq(Nat))] /\ wire' \in [Client -> Seq(Nat \X Nat)]
    BY <1>0, <2>1, <2>4 DEF TypeOK
  <2>6. QED
    BY <1>0, <1>1, <2>5 DEF Ask, TypeOK
<1>2. ASSUME NEW c \in Client, Arrive(c)
      PROVE  TypeOK'
  <2>1. PICK n \in 1 .. Len(wire[c]) :
          /\ arrived' = [arrived EXCEPT ![c] = @ \o SubSeq(wire[c], 1, n)]
          /\ wire' = [wire EXCEPT ![c] = SubSeq(@, n + 1, Len(@))]
    BY <1>2 DEF Arrive
  <2>2. wire[c] \in Seq(Nat \X Nat) /\ arrived[c] \in Seq(Nat \X Nat)
    BY <1>0 DEF TypeOK
  <2>3. /\ SubSeq(wire[c], 1, n) \in Seq(Nat \X Nat)
        /\ SubSeq(wire[c], n + 1, Len(wire[c])) \in Seq(Nat \X Nat)
    BY <2>2, CutTypes
  <2>4. arrived[c] \o SubSeq(wire[c], 1, n) \in Seq(Nat \X Nat)
    BY <2>2, <2>3, ConcatProperties
  <2>5. arrived' \in [Client -> Seq(Nat \X Nat)] /\ wire' \in [Client -> Seq(Nat \X Nat)]
    BY <1>0, <2>1, <2>3, <2>4 DEF TypeOK
  <2>6. QED
    BY <1>0, <1>2, <2>5 DEF Arrive, TypeOK
<1>3. ASSUME NEW c \in Client, Receive(c)
      PROVE  TypeOK'
  <2>1. PICK n \in 1 .. Len(Stream(c)), data \in Seq(Nat) : Taken(c, n, data)
    BY <1>3, ReceiveTakes
  <2>2. Stream(c) \in Seq(Nat \X Nat)
    BY <1>3, ReceiveTakes
  <2>3. arrived' \in [Client -> Seq(Nat \X Nat)]
    BY <1>0, <2>1 DEF TypeOK, Taken
  <2>4. Stream(c)[1][1] \in Nat
    <3>1. 1 \in 1 .. Len(Stream(c))
      BY <2>1, <2>2, LenProperties
    <3>2. QED
      BY <2>2, <3>1, WordOf
  <2>5. /\ busy' \in Client \cup {Nobody} /\ from' \in Nat
        /\ req' \in Seq(Nat) /\ Len(req') \in {0, 3, 5, 7}
        /\ busy' # Nobody => Len(req') > 0 /\ req'[3] \in Command
    <3>1. CASE Accepted(data) /\ busy' = c /\ req' = data /\ from' = Stream(c)[1][1]
      BY <2>4, <3>1, AcceptedLength
    <3>2. CASE UNCHANGED <<busy, req, from>>
      BY <1>0, <3>2 DEF TypeOK
    <3>3. QED
      BY <2>1, <3>1, <3>2 DEF Taken
  <2>6. torn' \in [Client -> BOOLEAN]
    <3>1. \E b : torn' = [torn EXCEPT ![c] = torn[c] \/ ~b]
      BY <1>3 DEF Receive
    <3>2. PICK b : torn' = [torn EXCEPT ![c] = torn[c] \/ ~b]
      BY <3>1
    <3>3. (torn[c] \/ ~b) \in BOOLEAN
      OBVIOUS
    <3>4. torn \in [Client -> BOOLEAN]
      BY <1>0 DEF TypeOK
    <3>5. QED
      BY <3>2, <3>3, <3>4, Zenon
  <2>7. QED
    BY <1>0, <1>3, <2>3, <2>5, <2>6 DEF Receive, TypeOK
<1>4. CASE HandleRequest
  <2>1. busy \in Client /\ req \in Seq(Nat) /\ Len(req) > 0 /\ Len(req) \in {0, 3, 5, 7}
        /\ req[3] \in Command /\ replies[busy] \in Seq(Reply) /\ from \in Nat
    BY <1>0, <1>4 DEF HandleRequest, TypeOK
  <2>2. PICK o \in Outcomes :
          replies' = [replies EXCEPT ![busy] = Append(@, ReplyTo(from, req, o))]
    BY <1>4 DEF HandleRequest
  <2>3. ReplyTo(from, req, o) \in Reply
    BY <2>1, ReplyFits
  <2>4. Append(replies[busy], ReplyTo(from, req, o)) \in Seq(Reply)
    BY <2>1, <2>3, AppendProperties
  <2>5. replies' \in [Client -> Seq(Reply)]
    BY <1>0, <2>1, <2>2, <2>4 DEF TypeOK
  <2>6. <<>> \in Seq(Nat) /\ Len(<<>>) = 0
    BY EmptySeq
  <2>7. QED
    BY <1>0, <1>4, <2>5, <2>6 DEF HandleRequest, TypeOK
<1>5. CASE UNCHANGED vars
  BY <1>0, <1>5 DEF TypeOK, vars
<1>6. QED
  BY <1>1, <1>2, <1>3, <1>4, <1>5 DEF Next

-----------------------------------------------------------------------------
(***************************************************************************)
(* What a step keeps.                                                      *)
(***************************************************************************)
\* Answers stay right where messages stay what they are, and what is gone stays so.
LEMMA AnswersCarry ==
  ASSUME NEW msgs, NEW more, NEW str, NEW rest, NEW cut, NEW after, after \/ ~cut,
         \A k \in DOMAIN msgs : k \in DOMAIN more /\ more[k] = msgs[k],
         \A k \in DOMAIN msgs : Gone(k, str, cut) => Gone(k, rest, after)
  PROVE  /\ \A given : Given(msgs, given, str, cut) => Given(more, given, rest, after)
         /\ \A given, k, r :
              Due(msgs, given, str, cut, k, r) => Due(more, given, rest, after, k, r)
<1>1. ASSUME NEW given, Given(msgs, given, str, cut)
      PROVE  Given(more, given, rest, after)
  BY <1>1, Zenon DEF Given
<1>2. ASSUME NEW given, NEW k, NEW r, Due(msgs, given, str, cut, k, r)
      PROVE  Due(more, given, rest, after, k, r)
  BY <1>2, Zenon DEF Due
<1>3. QED
  BY <1>1, <1>2

\* A client whom a step does not concern.
LEMMA KeptClient ==
  ASSUME NEW c \in Client, ClientInv(c),
         asked'[c] = asked[c], Stream(c)' = Stream(c), replies'[c] = replies[c],
         torn'[c] = torn[c],
         busy' = c => busy = c /\ req' = req /\ from' = from
  PROVE  ClientInv(c)'
<1>1. /\ InPlace(asked[c], Stream(c))
      /\ ~torn[c] => Whole(Stream(c))
      /\ Given(asked[c], replies[c], Stream(c), torn[c])
      /\ busy = c => Due(asked[c], replies[c], Stream(c), torn[c], from, req)
  BY DEF ClientInv
<1>2. /\ InPlace(asked'[c], Stream(c)')
      /\ ~torn'[c] => Whole(Stream(c)')
      /\ Given(asked'[c], replies'[c], Stream(c)', torn'[c])
      /\ busy' = c => Due(asked'[c], replies'[c], Stream(c)', torn'[c], from', req')
  BY <1>1
<1>3. QED
  BY <1>2 DEF ClientInv

\* A client that writes another message.
LEMMA AskStep ==
  ASSUME FramingInv, NEW c \in Client, Ask(c)
  PROVE  ClientInv(c)'
<1>1. PICK m \in Forms[c] :
        /\ asked' = [asked EXCEPT ![c] = Append(@, m)]
        /\ wire' = [wire EXCEPT ![c] = @ \o Words(Len(asked[c]) + 1, m)]
  BY DEF Ask
<1>2. /\ asked \in [Client -> Seq(Seq(Nat))] /\ wire \in [Client -> Seq(Nat \X Nat)]
      /\ asked[c] \in Seq(Seq(Nat)) /\ wire[c] \in Seq(Nat \X Nat)
      /\ arrived[c] \in Seq(Nat \X Nat) /\ m \in Seq(Nat)
  BY FormsAssumption DEF FramingInv, TypeOK
<1> DEFINE msgs == asked[c]
           more == Append(msgs, m)
           str  == Stream(c)
           w    == Words(Len(msgs) + 1, m)
<1>3. PICK n \in Nat : n = Len(msgs) /\ DOMAIN msgs = 1 .. n
  BY <1>2, LenProperties
<1>4. /\ w \in Seq(Nat \X Nat) /\ Len(w) = Len(m)
      /\ \A i \in 1 .. Len(m) : w[i] = <<n + 1, i>>
  <2>1. n + 1 \in Nat
    OBVIOUS
  <2>2. QED
    BY <1>2, <1>3, <2>1, WordsOf
<1>5. asked'[c] = more /\ wire'[c] = wire[c] \o w
  BY <1>1, <1>2
<1>6. str \in Seq(Nat \X Nat)
  BY <1>2, ConcatProperties DEF Stream
<1>7. str' = str \o w
  <2> HIDE DEF w
  <2>1. str' = arrived[c] \o (wire[c] \o w)
    BY <1>5 DEF Ask, Stream
  <2>2. (arrived[c] \o wire[c]) \o w = arrived[c] \o (wire[c] \o w)
    BY <1>2, <1>4, Joined
  <2>3. QED
    BY <2>1, <2>2 DEF Stream
<1>8. InPlace(more, str \o w)
  <2>1. InPlace(msgs, str)
    BY DEF FramingInv, ClientInv
  <2>2. QED
    BY <1>2, <1>6, <2>1, WritesInPlace
<1> HIDE DEF w, str
<1>9. str \o w # <<>>
        => \/ str # <<>> /\ (str \o w)[1] = str[1]
           \/ str = <<>> /\ (str \o w)[1] = <<n + 1, 1>>
  <2>1. CASE str = <<>>
    <3>1. str \o w = w
      BY <1>4, <2>1, ConcatEmptySeq
    <3>2. w # <<>> => Len(m) \in Nat /\ Len(m) > 0
      BY <1>4, EmptySeq
    <3>3. w # <<>> => 1 \in 1 .. Len(m)
      BY <3>2
    <3>4. w # <<>> => w[1] = <<n + 1, 1>>
      BY <1>4, <3>3
    <3>5. QED
      BY <2>1, <3>1, <3>4
  <2>2. CASE str # <<>>
    <3>1. Len(str) \in Nat /\ Len(str) > 0 /\ Len(w) \in Nat
      BY <1>4, <1>6, <2>2, EmptySeq, LenProperties
    <3>2. 1 \in 1 .. Len(str) + Len(w) /\ 1 <= Len(str)
      BY <3>1
    <3>3. (str \o w)[1] = str[1]
      BY <1>4, <1>6, <3>2, ConcatProperties
    <3>4. QED
      BY <2>2, <3>3
  <2>3. QED
    BY <2>1, <2>2
<1>10. Whole(str) => Whole(str \o w)
  <2>1. <<n + 1, 1>>[2] = 1
    OBVIOUS
  <2>2. QED
    BY <1>9, <2>1 DEF Whole
<1>11. \A k \in DOMAIN msgs : Gone(k, str, torn[c]) => Gone(k, str \o w, torn[c])
  <2>1. SUFFICES ASSUME NEW k \in 1 .. n, Gone(k, str, torn[c]), str \o w # <<>>
                 PROVE  /\ k <= (str \o w)[1][1]
                        /\ ~torn[c] => k < (str \o w)[1][1]
    BY <1>3 DEF Gone
  <2>2. CASE str # <<>> /\ (str \o w)[1] = str[1]
    BY <2>1, <2>2 DEF Gone
  <2>3. CASE (str \o w)[1] = <<n + 1, 1>>
    <3>1. (str \o w)[1][1] = n + 1
      BY <2>3
    <3>2. k <= n + 1 /\ k < n + 1
      OBVIOUS
    <3>3. QED
      BY <3>1, <3>2
  <2>4. QED
    BY <1>9, <2>1, <2>2, <2>3
<1>12. \A k \in DOMAIN msgs : k \in DOMAIN more /\ more[k] = msgs[k]
  <2>1. more \in Seq(Seq(Nat)) /\ Len(more) = n + 1 /\ \A k \in 1 .. n : more[k] = msgs[k]
    BY <1>2, <1>3, AppendProperties
  <2>2. DOMAIN more = 1 .. n + 1
    BY <2>1, LenProperties
  <2>3. QED
    BY <1>3, <2>1, <2>2
<1>13. /\ ~torn[c] => Whole(str)
       /\ Given(msgs, replies[c], str, torn[c])
       /\ busy = c => Due(msgs, replies[c], str, torn[c], from, req)
  BY DEF FramingInv, ClientInv, str
<1> HIDE DEF msgs, more
<1>14. /\ Given(more, replies[c], str \o w, torn[c])
       /\ busy = c => Due(more, replies[c], str \o w, torn[c], from, req)
  BY <1>11, <1>12, <1>13, AnswersCarry
<1>15. /\ asked'[c] = more /\ Stream(c)' = str \o w
       /\ replies' = replies /\ busy' = busy /\ req' = req /\ from' = from /\ torn' = torn
  BY <1>5, <1>7 DEF Ask, str
<1>16. QED
  BY <1>8, <1>10, <1>13, <1>14, <1>15 DEF ClientInv

\* What comes over the network stays in its place.
LEMMA ArriveKeepsStream ==
  ASSUME TypeOK, NEW c \in Client, Arrive(c)
  PROVE  Stream(c)' = Stream(c)
<1>1. PICK n \in 1 .. Len(wire[c]) :
        /\ arrived' = [arrived EXCEPT ![c] = @ \o SubSeq(wire[c], 1, n)]
        /\ wire' = [wire EXCEPT ![c] = SubSeq(@, n + 1, Len(@))]
  BY DEF Arrive
<1>2. /\ arrived \in [Client -> Seq(Nat \X Nat)] /\ wire \in [Client -> Seq(Nat \X Nat)]
      /\ arrived[c] \in Seq(Nat \X Nat) /\ wire[c] \in Seq(Nat \X Nat)
  BY DEF TypeOK
<1>3. PICK front \in Seq(Nat \X Nat), rest \in Seq(Nat \X Nat) :
        /\ front = SubSeq(wire[c], 1, n) /\ rest = SubSeq(wire[c], n + 1, Len(wire[c]))
        /\ front \o rest = wire[c]
  BY <1>2, CutTypes
<1>4. arrived'[c] = arrived[c] \o front /\ wire'[c] = rest
  BY <1>1, <1>2, <1>3
<1>5. (arrived[c] \o front) \o rest = arrived[c] \o (front \o rest)
  <2>1. PICK old \in Seq(Nat \X Nat) : old = arrived[c]
    BY <1>2
  <2>2. (old \o front) \o rest = old \o (front \o rest)
    BY Joined
  <2>3. QED
    BY <2>1, <2>2
<1>6. QED
  BY <1>3, <1>4, <1>5 DEF Stream

\* When the first n words are taken, what follows is in place; it begins where a
\* message does, and with another, if the last word taken ends one.
Moves(msgs, str, n, rest) ==
  /\ InPlace(msgs, rest)
  /\ EndsAt(msgs, str, n) => Whole(rest)
  /\ Gone(str[1][1], rest, ~EndsAt(msgs, str, n))
  /\ \A k \in Nat : \A cut :
       Gone(k, str, cut) => Gone(k, rest, cut) /\ k <= str[1][1] /\ (~cut => k < str[1][1])

LEMMA TakingMoves ==
  ASSUME NEW msgs, NEW str \in Seq(Nat \X Nat), InPlace(msgs, str), NEW n \in 1 .. Len(str),
         NEW rest \in Seq(Nat \X Nat), IsRest(rest, str, n)
  PROVE  Moves(msgs, str, n, rest)
<1>1. PICK z \in Nat : z = Len(str)
  BY LenProperties
<1>2. /\ n \in 1 .. z /\ Len(rest) = z - n
      /\ \A i \in 1 .. z - n : rest[i] = str[n + i]
  BY <1>1 DEF IsRest
<1>3. InPlace(msgs, rest)
  BY <1>1, <1>2, RestInPlace
<1>4. str # <<>>
  <2>1. Len(str) # 0
    BY <1>1, <1>2
  <2>2. QED
    BY <2>1, EmptySeq
<1>5. PICK k1 \in Nat, i1 \in Nat : str[1] = <<k1, i1>> /\ str[1][1] = k1 /\ str[1][2] = i1
  <2>1. 1 \in 1 .. Len(str)
    BY <1>1, <1>2
  <2>2. QED
    BY <2>1, WordOf
<1>6. PICK kn \in Nat, in \in Nat :
        str[n] = <<kn, in>> /\ str[n][1] = kn /\ str[n][2] = in
  BY WordOf
<1>7. k1 <= kn
  <2>1. CASE n = 1
    BY <1>5, <1>6, <2>1
  <2>2. CASE n # 1
    <3>1. 1 \in 1 .. Len(str) /\ n \in 1 + 1 .. Len(str)
      BY <1>1, <1>2, <2>2
    <3>2. Rises(Len(msgs[k1]), str, 1, k1, i1)
      BY <1>5, <3>1, Placed
    <3>3. QED
      BY <1>6, <3>1, <3>2 DEF Rises
  <2>3. QED
    BY <2>1, <2>2
<1>8. ASSUME rest # <<>>
      PROVE  \E kr \in Nat :
               /\ rest[1][1] = kr /\ kn <= kr
               /\ EndsAt(msgs, str, n) => kn < kr /\ rest[1][2] = 1
  <2>1. z - n > 0
    BY <1>2, <1>8, EmptySeq
  <2>2. n + 1 \in 1 .. Len(str) /\ n + 1 \in n + 1 .. Len(str) /\ n < Len(str)
        /\ 1 \in 1 .. z - n
    <3>1. n \in Nat /\ n >= 1 /\ n < z
      BY <1>2, <2>1
    <3>2. n + 1 \in 1 .. z /\ n + 1 \in n + 1 .. z /\ 1 \in 1 .. z - n
      BY <3>1
    <3>3. QED
      BY <1>1, <3>1, <3>2
  <2>3. rest[1] = str[n + 1]
    BY <1>2, <2>2
  <2>4. PICK kr \in Nat, ir \in Nat :
          str[n + 1] = <<kr, ir>> /\ str[n + 1][1] = kr /\ str[n + 1][2] = ir
    BY <2>2, WordOf
  <2>5. /\ Rises(Len(msgs[kn]), str, n, kn, in)
        /\ in = Len(msgs[kn]) /\ n < Len(str) => str[n + 1][2] = 1
    BY <1>6, Placed
  <2>6. kn <= kr /\ (in = Len(msgs[kn]) => kn < kr)
    BY <2>2, <2>4, <2>5 DEF Rises
  <2>7. EndsAt(msgs, str, n) => in = Len(msgs[kn])
    BY <1>6 DEF EndsAt
  <2>8. QED
    BY <2>2, <2>3, <2>4, <2>5, <2>6, <2>7
<1>9. EndsAt(msgs, str, n) => Whole(rest)
  BY <1>8 DEF Whole
<1>10. Gone(str[1][1], rest, ~EndsAt(msgs, str, n))
  <2>1. SUFFICES ASSUME rest # <<>>
                 PROVE  k1 <= rest[1][1] /\ (EndsAt(msgs, str, n) => k1 < rest[1][1])
    BY <1>5 DEF Gone
  <2>2. PICK kr \in Nat : rest[1][1] = kr /\ kn <= kr /\ (EndsAt(msgs, str, n) => kn < kr)
    BY <1>8, <2>1
  <2>3. k1 <= kr /\ (kn < kr => k1 < kr)
    BY <1>7, <2>2
  <2>4. QED
    BY <2>2, <2>3
<1>11. ASSUME NEW k \in Nat, NEW cut, Gone(k, str, cut)
       PROVE  Gone(k, rest, cut) /\ k <= str[1][1] /\ (~cut => k < str[1][1])
  <2>1. k <= k1 /\ (~cut => k < k1)
    BY <1>4, <1>5, <1>11 DEF Gone
  <2>2. ASSUME rest # <<>>
        PROVE  k <= rest[1][1] /\ (~cut => k < rest[1][1])
    <3>1. PICK kr \in Nat : rest[1][1] = kr /\ kn <= kr
      BY <1>8, <2>2
    <3>2. k <= kr /\ (k < k1 => k < kr)
      BY <1>7, <2>1, <3>1
    <3>3. QED
      BY <2>1, <3>1, <3>2
  <2>3. QED
    BY <1>5, <2>1, <2>2 DEF Gone
<1>12. QED
  BY <1>3, <1>9, <1>10, <1>11, Zenon DEF Moves

\* What recv() takes is the next request, if it is one.
LEMMA ReceiveStep ==
  ASSUME FramingInv, NEW c \in Client, Receive(c)
  PROVE  ClientInv(c)'
<1>1. PICK n \in 1 .. Len(Stream(c)), data \in Seq(Nat) : Taken(c, n, data)
  BY ReceiveTakes
<1>2. PICK str, rest, msgs, given :
        /\ str = Stream(c) /\ rest = Stream(c)' /\ msgs = asked[c] /\ given = replies[c]
        /\ str \in Seq(Nat \X Nat) /\ msgs \in Seq(Seq(Nat)) /\ given \in Seq(Reply)
  <2>1. Stream(c) \in Seq(Nat \X Nat)
    BY ReceiveTakes
  <2>2. asked[c] \in Seq(Seq(Nat)) /\ replies[c] \in Seq(Reply)
    BY DEF FramingInv, TypeOK
  <2>3. QED
    BY <2>1, <2>2, Zenon
<1>3. /\ n \in 1 .. Len(str) /\ Says(data, msgs, str, n) /\ IsRest(rest, str, n)
      /\ torn'[c] = (torn[c] \/ ~EndsAt(msgs, str, n))
      /\ \/ Accepted(data) /\ busy' = c /\ req' = data /\ from' = str[1][1]
         \/ ~Accepted(data) /\ UNCHANGED <<busy, req, from>>
  BY <1>1, <1>2 DEF Taken
<1>4. rest \in Seq(Nat \X Nat)
  <2>1. arrived'[c] \in Seq(Nat \X Nat) /\ wire'[c] \in Seq(Nat \X Nat)
    BY <1>1 DEF FramingInv, TypeOK, Receive, Taken
  <2>2. QED
    BY <1>2, <2>1, ConcatProperties DEF Stream
<1>5. /\ InPlace(msgs, str) /\ (~torn[c] => Whole(str))
      /\ Given(msgs, given, str, torn[c])
  BY <1>2 DEF FramingInv, ClientInv
<1>6. busy = Nobody /\ busy # c /\ asked' = asked /\ replies' = replies
  BY NobodyAssumption DEF Receive
<1>7. /\ InPlace(msgs, rest)
      /\ EndsAt(msgs, str, n) => Whole(rest)
      /\ Gone(str[1][1], rest, ~EndsAt(msgs, str, n))
      /\ \A k \in Nat : \A cut :
           Gone(k, str, cut) => Gone(k, rest, cut) /\ k <= str[1][1] /\ (~cut => k < str[1][1])
  <2>1. Moves(msgs, str, n, rest)
    BY <1>2, <1>3, <1>4, <1>5, TakingMoves
  <2>2. QED
    BY <2>1, Zenon DEF Moves
<1>8. ~torn'[c] => ~torn[c] /\ EndsAt(msgs, str, n) /\ Whole(rest)
  BY <1>3, <1>7
<1>9. DOMAIN msgs \subseteq Nat
  <2>1. PICK seq \in Seq(Seq(Nat)) : seq = msgs
    BY <1>2
  <2>2. DOMAIN seq = 1 .. Len(seq) /\ Len(seq) \in Nat
    BY LenProperties
  <2>3. QED
    BY <2>1, <2>2
<1>10. Given(msgs, given, rest, torn'[c])
  <2>1. \A k \in DOMAIN msgs : Gone(k, str, torn[c]) => Gone(k, rest, torn'[c])
    BY <1>7, <1>8, <1>9 DEF Gone
  <2>2. torn'[c] \/ ~torn[c]
    BY <1>8
  <2>3. \A k \in DOMAIN msgs : k \in DOMAIN msgs /\ msgs[k] = msgs[k]
    OBVIOUS
  <2>4. QED
    BY <1>5, <2>1, <2>2, <2>3, AnswersCarry
<1>11. ASSUME busy' = c
       PROVE  Due(msgs, given, rest, torn'[c], from', req')
  <2>1. Accepted(data) /\ req' = data /\ from' = str[1][1]
    BY <1>3, <1>6, <1>11
  <2>2. PICK k \in Nat, i \in Nat : str[1] = <<k, i>> /\ str[1][1] = k /\ str[1][2] = i
    <3>1. 1 \in 1 .. Len(str)
      BY <1>2, <1>3, LenProperties
    <3>2. QED
      BY <1>2, <3>1, WordOf
  <2>3. k \in DOMAIN msgs
    <3>1. 1 \in 1 .. Len(str)
      BY <1>3, LenProperties
    <3>2. InPlace(msgs, str)
      BY <1>5
    <3>3. str[1] = <<k, i>>
      BY <2>2
    <3>4. QED
      BY <3>1, <3>2, <3>3, FirstPlaced
  <2>4. Gone(k, rest, torn'[c])
    BY <1>7, <1>8, <2>2 DEF Gone
  <2>5. ASSUME NEW j \in 1 .. Len(given)
        PROVE  given[j].to <= k /\ (~torn'[c] => given[j].to < k)
    <3>1. given[j].to \in Nat /\ Gone(given[j].to, str, torn[c])
      BY <1>5, <1>9 DEF Given
    <3>2. QED
      BY <1>7, <1>8, <2>2, <3>1
  <2>6. ASSUME ~torn'[c]
        PROVE  Answers([id |-> data[2], cmd |-> data[3]], msgs[k])
    <3>1. str # <<>>
      <4>1. Len(str) # 0
        BY <1>3, LenProperties
      <4>2. QED
        BY <4>1, EmptySeq
    <3>2. Whole(str) /\ EndsAt(msgs, str, n)
      BY <1>5, <1>8, <2>6
    <3>3. StartsWith(str, k)
      BY <2>2, <3>1, <3>2 DEF Whole, StartsWith
    <3>4. QED
      BY <1>2, <1>3, <1>5, <2>1, <3>2, <3>3, AcceptedIsMessage
  <2>7. QED
    BY <2>1, <2>2, <2>3, <2>4, <2>5, <2>6 DEF Due
<1>12. /\ InPlace(asked'[c], Stream(c)')
       /\ ~torn'[c] => Whole(Stream(c)')
       /\ Given(asked'[c], replies'[c], Stream(c)', torn'[c])
       /\ busy' = c => Due(asked'[c], replies'[c], Stream(c)', torn'[c], from', req')
  BY <1>2, <1>6, <1>7, <1>8, <1>10, <1>11
<1>13. QED
  BY <1>12 DEF ClientInv

\* The answer to the next request comes behind the others.
LEMMA HandleStep ==
  ASSUME FramingInv, HandleRequest, NEW c \in Client
  PROVE  ClientInv(c)'
<1>1. TypeOK /\ ClientInv(c) /\ busy \in Client
  BY DEF FramingInv, TypeOK, HandleRequest
<1>2. PICK o \in Outcomes :
        replies' = [replies EXCEPT ![busy] = Append(@, ReplyTo(from, req, o))]
  BY DEF HandleRequest
<1>3. /\ replies \in [Client -> Seq(Reply)] /\ asked' = asked /\ Stream(c)' = Stream(c)
      /\ busy' = Nobody /\ busy' # c /\ torn' = torn
  BY <1>1, NobodyAssumption DEF TypeOK, HandleRequest, Stream
<1>4. CASE busy # c
  <2>1. replies'[c] = replies[c]
    BY <1>1, <1>2, <1>3, <1>4
  <2>2. QED
    BY <1>1, <1>3, <2>1, KeptClient
<1>5. CASE busy = c
  <2>1. /\ req \in Seq(Nat) /\ Len(req) > 0 /\ Len(req) \in {0, 3, 5, 7} /\ req[3] \in Command
        /\ from \in Nat
    BY <1>1, <1>5, NobodyAssumption DEF TypeOK
  <2>2. PICK r \in Reply :
          r = ReplyTo(from, req, o) /\ r.to = from /\ r.id = req[2] /\ r.cmd = req[3]
    BY <2>1, ReplyFits
  <2>3. PICK given, msgs, str, cut :
          given \in Seq(Reply) /\ given = replies[c] /\ msgs = asked[c] /\ str = Stream(c) /\ cut = torn[c]
    BY <1>3
  <2>4. replies'[c] = Append(given, r)
    BY <1>1, <1>2, <1>3, <1>5, <2>2, <2>3
  <2>5. Given(msgs, given, str, cut) /\ Due(msgs, given, str, cut, from, req)
    BY <1>1, <1>5, <2>3 DEF ClientInv
  <2>6. Given(msgs, Append(given, r), str, cut)
    <3>1. PICK l \in Nat : l = Len(given)
      BY <2>3, LenProperties
    <3>2. PICK longer : longer = Append(given, r)
      OBVIOUS
    <3>3. /\ Len(longer) = l + 1
          /\ \A i \in 1 .. l : longer[i] = given[i]
          /\ longer[l + 1] = r
      BY <2>3, <3>1, <3>2, AppendProperties
    <3>4. ASSUME NEW i \in 1 .. l + 1
          PROVE  /\ longer[i].to \in DOMAIN msgs /\ Gone(longer[i].to, str, cut)
                 /\ i > 1 => longer[i - 1].to <= longer[i].to
                 /\ ~cut => /\ Answers(longer[i], msgs[longer[i].to])
                            /\ i > 1 => longer[i - 1].to < longer[i].to
      <4>1. CASE i <= l
        <5>1. i \in 1 .. l /\ longer[i] = given[i]
          BY <3>3, <4>1
        <5>2. i > 1 => longer[i - 1] = given[i - 1]
          BY <3>3, <4>1
        <5>3. QED
          BY <2>5, <3>1, <5>1, <5>2 DEF Given
      <4>2. CASE ~(i <= l)
        <5>1. i = l + 1 /\ longer[i] = r
          BY <3>3, <4>2
        <5>2. i > 1 => i - 1 \in 1 .. l
          BY <5>1
        <5>3. i > 1 => longer[i - 1] = given[i - 1]
          BY <3>3, <5>2
        <5>4. i > 1 => given[i - 1].to <= from /\ (~cut => given[i - 1].to < from)
          BY <2>5, <3>1, <5>2 DEF Due
        <5>5. from \in DOMAIN msgs /\ Gone(from, str, cut)
              /\ (~cut => Answers([id |-> req[2], cmd |-> req[3]], msgs[from]))
          BY <2>5 DEF Due
        <5>6. ~cut => Answers(r, msgs[from])
          BY <2>2, <5>5 DEF Answers
        <5>7. QED
          BY <2>2, <5>1, <5>3, <5>4, <5>5, <5>6
      <4>3. QED
        BY <4>1, <4>2
    <3>5. QED
      BY <3>2, <3>3, <3>4 DEF Given
  <2>7. InPlace(msgs, str) /\ (~cut => Whole(str))
    BY <1>1, <2>3 DEF ClientInv
  <2>8. /\ InPlace(asked'[c], Stream(c)')
        /\ ~torn'[c] => Whole(Stream(c)')
        /\ Given(asked'[c], replies'[c], Stream(c)', torn'[c])
    BY <1>3, <2>3, <2>4, <2>6, <2>7
  <2>9. QED
    BY <1>3, <2>8 DEF ClientInv
<1>6. QED
  BY <1>4, <1>5

-----------------------------------------------------------------------------
(***************************************************************************)
(* The invariant, and what follows from it.                                *)
(***************************************************************************)
\* At first nothing is written, received or answered.
LEMMA InitFraming == Init => FramingInv
<1> SUFFICES ASSUME Init
             PROVE  FramingInv
  OBVIOUS
<1>1. /\ <<>> \in Seq(Nat) /\ Len(<<>>) = 0 /\ <<>> \in Seq(Seq(Nat)) /\ <<>> \in Seq(Reply)
      /\ <<>> \in Seq(Nat \X Nat)
  BY EmptySeq
<1>2. TypeOK
  BY <1>1 DEF Init, TypeOK
<1>3. ASSUME NEW c \in Client
      PROVE  ClientInv(c)
  <2>1. replies[c] = <<>> /\ busy # c
    BY NobodyAssumption DEF Init
  <2>2. Stream(c) = <<>>
    <3>1. arrived[c] = <<>> /\ wire[c] = <<>>
      BY DEF Init
    <3>2. QED
      BY <1>1, <3>1, ConcatEmptySeq DEF Stream
  <2>3. 1 .. Len(Stream(c)) = {} /\ 1 .. Len(replies[c]) = {}
    BY <1>1, <2>1, <2>2
  <2>4. InPlace(asked[c], Stream(c))
    BY <2>3 DEF InPlace
  <2>5. Given(asked[c], replies[c], Stream(c), torn[c])
    BY <2>3 DEF Given
  <2>6. QED
    BY <2>1, <2>2, <2>4, <2>5 DEF ClientInv, Whole
<1>4. QED
  BY <1>2, <1>3 DEF FramingInv

\* A step concerns one client, and leaves the others' streams and answers alone.
LEMMA NextPreservesFramingInv ==
  ASSUME FramingInv, [Next]_vars
  PROVE  FramingInv'
<1>1. TypeOK'
  BY TypesStep
<1>2. ASSUME NEW c \in Client
      PROVE  ClientInv(c)'
  <2>1. TypeOK /\ ClientInv(c)
    BY DEF FramingInv
  <2>2. ASSUME NEW d \in Client, Ask(d)
        PROVE  ClientInv(c)'
    <3>1. CASE c = d
      BY <2>2, <3>1, AskStep
    <3>2. CASE c # d
      <4>1. /\ asked'[c] = asked[c] /\ wire'[c] = wire[c] /\ arrived' = arrived
            /\ replies' = replies /\ busy' = busy /\ req' = req /\ from' = from /\ torn' = torn
        BY <2>1, <2>2, <3>2 DEF Ask, TypeOK
      <4>2. Stream(c)' = Stream(c)
        BY <4>1 DEF Stream
      <4>3. QED
        BY <2>1, <4>1, <4>2, KeptClient
    <3>3. QED
      BY <3>1, <3>2
  <2>3. ASSUME NEW d \in Client, Arrive(d)
        PROVE  ClientInv(c)'
    <3>1. /\ asked' = asked /\ replies' = replies /\ busy' = busy /\ req' = req
          /\ from' = from /\ torn' = torn
      BY <2>3 DEF Arrive
    <3>2. Stream(c)' = Stream(c)
      <4>1. CASE c = d
        BY <2>1, <2>3, <4>1, ArriveKeepsStream
      <4>2. CASE c # d
        BY <2>1, <2>3, <4>2 DEF Arrive, TypeOK, Stream
      <4>3. QED
        BY <4>1, <4>2
    <3>3. QED
      BY <2>1, <3>1, <3>2, KeptClient
  <2>4. ASSUME NEW d \in Client, Receive(d)
        PROVE  ClientInv(c)'
    <3>1. CASE c = d
      BY <2>4, <3>1, ReceiveStep
    <3>2. CASE c # d
      <4>1. /\ arrived'[c] = arrived[c]
            /\ busy' = d \/ UNCHANGED <<busy, req, from>>
        <5>1. PICK n \in 1 .. Len(Stream(d)), data \in Seq(Nat) : Taken(d, n, data)
          BY <2>4, ReceiveTakes
        <5>2. QED
          BY <2>1, <3>2, <5>1 DEF Taken, TypeOK
      <4>2. /\ asked' = asked /\ wire' = wire /\ replies' = replies /\ torn'[c] = torn[c]
        BY <2>1, <2>4, <3>2 DEF Receive, TypeOK
      <4>3. Stream(c)' = Stream(c)
        BY <4>1, <4>2 DEF Stream
      <4>4. busy' = c => busy = c /\ req' = req /\ from' = from
        BY <3>2, <4>1
      <4>5. QED
        BY <2>1, <4>2, <4>3, <4>4, KeptClient
    <3>3. QED
      BY <3>1, <3>2
  <2>5. CASE HandleRequest
    BY <2>5, HandleStep
  <2>6. CASE UNCHANGED vars
    <3>1. /\ asked' = asked /\ Stream(c)' = Stream(c) /\ replies' = replies
          /\ busy' = busy /\ req' = req /\ from' = from /\ torn' = torn
      BY <2>6 DEF vars, Stream
    <3>2. QED
      BY <2>1, <3>1, KeptClient
  <2>7. QED
    BY <2>2, <2>3, <2>4, <2>5, <2>6 DEF Next
<1>3. QED
  BY <1>1, <1>2 DEF FramingInv

\* What has been answered has been asked.
LEMMA FramingAnswers == FramingInv => RepliesAnswerInOrder
<1> SUFFICES ASSUME FramingInv, NEW c \in Client, NEW i \in DOMAIN replies[c]
             PROVE  /\ replies[c][i].to \in DOMAIN asked[c]
                    /\ i > 1 => replies[c][i - 1].to <= replies[c][i].to
                    /\ ~torn[c] => /\ Answers(replies[c][i], asked[c][replies[c][i].to])
                                   /\ i > 1 => replies[c][i - 1].to < replies[c][i].to
  BY DEF RepliesAnswerInOrder
<1>1. DOMAIN replies[c] = 1 .. Len(replies[c])
  <2>1. replies[c] \in Seq(Reply)
    BY DEF FramingInv, TypeOK
  <2>2. QED
    BY <2>1, LenProperties
<1>2. Given(asked[c], replies[c], Stream(c), torn[c])
  BY DEF FramingInv, ClientInv
<1>3. QED
  BY <1>1, <1>2 DEF Given

\* Every behavior of the command server is one of FramingInv.
LEMMA FramingInvariant == Spec => []FramingInv
<1>1. Init => FramingInv
  BY InitFraming
<1>2. FramingInv /\ [Next]_vars => FramingInv'
  BY NextPreservesFramingInv
<1>3. QED
  BY <1>1, <1>2, PTL DEF Spec

\* A request under way is as long as one of the three kinds of commands, and a
\* reply's size fits its 16 bits (tcpserver.cpp, reply.cpp).
THEOREM FramingTypes == Spec => []TypeOK
<1>1. FramingInv => TypeOK
  BY DEF FramingInv
<1>2. QED
  BY <1>1, FramingInvariant, PTL

\* However what clients write is cut and joined on its way, and whatever its words
\* look like, a reply goes to the client that asked, and in order; and until a recv()
\* ends inside one of its messages it is one reply at most to each, with its id and
\* command, and none to a malformed one (tcpserver.cpp:56-101).
THEOREM RepliesMatchRequests == Spec => []RepliesAnswerInOrder
<1>1. QED
  BY FramingInvariant, FramingAnswers, PTL

-----------------------------------------------------------------------------
(***************************************************************************)
(* The abstract server.                                                    *)
(***************************************************************************)
\* What the messages of a client ask for.
Wants(msgs) == [k \in DOMAIN msgs |-> AsksFor(msgs[k])]

\* Which of its messages a client has been answered with what.
Told(given) ==
  [i \in DOMAIN given |-> [request |-> given[i].to, cmd |-> given[i].cmd]]

\* A sequence that has grown by one element is the old one with it appended.
LEMMA GrownByOne ==
  ASSUME NEW n \in Nat, NEW s, NEW t,
         s = [i \in 1 .. n |-> s[i]], t = [i \in 1 .. n + 1 |-> t[i]],
         \A i \in 1 .. n : t[i] = s[i]
  PROVE  t = Append(s, t[n + 1])
<1> DEFINE T == {t[i] : i \in 1 .. n + 1}
<1>0. n + 1 \in Nat /\ n + 1 \in 1 .. n + 1 /\ \A i \in 1 .. n : i \in 1 .. n + 1
  OBVIOUS
<1>1. s \in Seq(T) /\ Len(s) = n
  <2>1. \A i \in 1 .. n : s[i] \in T
    BY <1>0
  <2>2. s \in [1 .. n -> T]
    BY <2>1
  <2>3. QED
    BY <2>2
<1>2. t \in Seq(T) /\ Len(t) = n + 1 /\ t[n + 1] \in T
  <2>1. t \in [1 .. n + 1 -> T]
    OBVIOUS
  <2> HIDE DEF T
  <2>2. t \in Seq(T) /\ Len(t) = n + 1
    BY <1>0, <2>1
  <2>3. QED
    BY <1>0, <2>1, <2>2
<1> HIDE DEF T
<1>3. /\ Append(s, t[n + 1]) \in Seq(T)
      /\ Len(Append(s, t[n + 1])) = n + 1
      /\ \A i \in 1 .. n : Append(s, t[n + 1])[i] = s[i]
      /\ Append(s, t[n + 1])[n + 1] = t[n + 1]
  BY <1>1, <1>2, AppendProperties
<1>4. \A i \in 1 .. Len(t) : t[i] = Append(s, t[n + 1])[i]
  <2>1. \A i \in 1 .. Len(t) : i \in 1 .. n \/ i = n + 1
    BY <1>2
  <2>2. QED
    BY <1>3, <2>1
<1>5. QED
  BY <1>2, <1>3, <1>4, SeqEqual

\* A message more asks for one thing more.
LEMMA AskedGrows ==
  ASSUME NEW msgs \in Seq(Seq(Nat)), NEW m \in Seq(Nat)
  PROVE  Wants(Append(msgs, m)) = Append(Wants(msgs), AsksFor(m))
<1> DEFINE n == Len(msgs)
           s == Wants(msgs)
           t == Wants(Append(msgs, m))
<1>1. n \in Nat /\ DOMAIN msgs = 1 .. n
  BY LenProperties
<1>2. /\ Append(msgs, m) \in Seq(Seq(Nat)) /\ Len(Append(msgs, m)) = n + 1
      /\ \A i \in 1 .. n : Append(msgs, m)[i] = msgs[i]
      /\ Append(msgs, m)[n + 1] = m
  BY <1>1, AppendProperties
<1>3. DOMAIN Append(msgs, m) = 1 .. n + 1
  BY <1>2, LenProperties
<1>4. s = [i \in 1 .. n |-> s[i]] /\ \A i \in 1 .. n : s[i] = AsksFor(msgs[i])
  BY <1>1 DEF Wants
<1>5. /\ t = [i \in 1 .. n + 1 |-> t[i]]
      /\ \A i \in 1 .. n + 1 : t[i] = AsksFor(Append(msgs, m)[i])
  BY <1>3 DEF Wants
<1> HIDE DEF n, s, t
<1>6. n + 1 \in 1 .. n + 1 /\ \A i \in 1 .. n : i \in 1 .. n + 1
  BY <1>1
<1>7. t[n + 1] = AsksFor(m) /\ \A i \in 1 .. n : t[i] = s[i]
  BY <1>2, <1>4, <1>5, <1>6
<1>8. t = Append(s, t[n + 1])
  BY <1>1, <1>4, <1>5, <1>7, GrownByOne
<1>9. QED
  BY <1>7, <1>8 DEF s, t

\* A reply more answers one request more.
LEMMA AnsweredGrows ==
  ASSUME NEW given \in Seq(Reply), NEW r \in Reply
  PROVE  Told(Append(given, r)) = Append(Told(given), [request |-> r.to, cmd |-> r.cmd])
<1> DEFINE n == Len(given)
           s == Told(given)
           t == Told(Append(given, r))
           tell(a) == [request |-> a.to, cmd |-> a.cmd]
<1>1. n \in Nat /\ DOMAIN given = 1 .. n
  BY LenProperties
<1>2. /\ Append(given, r) \in Seq(Reply) /\ Len(Append(given, r)) = n + 1
      /\ \A i \in 1 .. n : Append(given, r)[i] = given[i]
      /\ Append(given, r)[n + 1] = r
  BY <1>1, AppendProperties
<1>3. DOMAIN Append(given, r) = 1 .. n + 1
  BY <1>2, LenProperties
<1>4. s = [i \in 1 .. n |-> s[i]] /\ \A i \in 1 .. n : s[i] = tell(given[i])
  BY <1>1 DEF Told
<1>5. /\ t = [i \in 1 .. n + 1 |-> t[i]]
      /\ \A i \in 1 .. n + 1 : t[i] = tell(Append(given, r)[i])
  BY <1>3 DEF Told
<1> HIDE DEF n, s, t, tell
<1>6. n + 1 \in 1 .. n + 1 /\ \A i \in 1 .. n : i \in 1 .. n + 1
  BY <1>1
<1>7. t[n + 1] = tell(r) /\ \A i \in 1 .. n : t[i] = s[i]
  BY <1>2, <1>4, <1>5, <1>6
<1>8. t = Append(s, t[n + 1])
  BY <1>1, <1>4, <1>5, <1>7, GrownByOne
<1>9. QED
  BY <1>7, <1>8 DEF s, t, tell

\* The abstract server's variables, by those operators.
asks    == [c \in Client |-> Wants(asked[c])]
answers == [c \in Client |-> Told(replies[c])]
unclear == {c \in Client : torn[c]}

LEMMA InitMapsToService == Init => Service!Init
<1> SUFFICES ASSUME Init PROVE Service!Init
  OBVIOUS
<1>1. \A c \in Client : asked[c] = <<>> /\ replies[c] = <<>> /\ ~torn[c]
  BY DEF Init
<1>2. \A c \in Client : Wants(asked[c]) = <<>> /\ Told(replies[c]) = <<>>
  <2>1. Wants(<<>>) = <<>>
    BY DEF Wants
  <2>2. Told(<<>>) = <<>>
    BY DEF Told
  <2>3. QED
    BY <1>1, <2>1, <2>2
<1>3. asks = [c \in Client |-> <<>>] /\ answers = [c \in Client |-> <<>>] /\ unclear = {}
  BY <1>1, <1>2 DEF asks, answers, unclear
<1>4. QED
  BY <1>3 DEF Service!Init, asks, answers, unclear, Wants, Told

\* A client that writes a message asks for something, or for nothing.
LEMMA AskMapsToAsk ==
  ASSUME TypeOK, NEW c \in Client, Ask(c)
  PROVE  Service!Ask(c)
<1>1. PICK m \in Forms[c] : asked' = [asked EXCEPT ![c] = Append(@, m)]
  BY DEF Ask
<1>2. /\ asked[c] \in Seq(Seq(Nat)) /\ asked \in [Client -> Seq(Seq(Nat))]
      /\ m \in Seq(Nat)
  BY FormsAssumption DEF TypeOK
<1>3. asked'[c] = Append(asked[c], m) /\ \A d \in Client : d # c => asked'[d] = asked[d]
  BY <1>1, <1>2
<1>4. Wants(asked'[c]) = Append(Wants(asked[c]), AsksFor(m))
  BY <1>2, <1>3, AskedGrows
<1>5. asks' = [asks EXCEPT ![c] = Append(@, AsksFor(m))]
  BY <1>3, <1>4 DEF asks
<1>6. AsksFor(m) \in Command \cup {NoCommand, Unclear}
  BY DEF AsksFor, WellFormed
<1>7. answers' = answers /\ unclear' = unclear
  BY DEF Ask, answers, unclear
<1>8. /\ \E cmd \in Command \cup {NoCommand, Unclear} :
           asks' = [asks EXCEPT ![c] = Append(@, cmd)]
      /\ UNCHANGED <<answers, unclear>>
  BY <1>5, <1>6, <1>7
<1>9. QED
  BY <1>8 DEF Service!Ask, asks, answers, unclear, Wants, Told

\* A reply answers the next request of the client that is served, or something in
\* what the client has written, if it is misheard.
LEMMA HandleMapsToAnswer ==
  ASSUME FramingInv, HandleRequest, NEW c \in Client, busy = c
  PROVE  Service!Answer(c) \/ Service!AnswerMisheard(c)
<1>1. TypeOK /\ Due(asked[c], replies[c], Stream(c), torn[c], from, req)
  BY DEF FramingInv, ClientInv
<1>2. PICK o \in Outcomes :
        replies' = [replies EXCEPT ![busy] = Append(@, ReplyTo(from, req, o))]
  BY DEF HandleRequest
<1>3. /\ req \in Seq(Nat) /\ Len(req) > 0 /\ Len(req) \in {0, 3, 5, 7} /\ req[3] \in Command
      /\ from \in Nat /\ replies \in [Client -> Seq(Reply)]
      /\ replies[c] \in Seq(Reply)
  BY <1>1, NobodyAssumption DEF TypeOK
<1>4. PICK r \in Reply :
        r = ReplyTo(from, req, o) /\ r.to = from /\ r.id = req[2] /\ r.cmd = req[3]
  BY <1>3, ReplyFits
<1>5. from \in DOMAIN asks[c]
  BY <1>1 DEF Due, asks, Wants
<1>6. \A i \in DOMAIN answers[c] :
        answers[c][i].request <= from /\ (~torn[c] => answers[c][i].request < from)
  <2>1. DOMAIN answers[c] = 1 .. Len(replies[c])
    BY <1>3, LenProperties DEF answers, Told
  <2>2. \A i \in 1 .. Len(replies[c]) : answers[c][i].request = replies[c][i].to
    BY <2>1 DEF answers, Told
  <2>3. QED
    BY <1>1, <2>1, <2>2 DEF Due
<1>7. ~torn[c] => asks[c][from] \in {req[3], Unclear}
  <2>1. from \in DOMAIN asked[c]
    BY <1>1 DEF Due
  <2>2. asks[c][from] = AsksFor(asked[c][from])
    BY <2>1 DEF asks, Wants
  <2>3. ~torn[c] => Answers([id |-> req[2], cmd |-> req[3]], asked[c][from])
    BY <1>1 DEF Due
  <2>4. QED
    BY <2>2, <2>3 DEF Answers, AsksFor
<1>8. answers' = [answers EXCEPT ![c] = Append(@, [request |-> from, cmd |-> req[3]])]
  <2>1. replies'[c] = Append(replies[c], r)
        /\ \A d \in Client : d # c => replies'[d] = replies[d]
    BY <1>2, <1>3, <1>4
  <2>2. Told(replies'[c]) = Append(Told(replies[c]), [request |-> from, cmd |-> req[3]])
    BY <1>3, <1>4, <2>1, AnsweredGrows
  <2>3. QED
    BY <2>1, <2>2 DEF answers
<1>9. asks' = asks /\ unclear' = unclear
  BY DEF HandleRequest, asks, unclear
<1>10. CASE torn[c]
  <2>1. c \in unclear /\ \A i \in DOMAIN answers[c] : answers[c][i].request <= from
    BY <1>6, <1>10 DEF unclear
  <2>2. \E k \in DOMAIN asks[c], cmd \in Command :
          /\ c \in unclear
          /\ \A i \in DOMAIN answers[c] : answers[c][i].request <= k
          /\ answers' = [answers EXCEPT ![c] = Append(@, [request |-> k, cmd |-> cmd])]
          /\ UNCHANGED <<asks, unclear>>
    BY <1>3, <1>5, <1>8, <1>9, <2>1
  <2>3. Service!AnswerMisheard(c)
    BY <2>2 DEF Service!AnswerMisheard, Service!Reply, asks, answers, unclear, Wants, Told
  <2>4. QED
    BY <2>3
<1>11. CASE ~torn[c]
  <2>1. /\ asks[c][from] \in {req[3], Unclear}
        /\ \A i \in DOMAIN answers[c] : answers[c][i].request < from
    BY <1>6, <1>7, <1>11
  <2>2. \E k \in DOMAIN asks[c], cmd \in Command :
          /\ asks[c][k] \in {cmd, Unclear}
          /\ \A i \in DOMAIN answers[c] : answers[c][i].request < k
          /\ answers' = [answers EXCEPT ![c] = Append(@, [request |-> k, cmd |-> cmd])]
          /\ UNCHANGED <<asks, unclear>>
    BY <1>3, <1>5, <1>8, <1>9, <2>1
  <2>3. Service!Answer(c)
    BY <2>2 DEF Service!Answer, Service!Reply, asks, answers, unclear, Wants, Told
  <2>4. QED
    BY <2>3
<1>12. QED
  BY <1>10, <1>11

\* The network changes nothing that is asked or answered.
LEMMA ArriveMapsToStutter ==
  ASSUME NEW c \in Client, Arrive(c)
  PROVE  UNCHANGED Service!vars
<1>1. asked' = asked /\ replies' = replies /\ torn' = torn
  BY DEF Arrive
<1>2. QED
  BY <1>1 DEF Service!vars

\* recv() may end inside a message.
LEMMA ReceiveMapsToMishear ==
  ASSUME FramingInv, NEW c \in Client, Receive(c)
  PROVE  Service!Mishear(c) \/ UNCHANGED Service!vars
<1>1. asked' = asked /\ replies' = replies
  BY DEF Receive
<1>2. torn \in [Client -> BOOLEAN] /\ torn' \in [Client -> BOOLEAN]
  <2>1. TypeOK /\ TypeOK'
    BY TypesStep DEF FramingInv, Next
  <2>2. QED
    BY <2>1 DEF TypeOK
<1>3. \A d \in Client : d # c => torn'[d] = torn[d]
  BY <1>2 DEF Receive
<1>4. torn[c] => torn'[c]
  <2>1. PICK n \in 1 .. Len(Stream(c)), data \in Seq(Nat) : Taken(c, n, data)
    BY ReceiveTakes
  <2>2. QED
    BY <2>1 DEF Taken
<1>5. asks' = asks /\ answers' = answers
  BY <1>1 DEF asks, answers
<1>6. CASE torn'[c] /\ ~torn[c]
  <2>1. unclear' = unclear \cup {c}
    BY <1>2, <1>3, <1>6 DEF unclear
  <2>2. QED
    BY <1>5, <2>1 DEF Service!Mishear, asks, answers, unclear, Wants, Told
<1>7. CASE torn'[c] = torn[c]
  <2>1. unclear' = unclear
    BY <1>2, <1>3, <1>7 DEF unclear
  <2>2. QED
    BY <1>5, <2>1 DEF Service!vars, asks, answers, unclear, Wants, Told
<1>8. QED
  BY <1>2, <1>4, <1>6, <1>7

\* However what clients write is cut, joined and dropped on its way to
\* handleRcvData(), clients and server do nothing but ask and answer, and mishear:
\* until a recv() ends inside one of a client's messages each of them is answered
\* once at most, never before an older one, and as what it asks for; from then on its
\* replies still are its own and follow the order of what it wrote.
THEOREM ServerImplementsService == Spec => ImplementsService
<1>1. Init => Service!Init
  BY InitMapsToService
<1>2. FramingInv /\ [Next]_vars => [Service!Next]_(Service!vars)
  <2> SUFFICES ASSUME FramingInv, [Next]_vars
               PROVE  [Service!Next]_(Service!vars)
    OBVIOUS
  <2>1. ASSUME NEW c \in Client, Ask(c) PROVE Service!Ask(c)
    BY <2>1, AskMapsToAsk DEF FramingInv
  <2>2. ASSUME NEW c \in Client, Arrive(c) PROVE UNCHANGED Service!vars
    BY <2>2, ArriveMapsToStutter
  <2>3. ASSUME NEW c \in Client, Receive(c)
        PROVE  Service!Mishear(c) \/ UNCHANGED Service!vars
    BY <2>3, ReceiveMapsToMishear
  <2>4. CASE HandleRequest
    <3>1. PICK c \in Client : busy = c
      BY <2>4 DEF FramingInv, TypeOK, HandleRequest
    <3>2. Service!Answer(c) \/ Service!AnswerMisheard(c)
      BY <2>4, <3>1, HandleMapsToAnswer
    <3>3. QED
      BY <3>2 DEF Service!Next
  <2>5. CASE UNCHANGED vars
    BY <2>5 DEF vars, Service!vars
  <2>6. QED
    BY <2>1, <2>2, <2>3, <2>4, <2>5 DEF Next, Service!Next
<1>3. QED
  BY <1>1, <1>2, FramingInvariant, PTL DEF Spec, ImplementsService, Service!Spec

-----------------------------------------------------------------------------
(***************************************************************************)
(* The steps on which LoneRequestAnswered and its fairness rest.           *)
(***************************************************************************)

\* What has arrived of client c is its k-th message, a well-formed request that the
\* buffer can hold, and nothing else.
Lone(c, k) ==
  /\ k \in DOMAIN asked[c] /\ WellFormed(asked[c][k])
  /\ arrived[c] = Words(k, asked[c][k]) /\ Len(asked[c][k]) <= RcvWords

\* Such a request stays until more arrives, or is carried out; and a request that
\* is carried out stays so until it is answered.
LoneIsCarriedOut ==
  \A c \in Client :
    /\ \A k \in DOMAIN asked[c] : Lone(c, k)
         => \/ arrived'[c] = arrived[c] \/ Len(arrived'[c]) > Len(arrived[c])
            \/ busy' = c /\ req' = asked[c][k] /\ from' = k
    /\ busy = c
         => \/ busy' = c /\ req' = req /\ from' = from
            \/ \E o \in Outcomes : replies'[c] = Append(replies[c], ReplyTo(from, req, o))

\* A well-formed request that arrives by itself is accepted as a whole.
LEMMA LoneIsTaken ==
  ASSUME TypeOK, NEW c \in Client, NEW k \in DOMAIN asked[c], Lone(c, k), Receive(c)
  PROVE  busy' = c /\ req' = asked[c][k] /\ from' = k
<1>1. asked[c] \in Seq(Seq(Nat)) /\ k \in Nat
  <2>1. asked[c] \in Seq(Seq(Nat))
    BY DEF TypeOK
  <2>2. QED
    BY <2>1, LenProperties
<1>2. PICK m \in Seq(Nat), l \in Nat :
        m = asked[c][k] /\ l = Len(m) /\ l >= 3 /\ l <= RcvWords
  <2>1. asked[c][k] \in Seq(Nat) /\ Len(asked[c][k]) \in Nat
    BY <1>1, LenProperties, ElementOfSeq
  <2>2. QED
    BY <2>1 DEF Lone, WellFormed
<1>3. PICK w \in Seq(Nat \X Nat) :
        /\ w = arrived[c] /\ Len(w) = l /\ \A i \in 1 .. l : w[i] = <<k, i>>
  <2>1. Words(k, m) \in Seq(Nat \X Nat) /\ Len(Words(k, m)) = l
        /\ \A i \in 1 .. l : Words(k, m)[i] = <<k, i>>
    BY <1>1, <1>2, WordsOf
  <2>2. QED
    BY <1>2, <2>1 DEF Lone
<1>4. SubSeq(w, 1, l) = w
  BY <1>3, SubSeqFull
<1>5. Said(c, w) = m
  <2>1. Said(c, w) = [i \in 1 .. l |-> m[i]]
    <3>1. Said(c, w) = [i \in 1 .. l |-> asked[c][w[i][1]][w[i][2]]]
      BY <1>3 DEF Said
    <3>2. ASSUME NEW i \in 1 .. l
          PROVE  asked[c][w[i][1]][w[i][2]] = m[i]
      <4>1. w[i][1] = k /\ w[i][2] = i
        BY <1>3
      <4>2. QED
        BY <1>2, <4>1
    <3> HIDE DEF Said
    <3>3. QED
      BY <3>1, <3>2
  <2>2. m = [i \in 1 .. l |-> m[i]]
    BY <1>2, LenProperties
  <2>3. QED
    BY <2>1, <2>2
<1>6. Accepted(m)
  <2>1. Len(m) = l /\ 4 * l >= 12 /\ m[1] = 4 * Len(m) /\ m[3] \in Command
        /\ ExpectedSize(m[3]) = m[1]
    BY <1>2 DEF Lone, WellFormed
  <2>2. QED
    BY <2>1 DEF Accepted
<1>7. w[1][1] = k
  <2>1. 1 \in 1 .. l
    BY <1>2
  <2>2. w[1] = <<k, 1>>
    BY <1>3, <2>1
  <2>3. QED
    BY <2>2
<1>8. LET n == IF Len(w) <= RcvWords THEN Len(w) ELSE RcvWords
          piece == SubSeq(w, 1, n)
          data == Said(c, piece)
      IN  \/ Accepted(data) /\ busy' = c /\ req' = data /\ from' = piece[1][1]
          \/ ~Accepted(data) /\ UNCHANGED <<busy, req, from>>
  BY <1>3 DEF Receive
<1>9. QED
  BY <1>2, <1>3, <1>4, <1>5, <1>6, <1>7, <1>8

LEMMA NextCarriesOut == TypeOK /\ [Next]_vars => LoneIsCarriedOut
<1> SUFFICES ASSUME TypeOK, [Next]_vars, NEW c \in Client
             PROVE  /\ \A k \in DOMAIN asked[c] : Lone(c, k)
                         => \/ arrived'[c] = arrived[c]
                            \/ Len(arrived'[c]) > Len(arrived[c])
                            \/ busy' = c /\ req' = asked[c][k] /\ from' = k
                    /\ busy = c
                         => \/ busy' = c /\ req' = req /\ from' = from
                            \/ \E o \in Outcomes :
                                 replies'[c] = Append(replies[c], ReplyTo(from, req, o))
  BY DEF LoneIsCarriedOut
<1>1. CASE UNCHANGED vars
  BY <1>1 DEF vars
<1>2. ASSUME NEW d \in Client, Ask(d) PROVE UNCHANGED <<arrived, busy, req, from>>
  BY <1>2 DEF Ask
<1>3. ASSUME NEW d \in Client, Arrive(d)
      PROVE  /\ UNCHANGED <<busy, req, from>>
             /\ arrived'[c] = arrived[c] \/ Len(arrived'[c]) > Len(arrived[c])
  <2>1. PICK n \in 1 .. Len(wire[d]) :
          arrived' = [arrived EXCEPT ![d] = @ \o SubSeq(wire[d], 1, n)]
    BY <1>3 DEF Arrive
  <2>2. /\ arrived \in [Client -> Seq(Nat \X Nat)] /\ wire[d] \in Seq(Nat \X Nat)
        /\ arrived[d] \in Seq(Nat \X Nat)
    BY DEF TypeOK
  <2>3. /\ SubSeq(wire[d], 1, n) \in Seq(Nat \X Nat) /\ Len(SubSeq(wire[d], 1, n)) = n
        /\ n \in Nat /\ n > 0
    BY <2>2, CutTypes
  <2> DEFINE piece == SubSeq(wire[d], 1, n)
  <2> HIDE DEF piece
  <2>4. Len(arrived[d] \o piece) > Len(arrived[d])
    BY <2>2, <2>3 DEF piece
  <2>5. c = d => arrived'[c] = arrived[d] \o piece
    BY <2>1, <2>2 DEF piece
  <2>6. c # d => arrived'[c] = arrived[c]
    BY <2>1, <2>2
  <2>7. UNCHANGED <<busy, req, from>>
    BY <1>3 DEF Arrive
  <2>8. QED
    BY <2>4, <2>5, <2>6, <2>7
<1>4. ASSUME NEW d \in Client, Receive(d)
      PROVE  /\ busy # c
             /\ d # c => arrived'[c] = arrived[c]
  BY <1>4, NobodyAssumption DEF Receive, TypeOK
<1>5. ASSUME HandleRequest
      PROVE  /\ arrived' = arrived
             /\ busy = c => \E o \in Outcomes :
                              replies'[c] = Append(replies[c], ReplyTo(from, req, o))
  BY <1>5 DEF HandleRequest, TypeOK
<1>6. QED
  BY <1>1, <1>2, <1>3, <1>4, <1>5, LoneIsTaken DEF Next

\* A well-formed request that is all there is to receive is never dropped: whatever
\* the others do it waits, is joined by more of its client, or is carried out, and
\* then nothing else is before it is answered (tcpserver.cpp:56-101).
THEOREM LoneRequestsAreKept == Spec => [][LoneIsCarriedOut]_vars
<1>1. QED
  BY FramingTypes, NextCarriesOut, PTL DEF Spec

-----------------------------------------------------------------------------
(***************************************************************************)
(* Which replies are as long as they should be.                            *)
(***************************************************************************)

\* The reply to ReadDist lacks a float for each of its tuples, that to a full
\* reading of no more than ten sensors announces 864 bytes where there are 231 at
\* most, and every other has the size its command gives it.
SizeTold(r) ==
  /\ r.cmd = ReadDist => r.size = 15 + 4 * r.tuples
  /\ r.cmd = ReadAll /\ r.tuples <= 10 => r.size = 864
  /\ r.cmd \notin {ReadDist, ReadAll}
       => r.size = 13 + 4 * Floats(r.cmd) + (IF r.cmd = ReadBatt THEN 5 ELSE 0)

SizesAreTold ==
  \A c \in Client : \A i \in DOMAIN replies[c] : SizeTold(replies[c][i])

LEMMA ReplyTellsSize ==
  ASSUME NEW k \in Nat, NEW r \in Seq(Nat), r[3] \in Command, NEW o \in Outcomes
  PROVE  SizeTold(ReplyTo(k, r, o))
<1>1. PICK n \in Tuples : \E s \in StrayCounts(n) : o = [tuples |-> n, stray |-> s]
  BY DEF Outcomes
<1>2. PICK s \in StrayCounts(n) : o = [tuples |-> n, stray |-> s]
  BY <1>1
<1> DEFINE p == ReplyTo(k, r, o)
<1>3. p.cmd = r[3] /\ p.tuples = n /\ p.size = ReplySize(r[3], n, s) /\ n \in Nat
  BY <1>2, ReadingAssumption DEF ReplyTo
<1> HIDE DEF p
<1>4. ASSUME r[3] = ReadDist PROVE p.size = 15 + 4 * p.tuples
  <2>1. Floats(r[3]) = 0 /\ r[3] # ReadAll /\ r[3] # ReadBatt
    BY <1>4 DEF Floats, ReadDist, MV, GetPWM, GetSpeed, ReadFloor, ReadLight, ReadAll, ReadBatt
  <2>2. ReplySize(r[3], n, s) = 13 + 4 * 0 + 0 + (2 + n * 4)
    BY <1>4, <2>1 DEF ReplySize
  <2>3. QED
    BY <1>3, <2>2
<1>5. ASSUME r[3] = ReadAll, n <= 10 PROVE p.size = 864
  <2>1. s = 191
    BY <1>5 DEF StrayCounts
  <2>2. ReplySize(r[3], n, s) = (13 + 85 + 2 + 191 * 4) % (MaxSize + 1)
    BY <1>5, <2>1 DEF ReplySize
  <2>3. QED
    BY <1>3, <2>2 DEF MaxSize
<1>6. ASSUME r[3] \notin {ReadDist, ReadAll}
      PROVE  p.size = 13 + 4 * Floats(r[3]) + (IF r[3] = ReadBatt THEN 5 ELSE 0)
  <2>1. PICK x \in {0, 3, 4, 16} : Floats(r[3]) = x
    BY DEF Floats
  <2>2. PICK b \in {0, 5} : b = IF r[3] = ReadBatt THEN 5 ELSE 0
    OBVIOUS
  <2>3. ReplySize(r[3], n, s) = 13 + 4 * x + b + 0
    BY <1>6, <2>1, <2>2 DEF ReplySize
  <2>4. QED
    BY <1>3, <2>1, <2>2, <2>3
<1>7. SizeTold(p)
  BY <1>3, <1>4, <1>5, <1>6 DEF SizeTold
<1>8. QED
  BY <1>7 DEF p

\* The replies of one client, with another at the end.
LEMMA AnotherIsTold ==
  ASSUME NEW given \in Seq(Reply), \A i \in DOMAIN given : SizeTold(given[i]),
         NEW r \in Reply, SizeTold(r)
  PROVE  \A i \in DOMAIN Append(given, r) : SizeTold(Append(given, r)[i])
<1>1. /\ DOMAIN given = 1 .. Len(given) /\ Len(given) \in Nat
      /\ DOMAIN Append(given, r) = 1 .. Len(given) + 1
      /\ \A i \in 1 .. Len(given) : Append(given, r)[i] = given[i]
      /\ Append(given, r)[Len(given) + 1] = r
  OBVIOUS
<1>2. \A i \in 1 .. Len(given) + 1 : i \in 1 .. Len(given) \/ i = Len(given) + 1
  BY <1>1
<1>3. QED
  BY <1>1, <1>2

LEMMA NextKeepsSizes == TypeOK /\ SizesAreTold /\ [Next]_vars => SizesAreTold'
<1> SUFFICES ASSUME TypeOK, SizesAreTold, [Next]_vars PROVE SizesAreTold'
  OBVIOUS
<1>1. CASE HandleRequest
  <2>1. PICK o \in Outcomes :
          replies' = [replies EXCEPT ![busy] = Append(@, ReplyTo(from, req, o))]
    BY <1>1 DEF HandleRequest
  <2>2. /\ busy \in Client /\ req \in Seq(Nat) /\ Len(req) > 0
        /\ Len(req) \in {0, 3, 5, 7} /\ req[3] \in Command
        /\ replies \in [Client -> Seq(Reply)] /\ from \in Nat
    BY <1>1 DEF HandleRequest, TypeOK
  <2>3. ReplyTo(from, req, o) \in Reply /\ SizeTold(ReplyTo(from, req, o))
    BY <2>2, ReplyFits, ReplyTellsSize
  <2> DEFINE longer == Append(replies[busy], ReplyTo(from, req, o))
  <2>4. \A i \in DOMAIN longer : SizeTold(longer[i])
    BY <2>2, <2>3, AnotherIsTold DEF SizesAreTold
  <2>5. \A c \in Client : replies'[c] = IF c = busy THEN longer ELSE replies[c]
    BY <2>1, <2>2
  <2> HIDE DEF longer
  <2>6. QED
    BY <2>4, <2>5 DEF SizesAreTold
<1>2. CASE ~HandleRequest
  <2>1. replies' = replies
    BY <1>2 DEF Next, vars, Ask, Arrive, Receive
  <2>2. QED
    BY <2>1 DEF SizesAreTold
<1>3. QED
  BY <1>1, <1>2

\* Only replies to ReadDist and ReadAll can announce what they do not hold, and
\* that to ReadDist does so as soon as a sensor reports.
THEOREM OnlyReadingsAreMissized == Spec => []SizesAreTold
<1>1. Init => SizesAreTold
  BY DEF Init, SizesAreTold
<1>2. QED
  BY <1>1, NextKeepsSizes, FramingTypes, PTL DEF Spec
=============================================================================
