----------------------------- MODULE TcpServer -----------------------------
(***************************************************************************)
(* The command server (components/tcpserver) as its clients see it: what   *)
(* they write to their connections, what the network makes of it, what     *)
(* handleRcvData() takes for a request, and what is sent back.             *)
(*                                                                         *)
(* The server keeps no data between two calls of recv(): what one call     *)
(* returns is one request or it is discarded.  What a client writes        *)
(* arrives in pieces of any size, and piles up while the task executes a   *)
(* request (an mv lasts for seconds).                                      *)
(*                                                                         *)
(* Every field of a request is a word of four bytes, and streams are       *)
(* counted in words.  A word under way is named by the message it is in    *)
(* and its place there; what it says is in asked.  A request has no mark   *)
(* where it begins: nothing keeps ids and arguments from looking like      *)
(* sizes and commands, and a recv() that ends inside a message leaves the  *)
(* rest to be taken for another.  torn tells of which clients it has       *)
(* (wherever in a word); connections neither fail nor close (see           *)
(* TcpServerBase).                                                         *)
(***************************************************************************)
EXTENDS Integers, Sequences, FiniteSets

CONSTANTS
  Client,
  Nobody,
  Forms,        \* the messages each client writes, well-formed or not, with any id
  Tuples,       \* the numbers of distance sensors that may report
  Stray,        \* what bytes 85 and 86 of a full reading may amount to
  RcvWords,     \* length of the receive buffer
  MaxAsked      \* bound: messages ever written

ASSUME NobodyAssumption == Nobody \notin Client
\* The largest of the numbers of 16 bits, in which sizes are computed.
MaxSize == 65535

ASSUME ReadingAssumption == Tuples \subseteq 0 .. 16 /\ Stray \subseteq 0 .. MaxSize
ASSUME BoundsAssumption == RcvWords \in Nat \ {0} /\ MaxAsked \in Nat

ASSUME FormsAssumption == Forms \in [Client -> SUBSET (Seq(Nat) \ {<<>>})]

VARIABLES
  asked,     \* the messages each client has written, in order
  wire,      \* words on their way from each client
  arrived,   \* words that wait for recv() on each connection
  busy,      \* the client whose request is carried out, or Nobody
  req,       \* that request
  replies,   \* what has been sent to each client, in order
  from,      \* history: the message in which that request begins
  torn       \* history: whether a recv() has ended inside a message of each client

vars == <<asked, wire, arrived, busy, req, replies, from, torn>>

(***************************************************************************)
(* Commands and their sizes in bytes.                                      *)
(***************************************************************************)
STOP      == 0
MV        == 256
GetPWM    == 4096
SetPWM2   == 4608
SetPWM4   == 5120
GetSpeed  == 8192
SetSpeed2 == 8704
SetSpeed4 == 9216
ReadAll   == 16384
ReadBatt  == 16640
ReadDist  == 16896
ReadFloor == 17152
ReadLight == 17408

NoArgs     == {STOP, GetPWM, GetSpeed, ReadAll, ReadBatt, ReadDist, ReadFloor,
               ReadLight}
TwoFloats  == {MV, SetPWM2, SetSpeed2}
FourFloats == {SetPWM4, SetSpeed4}
Command    == NoArgs \cup TwoFloats \cup FourFloats
NoCommand  == -1
Unclear    == -2

RequestSize == {12, 20, 28}

ExpectedSize(cmd) ==
  12 + 4 * (IF cmd \in TwoFloats THEN 2 ELSE IF cmd \in FourFloats THEN 4 ELSE 0)

(***************************************************************************)
(* The size handleRequest() gives a successful reply in which n distance   *)
(* sensors report.  A full reading is written with its parts on top of     *)
(* each other, the distances first: where the size of the reply is         *)
(* computed from, at offset 85, are two bytes of the eleventh distance.    *)
(* They are those of -1.0, 0xbf and 0, when fewer than eleven report.      *)
(***************************************************************************)
Floats(cmd) ==
  IF cmd = MV THEN 3
  ELSE IF cmd \in {GetPWM, GetSpeed, ReadFloor} THEN 4
  ELSE IF cmd = ReadLight THEN 16
  ELSE 0

ReplySize(cmd, n, stray) ==
  IF cmd = ReadAll THEN (13 + 85 + 2 + stray * 4) % (MaxSize + 1)
  ELSE 13 + 4 * Floats(cmd) + (IF cmd = ReadBatt THEN 5 ELSE 0)
                            + (IF cmd = ReadDist THEN 2 + n * 4 ELSE 0)

StrayCounts(n) == IF n <= 10 THEN {191} ELSE Stray

\* What the handler of a command may return with.  It succeeds for every
\* command, whether or not the sensors could be read.
Outcomes == UNION {{[tuples |-> n, stray |-> s] : s \in StrayCounts(n)} : n \in Tuples}

\* to is history: the message that is answered.
Reply == [to : Nat, id : Nat, cmd : Command, tuples : 0 .. 16, size : 0 .. MaxSize]

\* The reply to request r, which begins in message k, after outcome o.
ReplyTo(k, r, o) ==
  [to |-> k, id |-> r[2], cmd |-> r[3], tuples |-> o.tuples,
   size |-> ReplySize(r[3], o.tuples, o.stray)]

\* The words of message m, which is its client's k-th.
Words(k, m) == [i \in 1 .. Len(m) |-> <<k, i>>]

\* What the words of a piece of client c's stream say.
Said(c, piece) == [i \in 1 .. Len(piece) |-> asked[c][piece[i][1]][piece[i][2]]]

\* The word is the last of its message.
Ends(c, w) == w[2] = Len(asked[c][w[1]])

Init ==
  /\ asked = [c \in Client |-> <<>>]
  /\ wire = [c \in Client |-> <<>>]
  /\ arrived = [c \in Client |-> <<>>]
  /\ busy = Nobody
  /\ req = <<>>
  /\ replies = [c \in Client |-> <<>>]
  /\ from = 0
  /\ torn = [c \in Client |-> FALSE]

(***************************************************************************)
(* The clients and the network.                                            *)
(***************************************************************************)
Ask(c) ==
  /\ Cardinality(UNION {{d} \X DOMAIN asked[d] : d \in Client}) < MaxAsked
  /\ \E m \in Forms[c] :
       /\ asked' = [asked EXCEPT ![c] = Append(@, m)]
       /\ wire' = [wire EXCEPT ![c] = @ \o Words(Len(asked[c]) + 1, m)]
  /\ UNCHANGED <<arrived, busy, req, replies, from, torn>>

Arrive(c) ==
  /\ \E n \in 1 .. Len(wire[c]) :
       /\ arrived' = [arrived EXCEPT ![c] = @ \o SubSeq(wire[c], 1, n)]
       /\ wire' = [wire EXCEPT ![c] = SubSeq(@, n + 1, Len(@))]
  /\ UNCHANGED <<asked, busy, req, replies, from, torn>>

(***************************************************************************)
(* handleRcvData(): the checks data has to pass.                           *)
(***************************************************************************)
\* Mutant: the number of arguments is not checked.
Accepted_AnyArguments(data) ==
  /\ 4 * Len(data) >= 12
  /\ data[1] = 4 * Len(data)
  /\ data[3] \in Command

Accepted(data) ==
  /\ 4 * Len(data) >= 12
  /\ data[1] = 4 * Len(data)
  /\ data[3] \in Command
  /\ ExpectedSize(data[3]) = data[1]

\* recv() returns what has arrived, as much of it as the buffer holds; it is
\* gone whether it is accepted or not.
Receive(c) ==
  /\ busy = Nobody
  /\ arrived[c] # <<>>
  /\ LET n == IF Len(arrived[c]) <= RcvWords THEN Len(arrived[c]) ELSE RcvWords
         piece == SubSeq(arrived[c], 1, n)
         data == Said(c, piece)
     IN  /\ arrived' = [arrived EXCEPT ![c] = SubSeq(@, n + 1, Len(@))]
         /\ torn' = [torn EXCEPT ![c] = @ \/ ~Ends(c, piece[n])]
         /\ \/ Accepted(data) /\ busy' = c /\ req' = data /\ from' = piece[1][1]
            \/ ~Accepted(data) /\ UNCHANGED <<busy, req, from>>
  /\ UNCHANGED <<asked, wire, replies>>

\* Mutant: the server forgets to answer commands that return nothing.
HandleRequest_Quiet ==
  /\ busy # Nobody
  /\ \E o \in Outcomes :
       replies' = IF req[3] = STOP THEN replies
                    ELSE [replies EXCEPT ![busy] = Append(@, ReplyTo(from, req, o))]
  /\ busy' = Nobody /\ req' = <<>> /\ from' = 0
  /\ UNCHANGED <<asked, wire, arrived, torn>>

\* handleRequest(): the command is carried out and the reply is sent.
HandleRequest ==
  /\ busy # Nobody
  /\ \E o \in Outcomes :
       replies' = [replies EXCEPT ![busy] = Append(@, ReplyTo(from, req, o))]
  /\ busy' = Nobody /\ req' = <<>> /\ from' = 0
  /\ UNCHANGED <<asked, wire, arrived, torn>>

-----------------------------------------------------------------------------
Next ==
  \/ \E c \in Client : Ask(c) \/ Arrive(c) \/ Receive(c)
  \/ HandleRequest

Spec == Init /\ [][Next]_vars

\* The network delivers, and the task comes by each client again and again while it
\* is not kept by a request (TcpServerBase!Attended, for clients it reaches).  That a
\* request comes to its end is not assumed: see Base!MvTerminates.
FairSpec ==
  /\ Spec
  /\ \A c \in Client : WF_vars(Arrive(c)) /\ SF_vars(Receive(c))

-----------------------------------------------------------------------------
(***************************************************************************)
(* Properties.                                                             *)
(***************************************************************************)

\* A well-formed request: size, id, command and the command's arguments.
WellFormed(m) ==
  /\ Len(m) >= 3
  /\ m[3] \in Command
  /\ m[1] = 4 * Len(m)
  /\ m[1] = ExpectedSize(m[3])

\* The variables have their types; a request under way has one of the three
\* lengths, and a reply's size fits its 16 bits.
TypeOK ==
  /\ asked \in [Client -> Seq(Seq(Nat))]
  /\ wire \in [Client -> Seq(Nat \X Nat)]
  /\ arrived \in [Client -> Seq(Nat \X Nat)]
  /\ busy \in Client \cup {Nobody}
  /\ req \in Seq(Nat) /\ Len(req) \in {0, 3, 5, 7}
  /\ busy # Nobody => Len(req) > 0 /\ req[3] \in Command
  /\ replies \in [Client -> Seq(Reply)]
  /\ from \in Nat
  /\ torn \in [Client -> BOOLEAN]

\* A message that announces more than it holds: what its client writes next is
\* taken for the rest of it, if they are received together.
CutShort(m) == m[1] > 4 * Len(m)

\* What reply r has to do with message m: m is a well-formed request and r tells
\* its id and command, unless m is cut short.
Answers(r, m) ==
  CutShort(m) \/ (WellFormed(m) /\ r.id = m[2] /\ r.cmd = m[3])

\* A reply goes to the client that asked, and in the order in which it asked.
\* However what the clients write piles up, is joined, and overflows the buffer: as
\* long as no recv() has ended inside one of its messages, a client gets one reply
\* at most to a message, with its command and id, and none to a malformed one,
\* whatever its ids and arguments look like.
RepliesAnswerInOrder ==
  \A c \in Client :
    \A i \in DOMAIN replies[c] :
      LET r == replies[c][i]
      IN  /\ r.to \in DOMAIN asked[c]
          /\ i > 1 => replies[c][i - 1].to <= r.to
          /\ ~torn[c] => /\ Answers(r, asked[c][r.to])
                         /\ i > 1 => replies[c][i - 1].to < r.to

\* What a message asks for.
AsksFor(m) ==
  IF CutShort(m) THEN Unclear ELSE IF WellFormed(m) THEN m[3] ELSE NoCommand

\* The server as its clients may think of it: what they have asked for, which of
\* their messages have been answered with what, and to whom it may listen no more
\* in the right places.
Service == INSTANCE RequestReply WITH
  asked    <- [c \in Client |-> [k \in DOMAIN asked[c] |-> AsksFor(asked[c][k])]],
  answered <- [c \in Client |->
                 [i \in DOMAIN replies[c] |->
                    [request |-> replies[c][i].to, cmd |-> replies[c][i].cmd]]],
  misheard <- {c \in Client : torn[c]}

\* Whatever is cut, joined and dropped between them, clients and server go through
\* the steps of requests and replies: a client asks, the newest of its requests to
\* be answered is, or a client is misheard from now on.
ImplementsService == Service!Spec

\* A message is answered at last.
Answered(c, k) ==
  \E i \in DOMAIN replies[c] :
    replies[c][i].to = k /\ replies[c][i].id = asked[c][k][2]

\* A well-formed request that is all there is to receive on its connection is
\* answered, however long the other clients keep the server busy, unless more
\* data of its client joins it before the server comes by, or some request never
\* comes to its end.
LoneRequestAnswered ==
  \/ <>[](busy # Nobody)
  \/ \A c \in Client : \A k \in 1 .. MaxAsked :
       (k \in DOMAIN asked[c] /\ WellFormed(asked[c][k])
          /\ arrived[c] = Words(k, asked[c][k]))
         ~> (k \in DOMAIN asked[c]
               /\ (Answered(c, k) \/ Len(arrived[c]) > Len(asked[c][k])))

\* A reply is as long as what it announces: ReadDist holds its tuples (two
\* floats each), and none is longer than a full reading, 231 bytes.
RepliesHoldWhatTheyAnnounce ==
  \A c \in Client : \A r \in {replies[c][i] : i \in DOMAIN replies[c]} :
    /\ r.cmd = ReadDist => r.size = 15 + 8 * r.tuples
    /\ r.size <= 231
=============================================================================
