----------------------------- MODULE WebServer -----------------------------
(***************************************************************************)
(* The web server (components/webserver) from the first byte of a request  *)
(* to the end of its connection.  Its task serves one client at a time:    *)
(* a GET of a file is answered by a header, the file in chunks and an empty*)
(* chunk, or by 404; a command by its result; then the server hangs up.    *)
(* Anything else is dropped without an answer.                             *)
(*                                                                         *)
(* sendTo() does not return while the peer takes nothing: a client that has*)
(* stalled keeps the task, and everybody else, waiting.  A connection is   *)
(*   "up"       the peer reads                                             *)
(*   "stalled"  the peer does not read and the buffers are full            *)
(*   "broken"   the connection is gone, sendTo() fails                     *)
(*   "closed"   the server has hung up                                     *)
(* What sendTo() does with the bytes of one message is module SendTo's     *)
(* subject; here a message goes out in one step, with one byte too many for*)
(* every call of send() that would have blocked (SendTo!BytesOwed).        *)
(***************************************************************************)
EXTENDS Integers

CONSTANTS
  Client,
  Nobody,
  Sizes,        \* the sizes of files
  Chunk,        \* data in a chunk at most, 1372 bytes
  ReadFails,    \* TRUE: fread() may return less than it was asked for
  MaxNoise,     \* bound: requests written that are none
  MaxStalls,    \* bound: times a peer ever stops reading
  MaxRetries    \* bound: calls of send() that would block, of one message

ASSUME NobodyAssumption == Nobody \notin Client
ASSUME SizesAssumption  == Sizes \subseteq Nat
ASSUME ChunkAssumption  == Chunk \in Nat \ {0}
ASSUME SwitchAssumption == ReadFails \in BOOLEAN
ASSUME BoundsAssumption ==
  MaxNoise \in Nat /\ MaxStalls \in Nat /\ MaxRetries \in Nat

VARIABLES
  conn,       \* state of each connection
  request,    \* what each client has written and the server not read
  response,   \* what has been handed over to each client
  lost,       \* history: clients whose connection has ever broken
  task,       \* what the task does next
  cli,        \* the client it serves
  pending,    \* bytes of the file that are left to send
  retries,    \* calls of the sendTo() under way that would have blocked
  shortRead,  \* history: fread() has returned less than asked for
  noise, stalls   \* used up of the bounds

taskVars  == <<task, cli, pending, retries, shortRead>>
peerVars  == <<conn, lost, request>>
boundVars == <<noise, stalls>>
vars      == <<peerVars, response, taskVars, boundVars>>

\* size is that of the file; body counts the bytes handed over in chunks and
\* those that sendTo() hands over beyond a message, over only the latter;
\* exact: every chunk has held as much as it announced.
NoResponse == [kind |-> "none", size |-> 0, body |-> 0, over |-> 0,
               exact |-> TRUE, ended |-> FALSE]

Init ==
  /\ conn = [c \in Client |-> "up"]
  /\ request = [c \in Client |-> "none"]
  /\ response = [c \in Client |-> NoResponse]
  /\ lost = {}
  /\ task = "poll" /\ cli = Nobody
  /\ pending = 0 /\ retries = 0 /\ shortRead = FALSE
  /\ noise = 0 /\ stalls = 0

(***************************************************************************)
(* handleRcvData(), fetchRequest() and serveRequest().                     *)
(***************************************************************************)
\* Shorter than ten bytes, not a GET, or a GET of nothing.
Ignore(c) ==
  /\ task = "poll"
  /\ request[c] = "noise"
  /\ request' = [request EXCEPT ![c] = "none"]
  /\ UNCHANGED <<conn, lost, response, taskVars, boundVars>>

Accept(c) ==
  /\ task = "poll"
  /\ conn[c] # "closed"
  /\ request[c] \in {"file", "command"}
  /\ request' = [request EXCEPT ![c] = "none"]
  /\ cli' = c
  /\ task' = request[c]
  /\ UNCHANGED <<conn, lost, response, pending, retries, shortRead, boundVars>>

\* Response r with k bytes more than its message.
Over(r, k) ==
  [r EXCEPT !.body = @ + k, !.over = @ + k, !.exact = @ /\ k = 0]

\* sendTo() has returned, and handed over response r if the peer is there.
SentTo(c, r) ==
  /\ conn[c] # "stalled"
  /\ response' = IF conn[c] = "up" THEN [response EXCEPT ![c] = Over(r, retries)]
                                   ELSE response
  /\ retries' = 0

\* handleCommandRequest() calls the command's handler, which comes to an end
\* if the command does.
CommandReturns ==
  /\ task = "command"
  /\ task' = "result"
  /\ UNCHANGED <<peerVars, response, cli, pending, retries, shortRead, boundVars>>

\* sendResult().
AnswerCommand ==
  /\ task = "result"
  /\ SentTo(cli, [response[cli] EXCEPT !.kind = "result"])
  /\ task' = "hangup"
  /\ UNCHANGED <<peerVars, cli, pending, shortRead, boundVars>>

(***************************************************************************)
(* serveFile().                                                            *)
(***************************************************************************)
\* fopen() fails: 404.
FileMissing ==
  /\ task = "file"
  /\ SentTo(cli, [response[cli] EXCEPT !.kind = "missing"])
  /\ task' = "hangup"
  /\ UNCHANGED <<peerVars, cli, pending, shortRead, boundVars>>

\* The header; what sendTo() returns is ignored.
SendHeader ==
  /\ task = "file"
  /\ \E s \in Sizes :
       /\ SentTo(cli, [response[cli] EXCEPT !.kind = "file", !.size = s])
       /\ pending' = s
  /\ task' = "chunk"
  /\ UNCHANGED <<peerVars, cli, shortRead, boundVars>>

\* Mutant: the test is wrong by one.
More_OrEqual == pending >= 0

More == pending > 0

\* Mutant: a full chunk is announced whatever is left.
ToRead_Full == Chunk

ToRead == IF pending < Chunk THEN pending ELSE Chunk

\* fread() returns n bytes of the toRead it was asked for.
Read(n, toRead) ==
  /\ n \in 0 .. (IF pending < toRead THEN pending ELSE toRead)
  /\ n < toRead /\ n < pending => ReadFails
  /\ shortRead' = (shortRead \/ (n < toRead /\ n < pending))

\* A chunk that announces toRead bytes and holds n is appended.
ChunkSent(n, toRead) ==
  SentTo(cli, [response[cli] EXCEPT !.body = @ + n, !.exact = @ /\ n = toRead])

\* Mutant: what was announced is counted, not what was read.
SendChunk_CountsAnnounced ==
  /\ task = "chunk" /\ More
  /\ \E n \in 0 .. ToRead :
       /\ Read(n, ToRead)
       /\ ChunkSent(n, ToRead)
       /\ \/ conn[cli] = "up" /\ pending' = pending - ToRead /\ UNCHANGED task
          \/ conn[cli] # "up" /\ UNCHANGED pending /\ task' = "last"
  /\ UNCHANGED <<peerVars, cli, boundVars>>

\* Mutant: a full chunk is counted whatever was left.
SendChunk_CountsFull ==
  /\ task = "chunk" /\ More
  /\ \E n \in 0 .. ToRead :
       /\ Read(n, ToRead)
       /\ ChunkSent(n, ToRead)
       /\ \/ conn[cli] = "up" /\ pending' = pending - Chunk /\ UNCHANGED task
          \/ conn[cli] # "up" /\ UNCHANGED pending /\ task' = "last"
  /\ UNCHANGED <<peerVars, cli, boundVars>>

\* An iteration of the loop; a failed sendTo() ends it.
SendChunk ==
  /\ task = "chunk" /\ More
  /\ \E n \in 0 .. ToRead :
       /\ Read(n, ToRead)
       /\ ChunkSent(n, ToRead)
       /\ \/ conn[cli] = "up" /\ pending' = pending - n /\ UNCHANGED task
          \/ conn[cli] # "up" /\ UNCHANGED pending /\ task' = "last"
  /\ UNCHANGED <<peerVars, cli, boundVars>>

EndOfFile ==
  /\ task = "chunk" /\ ~More
  /\ task' = "last"
  /\ UNCHANGED <<peerVars, response, cli, pending, retries, shortRead, boundVars>>

\* Mutant: the empty chunk is left out.
SendLast_LeftOut ==
  /\ task = "last"
  /\ task' = "hangup"
  /\ UNCHANGED <<peerVars, response, cli, pending, retries, shortRead, boundVars>>

\* The empty chunk, also after a failed sendTo().
SendLast ==
  /\ task = "last"
  /\ SentTo(cli, [response[cli] EXCEPT !.ended = TRUE])
  /\ task' = "hangup"
  /\ UNCHANGED <<peerVars, cli, pending, shortRead, boundVars>>

\* Mutant: the connection is kept for another request.
HangUp_KeepsOpen ==
  /\ task = "hangup"
  /\ task' = "poll" /\ cli' = Nobody
  /\ UNCHANGED <<peerVars, response, pending, retries, shortRead, boundVars>>

\* diconnectClient(), which discards what else the client has written.
HangUp ==
  /\ task = "hangup"
  /\ conn' = [conn EXCEPT ![cli] = "closed"]
  /\ request' = [request EXCEPT ![cli] = "none"]
  /\ task' = "poll" /\ cli' = Nobody
  /\ UNCHANGED <<lost, response, pending, retries, shortRead, boundVars>>

\* A call of send() returns -1 as it would block, and sendTo() calls it again
\* with one byte more to send.
WouldBlock ==
  /\ task \in {"result", "file", "last"} \/ (task = "chunk" /\ More)
  /\ conn[cli] = "stalled"
  /\ retries < MaxRetries
  /\ retries' = retries + 1
  /\ UNCHANGED <<peerVars, response, task, cli, pending, shortRead, boundVars>>

WebTask ==
  \/ \E c \in Client : Ignore(c) \/ Accept(c)
  \/ AnswerCommand \/ FileMissing \/ SendHeader \/ SendChunk \/ EndOfFile
  \/ SendLast \/ WouldBlock \/ HangUp

(***************************************************************************)
(* The peers.                                                              *)
(***************************************************************************)
Ask(c) ==
  /\ conn[c] = "up" /\ request[c] = "none"
  /\ \/ request' = [request EXCEPT ![c] = "file"] /\ UNCHANGED noise
     \/ request' = [request EXCEPT ![c] = "command"] /\ UNCHANGED noise
     \/ /\ noise < MaxNoise
        /\ noise' = noise + 1
        /\ request' = [request EXCEPT ![c] = "noise"]
  /\ UNCHANGED <<conn, lost, response, taskVars, stalls>>

Stall(c) ==
  /\ conn[c] = "up" /\ stalls < MaxStalls
  /\ stalls' = stalls + 1
  /\ conn' = [conn EXCEPT ![c] = "stalled"]
  /\ UNCHANGED <<lost, request, response, taskVars, noise>>

Resume(c) ==
  /\ conn[c] = "stalled"
  /\ conn' = [conn EXCEPT ![c] = "up"]
  /\ UNCHANGED <<lost, request, response, taskVars, boundVars>>

BreakOff(c) ==
  /\ conn[c] \in {"up", "stalled"}
  /\ conn' = [conn EXCEPT ![c] = "broken"]
  /\ lost' = lost \cup {c}
  /\ UNCHANGED <<request, response, taskVars, boundVars>>

Peers == \E c \in Client : Ask(c) \/ Stall(c) \/ Resume(c) \/ BreakOff(c)

Next == WebTask \/ CommandReturns \/ Peers

Spec == Init /\ [][Next]_vars

\* The task is scheduled.  Nothing is assumed of the peers, of which one that
\* has stalled may do so for ever, nor of commands, which need not return.
FairSpec == Spec /\ WF_vars(WebTask)

-----------------------------------------------------------------------------
(***************************************************************************)
(* Properties.                                                             *)
(***************************************************************************)

\* The variables have their types; pending, unsigned in the code, does not go
\* below zero; the task serves a client except when it polls.
TypeOK ==
  /\ conn \in [Client -> {"up", "stalled", "broken", "closed"}]
  /\ request \in [Client -> {"none", "noise", "file", "command"}]
  /\ response \in [Client -> [kind : {"none", "file", "missing", "result"},
                              size : Nat, body : Nat, over : Nat,
                              exact : BOOLEAN, ended : BOOLEAN]]
  /\ lost \subseteq Client
  /\ task \in {"poll", "file", "command", "result", "chunk", "last", "hangup"}
  /\ cli \in Client \cup {Nobody}
  /\ task = "poll" <=> cli = Nobody
  /\ pending \in Nat /\ retries \in 0 .. MaxRetries /\ shortRead \in BOOLEAN
  /\ noise \in 0 .. MaxNoise /\ stalls \in 0 .. MaxStalls

\* A client that has been given the empty chunk has been given the whole file,
\* also when reads came up short and when sendTo() has failed in between, and
\* nothing besides but a byte for every call of send() that would have blocked.
EndMeansWhole ==
  \A c \in Client :
    response[c].ended => response[c].body = response[c].size + response[c].over

\* Unless a read comes up short, every chunk holds as much as it announces to a
\* client on whom no call of send() would have blocked.
ChunksAreExact ==
  ~shortRead => \A c \in Client : response[c].exact \/ response[c].over > 0

\* The server hangs up on a client only when it has answered in full, or the
\* connection broke.
HangsUpAnswered ==
  \A c \in Client :
    conn[c] = "closed"
      => \/ c \in lost
         \/ response[c].kind \in {"missing", "result"}
         \/ response[c].kind = "file" /\ response[c].ended

\* A connection is good for one answer: once a client has been answered and
\* the task has turned to another, the connection is closed.
OneAnswerEach ==
  \A c \in Client : response[c].kind # "none" /\ cli # c => conn[c] = "closed"

\* A request the task has accepted comes to the end of its connection, unless
\* from some time on the task is kept by its client, who does not read, by a
\* file that cannot be read, or by a command that does not return.
RequestsEnd ==
  \A c \in Client :
    <>[](cli = c)
      => <>[](\/ conn[c] = "stalled"
              \/ task = "chunk" /\ shortRead
              \/ task = "command")
=============================================================================
