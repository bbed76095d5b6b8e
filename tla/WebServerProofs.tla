-------------------------- MODULE WebServerProofs --------------------------
(***************************************************************************)
(* What the web server has told a client when it hangs up, for any number  *)
(* of clients, files of any size, chunks of any length, and connections    *)
(* and reads that fail at any time.                                        *)
(***************************************************************************)
EXTENDS WebServer, TLAPS

Response == [kind : {"none", "file", "missing", "result"}, size : Nat, body : Nat,
             over : Nat, exact : BOOLEAN, ended : BOOLEAN]

BrokenIsLost == \A c \in Client : conn[c] = "broken" => c \in lost

ServedIsOpen == cli # Nobody => conn[cli] # "closed"

\* Nothing has gone to a client that has not been answered.
NothingBefore ==
  \A c \in Client : response[c].kind = "none"
    => response[c].body = 0 /\ response[c].over = 0 /\ ~response[c].ended

\* How far the answer to a client has come, when the task is at t and p bytes
\* of the file are left.
Progress(t, r, p) ==
  CASE t \in {"file", "command", "result"} -> r.kind = "none"
    [] t = "chunk"  -> r.kind = "file" /\ ~r.ended /\ r.body + p = r.size + r.over
    [] t = "last"   -> r.kind = "file" /\ ~r.ended /\ r.body = r.size + r.over
    [] t = "hangup" -> r.kind \in {"missing", "result"} \/ (r.kind = "file" /\ r.ended)
    [] OTHER        -> TRUE

\* The answer under way is at the point the task is, or the connection broke
\* (as it may have done before anything was sent).
AnswerUnderWay ==
  cli # Nobody
    => \/ Progress(task, response[cli], pending)
       \/ conn[cli] = "broken" /\ task \notin {"file", "command", "result"}

WebInv ==
  /\ TypeOK /\ BrokenIsLost /\ ServedIsOpen /\ NothingBefore /\ AnswerUnderWay
  /\ EndMeansWhole /\ ChunksAreExact /\ HangsUpAnswered /\ OneAnswerEach

LEMMA InitEstablishesWebInv == Init => WebInv
<1>1. SUFFICES ASSUME Init PROVE WebInv
  OBVIOUS
<1>2. NoResponse \in Response /\ NoResponse.kind = "none" /\ NoResponse.body = 0
      /\ NoResponse.over = 0 /\ NoResponse.size = 0 /\ NoResponse.exact = TRUE /\ NoResponse.ended = FALSE
  BY DEF NoResponse, Response
<1>3. TypeOK
  <2>1. response \in [Client -> Response]
    BY <1>1, <1>2 DEF Init
  <2>2. shortRead \in BOOLEAN
    BY <1>1 DEF Init
  <2>3. noise \in 0 .. MaxNoise /\ stalls \in 0 .. MaxStalls /\ retries \in 0 .. MaxRetries
    BY <1>1, BoundsAssumption DEF Init
  <2>4. task = "poll" <=> cli = Nobody
    BY <1>1 DEF Init
  <2>5. QED
    BY <1>1, <2>1, <2>2, <2>3, <2>4 DEF Init, TypeOK, Response
<1>4. BrokenIsLost /\ ServedIsOpen /\ AnswerUnderWay /\ HangsUpAnswered
  BY <1>1 DEF Init, BrokenIsLost, ServedIsOpen, AnswerUnderWay, HangsUpAnswered
<1>5. NothingBefore /\ EndMeansWhole /\ ChunksAreExact /\ OneAnswerEach
  BY <1>1, <1>2 DEF Init, NothingBefore, EndMeansWhole, ChunksAreExact,
                    OneAnswerEach
<1>6. QED
  BY <1>3, <1>4, <1>5 DEF WebInv

\* What the bytes sendTo() hands over too many change in a response.
LEMMA OverOf ==
  ASSUME NEW r \in Response, NEW k \in Nat
  PROVE  /\ Over(r, k) \in Response
         /\ Over(r, k).kind = r.kind /\ Over(r, k).size = r.size
         /\ Over(r, k).ended = r.ended
         /\ Over(r, k).body = r.body + k /\ Over(r, k).over = r.over + k
         /\ Over(r, k).exact = (r.exact /\ k = 0)
<1> DEFINE e == r.exact /\ k = 0
<1>1. e \in BOOLEAN
  OBVIOUS
<1>2. Over(r, k) = [r EXCEPT !.body = @ + k, !.over = @ + k, !.exact = e]
  BY DEF Over
<1>3. r.body + k \in Nat /\ r.over + k \in Nat
  BY DEF Response
<1> HIDE DEF e
<1>4. /\ Over(r, k) \in Response
      /\ Over(r, k).kind = r.kind /\ Over(r, k).size = r.size
      /\ Over(r, k).ended = r.ended
      /\ Over(r, k).body = r.body + k /\ Over(r, k).over = r.over + k
      /\ Over(r, k).exact = e
  BY <1>1, <1>2, <1>3 DEF Response
<1>5. QED
  BY <1>4 DEF e

\* sendTo() touches the response to one client, and only if it is there.
LEMMA SentToOne ==
  ASSUME WebInv, NEW r \in Response, cli # Nobody, SentTo(cli, r)
  PROVE  /\ cli \in Client
         /\ response' \in [Client -> Response]
         /\ \A c \in Client : c # cli => response'[c] = response[c]
         /\ \/ conn[cli] = "up" /\ response'[cli] = Over(r, retries)
            \/ conn[cli] = "broken" /\ response'[cli] = response[cli]
         /\ retries \in Nat /\ retries' \in 0 .. MaxRetries
<1>1. cli \in Client /\ response \in [Client -> Response] /\ conn[cli] # "closed"
  BY DEF WebInv, TypeOK, ServedIsOpen, Response
<1>2. conn[cli] \in {"up", "stalled", "broken"}
  BY <1>1 DEF WebInv, TypeOK
<1>3. retries \in Nat /\ retries' \in 0 .. MaxRetries
  BY BoundsAssumption DEF WebInv, TypeOK, SentTo
<1>4. Over(r, retries) \in Response
  BY <1>3, OverOf
<1>5. QED
  BY <1>1, <1>2, <1>3, <1>4 DEF SentTo

-----------------------------------------------------------------------------
(***************************************************************************)
(* The steps that answer: each leaves the peers alone and changes the      *)
(* response to one client to r.                                            *)
(***************************************************************************)
LEMMA AnsweringStep ==
  ASSUME WebInv, NEW r \in Response, cli # Nobody, SentTo(cli, r),
         UNCHANGED <<peerVars, cli, boundVars>>,
         task' \in {"chunk", "last", "hangup"}, pending' \in Nat,
         shortRead' \in BOOLEAN, shortRead => shortRead',
         r.kind # "none",
         r.exact \/ r.over > 0 \/ shortRead',
         r.ended => r.body = r.size + r.over,
         conn[cli] = "up" => Progress(task', r, pending')
  PROVE  WebInv'
<1> DEFINE o == Over(r, retries)
<1>1. /\ cli \in Client
      /\ response' \in [Client -> Response]
      /\ \A c \in Client : c # cli => response'[c] = response[c]
      /\ \/ conn[cli] = "up" /\ response'[cli] = o
         \/ conn[cli] = "broken" /\ response'[cli] = response[cli]
      /\ retries \in Nat /\ retries' \in 0 .. MaxRetries
  BY SentToOne
<1>2. UNCHANGED <<conn, lost, request, cli, noise, stalls>>
  BY DEF peerVars, boundVars
<1>3. /\ o \in Response /\ o.kind = r.kind /\ o.size = r.size /\ o.ended = r.ended
      /\ o.body = r.body + retries /\ o.over = r.over + retries
      /\ o.exact = (r.exact /\ retries = 0)
  BY <1>1, OverOf
<1> HIDE DEF o
<1>4. r.body \in Nat /\ r.over \in Nat /\ r.size \in Nat
  BY DEF Response
<1>5. /\ o.kind # "none"
      /\ o.exact \/ o.over > 0 \/ shortRead'
      /\ o.ended => o.body = o.size + o.over
  <2>1. CASE retries = 0
    <3>1. r.exact => o.exact
      BY <1>3, <2>1
    <3>2. o.over = r.over /\ o.body = r.body
      BY <1>3, <1>4, <2>1
    <3>3. QED
      BY <1>3, <3>1, <3>2
  <2>2. CASE retries > 0
    BY <1>1, <1>3, <1>4, <2>2
  <2>3. QED
    BY <1>1, <2>1, <2>2
<1>6. conn[cli] = "up" => Progress(task', o, pending')
  BY <1>1, <1>3, <1>4 DEF Progress
<1>7. TypeOK'
  <2>1. task' # "poll" /\ cli' # Nobody
    BY <1>2
  <2>2. QED
    BY <1>1, <1>2, <2>1 DEF WebInv, TypeOK, Response
<1>8. BrokenIsLost' /\ ServedIsOpen' /\ HangsUpAnswered'
  BY <1>1, <1>2 DEF WebInv, BrokenIsLost, ServedIsOpen, HangsUpAnswered
<1>9. NothingBefore'
  BY <1>1, <1>5 DEF WebInv, NothingBefore
<1>10. AnswerUnderWay'
  BY <1>1, <1>2, <1>6 DEF AnswerUnderWay
<1>11. EndMeansWhole'
  BY <1>1, <1>5 DEF WebInv, EndMeansWhole
<1>12. ChunksAreExact'
  BY <1>1, <1>5 DEF WebInv, ChunksAreExact
<1>13. OneAnswerEach'
  BY <1>1, <1>2 DEF WebInv, OneAnswerEach
<1>14. QED
  BY <1>7, <1>8, <1>9, <1>10, <1>11, <1>12, <1>13 DEF WebInv

\* What the step has to show is the response it sends.
LEMMA AnswerPreservesWebInv ==
  ASSUME WebInv, AnswerCommand \/ FileMissing \/ SendHeader \/ SendChunk \/ SendLast
  PROVE  WebInv'
<1>1. task # "poll"
  BY DEF AnswerCommand, FileMissing, SendHeader, SendChunk, SendLast
<1>2. cli # Nobody /\ cli \in Client
  BY <1>1 DEF WebInv, TypeOK
<1> DEFINE old == response[cli]
<1>3. old \in Response
  BY <1>2 DEF WebInv, TypeOK, Response
<1>4. /\ old.kind = "none" => old.body = 0 /\ old.over = 0 /\ ~old.ended
      /\ old.ended => old.body = old.size + old.over
      /\ old.exact \/ old.over > 0 \/ shortRead
  BY <1>2 DEF WebInv, NothingBefore, EndMeansWhole, ChunksAreExact
<1>5. conn[cli] = "up" => Progress(task, old, pending)
  BY <1>2 DEF WebInv, AnswerUnderWay
<1>6. pending \in Nat /\ shortRead \in BOOLEAN
  BY DEF WebInv, TypeOK
<1> HIDE DEF old
<1>7. CASE AnswerCommand
  <2> DEFINE r == [old EXCEPT !.kind = "result"]
  <2>1. /\ r \in Response /\ r.kind = "result" /\ r.exact = old.exact
        /\ r.body = old.body /\ r.over = old.over /\ r.size = old.size
        /\ r.ended = old.ended
    BY <1>3 DEF Response
  <2>2. SentTo(cli, r) /\ task' = "hangup" /\ UNCHANGED <<peerVars, cli, pending, shortRead, boundVars>>
    BY <1>7 DEF AnswerCommand, old
  <2> HIDE DEF r
  <2>3. Progress(task', r, pending')
    BY <2>1, <2>2 DEF Progress
  <2>4. QED
    BY <1>2, <1>4, <1>6, <2>1, <2>2, <2>3, AnsweringStep
<1>8. CASE FileMissing
  <2> DEFINE r == [old EXCEPT !.kind = "missing"]
  <2>1. /\ r \in Response /\ r.kind = "missing" /\ r.exact = old.exact
        /\ r.body = old.body /\ r.over = old.over /\ r.size = old.size
        /\ r.ended = old.ended
    BY <1>3 DEF Response
  <2>2. SentTo(cli, r) /\ task' = "hangup" /\ UNCHANGED <<peerVars, cli, pending, shortRead, boundVars>>
    BY <1>8 DEF FileMissing, old
  <2> HIDE DEF r
  <2>3. Progress(task', r, pending')
    BY <2>1, <2>2 DEF Progress
  <2>4. QED
    BY <1>2, <1>4, <1>6, <2>1, <2>2, <2>3, AnsweringStep
<1>9. CASE SendHeader
  <2>1. PICK s \in Sizes : /\ SentTo(cli, [old EXCEPT !.kind = "file", !.size = s])
                           /\ pending' = s
    BY <1>9 DEF SendHeader, old
  <2> DEFINE r == [old EXCEPT !.kind = "file", !.size = s]
  <2>2. s \in Nat
    BY SizesAssumption
  <2>3. /\ r \in Response /\ r.kind = "file" /\ r.exact = old.exact
        /\ r.body = old.body /\ r.over = old.over /\ r.size = s
        /\ r.ended = old.ended
    BY <1>3, <2>2 DEF Response
  <2>4. task' = "chunk" /\ UNCHANGED <<peerVars, cli, shortRead, boundVars>>
    BY <1>9 DEF SendHeader
  <2>5. old.kind = "none"
    <3>1. Progress(task, old, pending)
      BY <1>2, <1>9 DEF WebInv, AnswerUnderWay, SendHeader, old
    <3>2. QED
      BY <1>9, <3>1 DEF SendHeader, Progress
  <2>6. SentTo(cli, r)
    BY <2>1
  <2> HIDE DEF r
  <2>7. Progress(task', r, pending')
    <3>1. r.body + pending' = r.size + r.over /\ ~r.ended
      BY <1>4, <2>1, <2>2, <2>3, <2>5
    <3>2. QED
      BY <2>3, <2>4, <3>1 DEF Progress
  <2>8. r.ended => r.body = r.size + r.over
    BY <1>4, <2>3, <2>5
  <2>9. QED
    BY <1>2, <1>4, <1>6, <2>1, <2>2, <2>3, <2>4, <2>6, <2>7, <2>8, AnsweringStep
<1>10. CASE SendChunk
  <2>1. PICK n \in 0 .. ToRead :
          /\ Read(n, ToRead)
          /\ ChunkSent(n, ToRead)
          /\ \/ conn[cli] = "up" /\ pending' = pending - n /\ UNCHANGED task
             \/ conn[cli] # "up" /\ UNCHANGED pending /\ task' = "last"
    BY <1>10 DEF SendChunk
  <2> DEFINE r == [old EXCEPT !.body = @ + n, !.exact = @ /\ n = ToRead]
  <2>2. /\ n \in Nat /\ n <= pending
        /\ n = ToRead \/ shortRead'
        /\ shortRead' \in BOOLEAN /\ (shortRead => shortRead')
    <3>1. ToRead \in Nat /\ ToRead <= pending
      BY <1>6, ChunkAssumption DEF ToRead
    <3>2. n \in Nat /\ n <= ToRead /\ n <= pending
      BY <1>6, <2>1, <3>1
    <3>3. n = ToRead \/ (n < ToRead /\ n < pending)
      BY <1>6, <3>1, <3>2
    <3>4. shortRead' = (shortRead \/ (n < ToRead /\ n < pending))
      BY <2>1 DEF Read
    <3>5. shortRead' \in BOOLEAN
      BY <3>4
    <3>6. shortRead => shortRead'
      BY <3>4
    <3>7. n < ToRead /\ n < pending => shortRead'
      BY <3>4
    <3>8. QED
      BY <3>2, <3>3, <3>5, <3>6, <3>7
  <2>3. /\ r \in Response /\ r.kind = old.kind /\ r.exact = (old.exact /\ n = ToRead)
        /\ r.body = old.body + n /\ r.over = old.over /\ r.size = old.size
        /\ r.ended = old.ended
    <3> DEFINE e == old.exact /\ n = ToRead
    <3>1. e \in BOOLEAN
      OBVIOUS
    <3>2. old.body + n \in Nat
      BY <1>3, <2>2 DEF Response
    <3>3. r = [old EXCEPT !.body = old.body + n, !.exact = e]
      BY <1>3 DEF Response
    <3> HIDE DEF e, r
    <3>4. /\ r \in Response /\ r.kind = old.kind /\ r.exact = e
          /\ r.body = old.body + n /\ r.over = old.over /\ r.size = old.size
        /\ r.ended = old.ended
      BY <1>3, <3>1, <3>2, <3>3 DEF Response
    <3>5. QED
      BY <3>4 DEF e
  <2>4. SentTo(cli, r) /\ UNCHANGED <<peerVars, cli, boundVars>> /\ task = "chunk"
    BY <1>10, <2>1 DEF SendChunk, ChunkSent, old
  <2>5. pending' \in Nat /\ task' \in {"chunk", "last"}
    BY <1>6, <2>1, <2>2, <2>4
  <2> HIDE DEF r
  <2>6. CASE conn[cli] = "up"
    <3>1. old.kind = "file" /\ ~old.ended /\ old.body + pending = old.size + old.over
      BY <1>5, <2>4, <2>6 DEF Progress
    <3>2. old.body \in Nat /\ old.size \in Nat /\ old.over \in Nat
      BY <1>3 DEF Response
    <3>3. r.body + pending' = r.size + r.over
      BY <1>6, <2>1, <2>2, <2>3, <2>6, <3>1, <3>2
    <3>4. Progress(task', r, pending')
      BY <2>1, <2>3, <2>4, <2>6, <3>1, <3>3 DEF Progress
    <3>5. r.exact \/ r.over > 0 \/ shortRead'
      BY <1>4, <2>2, <2>3
    <3>6. r.kind # "none" /\ ~r.ended
      BY <2>3, <3>1
    <3>7. QED
      BY <1>2, <2>2, <2>3, <2>4, <2>5, <3>4, <3>5, <3>6, AnsweringStep
  <2>7. CASE conn[cli] # "up"
    <3>1. conn[cli] = "broken" /\ response' = response /\ retries' \in 0 .. MaxRetries
      BY <1>2, <2>3, <2>4, <2>7, SentToOne DEF SentTo
    <3>2. task' = "last" /\ UNCHANGED <<conn, lost, request, cli, pending, noise, stalls>>
      BY <2>1, <2>4, <2>7 DEF peerVars, boundVars
    <3>3. TypeOK'
      BY <1>2, <2>2, <3>1, <3>2 DEF WebInv, TypeOK
    <3>4. QED
      BY <2>2, <3>1, <3>2, <3>3 DEF WebInv, BrokenIsLost, ServedIsOpen, NothingBefore,
         AnswerUnderWay, EndMeansWhole, ChunksAreExact, HangsUpAnswered, OneAnswerEach
  <2>8. QED
    BY <2>6, <2>7
<1>11. CASE SendLast
  <2> DEFINE r == [old EXCEPT !.ended = TRUE]
  <2>1. /\ r \in Response /\ r.kind = old.kind /\ r.exact = old.exact
        /\ r.body = old.body /\ r.over = old.over /\ r.size = old.size
        /\ r.ended = TRUE
    BY <1>3 DEF Response
  <2>2. /\ SentTo(cli, r) /\ task = "last" /\ task' = "hangup"
        /\ UNCHANGED <<peerVars, cli, pending, shortRead, boundVars>>
    BY <1>11 DEF SendLast, old
  <2> HIDE DEF r
  <2>3. CASE conn[cli] = "up"
    <3>1. old.kind = "file" /\ old.body = old.size + old.over
      BY <1>5, <2>2, <2>3 DEF Progress
    <3>2. Progress(task', r, pending')
      BY <2>1, <2>2, <3>1 DEF Progress
    <3>3. r.kind # "none" /\ r.body = r.size + r.over
      BY <2>1, <3>1
    <3>4. QED
      BY <1>2, <1>4, <1>6, <2>1, <2>2, <3>2, <3>3, AnsweringStep
  <2>4. CASE conn[cli] # "up"
    <3>1. conn[cli] = "broken" /\ response' = response /\ retries' \in 0 .. MaxRetries
      BY <1>2, <2>1, <2>2, <2>4, SentToOne DEF SentTo
    <3>2. UNCHANGED <<conn, lost, request, cli, pending, shortRead, noise, stalls>>
      BY <2>2 DEF peerVars, boundVars
    <3>3. TypeOK'
      BY <1>2, <2>2, <3>1, <3>2 DEF WebInv, TypeOK
    <3>4. QED
      BY <2>2, <3>1, <3>2, <3>3 DEF WebInv, BrokenIsLost, ServedIsOpen, NothingBefore,
         AnswerUnderWay, EndMeansWhole, ChunksAreExact, HangsUpAnswered, OneAnswerEach
  <2>5. QED
    BY <2>3, <2>4
<1>12. QED
  BY <1>7, <1>8, <1>9, <1>10, <1>11

-----------------------------------------------------------------------------
(***************************************************************************)
(* The other steps: none of them touches a response.                       *)
(***************************************************************************)
LEMMA TaskPreservesWebInv ==
  ASSUME WebInv, NEW c \in Client,
         Ignore(c) \/ Accept(c) \/ EndOfFile \/ HangUp \/ CommandReturns \/ WouldBlock
  PROVE  WebInv'
<1> USE DEF WebInv, peerVars, taskVars, boundVars
<1>1. shortRead \in BOOLEAN
  BY DEF TypeOK
<1>2. CASE Ignore(c)
  <2>1. TypeOK'
    BY <1>1, <1>2 DEF Ignore, TypeOK
  <2>2. QED
    BY <1>2, <2>1 DEF Ignore, BrokenIsLost, ServedIsOpen, NothingBefore,
       AnswerUnderWay, EndMeansWhole, ChunksAreExact, HangsUpAnswered, OneAnswerEach
<1>3. CASE Accept(c)
  <2>1. /\ task = "poll" /\ cli = Nobody /\ cli' = c /\ c # Nobody
        /\ conn[c] # "closed" /\ task' = request[c]
        /\ request[c] \in {"file", "command"}
        /\ UNCHANGED <<conn, lost, response, pending, shortRead, noise, stalls>>
    BY <1>3, NobodyAssumption DEF Accept, TypeOK
  <2>2. TypeOK'
    BY <1>1, <1>3, <2>1 DEF Accept, TypeOK
  <2>3. response[c].kind = "none"
    BY <2>1 DEF OneAnswerEach
  <2>4. AnswerUnderWay'
    BY <2>1, <2>3 DEF AnswerUnderWay, Progress
  <2>5. OneAnswerEach'
    <3>1. SUFFICES ASSUME NEW d \in Client, response'[d].kind # "none", cli' # d
                   PROVE  conn'[d] = "closed"
      BY DEF OneAnswerEach
    <3>2. response[d].kind # "none" /\ cli # d
      BY <2>1, <3>1, NobodyAssumption
    <3>3. QED
      BY <2>1, <3>2 DEF OneAnswerEach
  <2>6. BrokenIsLost' /\ ServedIsOpen'
    BY <2>1 DEF BrokenIsLost, ServedIsOpen
  <2>7. NothingBefore'
    BY <2>1, <2>3 DEF NothingBefore
  <2>8. EndMeansWhole' /\ ChunksAreExact' /\ HangsUpAnswered'
    BY <2>1 DEF EndMeansWhole, ChunksAreExact, HangsUpAnswered
  <2>9. QED
    BY <2>2, <2>4, <2>5, <2>6, <2>7, <2>8
<1>4. CASE EndOfFile
  <2>1. /\ task = "chunk" /\ task' = "last" /\ ~(pending > 0) /\ pending \in Nat
        /\ UNCHANGED <<conn, request, lost, response, cli, pending, retries, shortRead,
                       noise, stalls>>
    BY <1>4 DEF EndOfFile, More, TypeOK
  <2>2. TypeOK' /\ cli \in Client
    BY <1>1, <2>1 DEF TypeOK
  <2>3. response[cli].body \in Nat /\ response[cli].size \in Nat
        /\ response[cli].over \in Nat
    BY <2>2 DEF TypeOK
  <2>4. AnswerUnderWay'
    BY <2>1, <2>3 DEF AnswerUnderWay, Progress
  <2>5. QED
    BY <2>1, <2>2, <2>4 DEF BrokenIsLost, ServedIsOpen, NothingBefore,
       EndMeansWhole, ChunksAreExact, HangsUpAnswered, OneAnswerEach
<1>5. CASE HangUp
  <2>1. /\ task = "hangup" /\ task' = "poll" /\ cli' = Nobody
        /\ conn' = [conn EXCEPT ![cli] = "closed"]
        /\ UNCHANGED <<lost, response, pending, shortRead, noise, stalls>>
    BY <1>5 DEF HangUp
  <2>2. cli \in Client /\ cli # Nobody
    BY <2>1 DEF TypeOK
  <2>3. TypeOK'
    BY <1>1, <1>5, <2>1, <2>2 DEF HangUp, TypeOK
  <2>4. HangsUpAnswered'
    <3>1. \/ cli \in lost
          \/ response[cli].kind \in {"missing", "result"}
          \/ response[cli].kind = "file" /\ response[cli].ended
      BY <2>1, <2>2 DEF AnswerUnderWay, Progress, BrokenIsLost
    <3>2. \A d \in Client : conn'[d] = IF d = cli THEN "closed" ELSE conn[d]
      BY <2>1 DEF TypeOK
    <3>3. QED
      BY <2>1, <3>1, <3>2 DEF HangsUpAnswered
  <2>5. OneAnswerEach'
    BY <2>1, <2>2 DEF OneAnswerEach, TypeOK
  <2>6. BrokenIsLost' /\ ServedIsOpen' /\ AnswerUnderWay'
    BY <2>1, <2>2 DEF BrokenIsLost, ServedIsOpen, AnswerUnderWay, TypeOK
  <2>7. NothingBefore' /\ EndMeansWhole' /\ ChunksAreExact'
    BY <2>1 DEF NothingBefore, EndMeansWhole, ChunksAreExact
  <2>8. QED
    BY <2>3, <2>4, <2>5, <2>6, <2>7
<1>6. CASE CommandReturns
  <2>1. /\ task = "command" /\ task' = "result"
        /\ UNCHANGED <<conn, request, lost, response, cli, pending, retries, shortRead,
                       noise, stalls>>
    BY <1>6 DEF CommandReturns
  <2>2. TypeOK' /\ cli \in Client
    BY <1>1, <2>1 DEF TypeOK
  <2>3. AnswerUnderWay'
    <3>1. Progress(task, response[cli], pending)
      BY <2>1, <2>2, NobodyAssumption DEF AnswerUnderWay
    <3>2. response[cli].kind = "none"
      BY <2>1, <3>1 DEF Progress
    <3>3. Progress(task', response'[cli'], pending')
      BY <2>1, <3>2 DEF Progress
    <3>4. QED
      BY <2>1, <3>3 DEF AnswerUnderWay
  <2>4. QED
    BY <2>1, <2>2, <2>3 DEF BrokenIsLost, ServedIsOpen, NothingBefore,
       EndMeansWhole, ChunksAreExact, HangsUpAnswered, OneAnswerEach
<1>7. CASE WouldBlock
  <2>1. /\ retries' \in 0 .. MaxRetries
        /\ UNCHANGED <<conn, request, lost, response, task, cli, pending, shortRead,
                       noise, stalls>>
    <3>1. retries \in 0 .. MaxRetries /\ retries < MaxRetries /\ retries' = retries + 1
      BY <1>7 DEF WouldBlock, TypeOK
    <3>2. QED
      BY <1>7, <3>1, BoundsAssumption DEF WouldBlock
  <2>2. TypeOK'
    BY <1>1, <2>1 DEF TypeOK
  <2>3. QED
    BY <2>1, <2>2 DEF BrokenIsLost, ServedIsOpen, NothingBefore, AnswerUnderWay,
       EndMeansWhole, ChunksAreExact, HangsUpAnswered, OneAnswerEach
<1>8. QED
  BY <1>2, <1>3, <1>4, <1>5, <1>6, <1>7

LEMMA PeersPreserveWebInv ==
  ASSUME WebInv, NEW c \in Client, Ask(c) \/ Stall(c) \/ Resume(c) \/ BreakOff(c)
  PROVE  WebInv'
<1> USE DEF WebInv, peerVars, taskVars, boundVars
<1>1. UNCHANGED <<response, task, cli, pending, retries, shortRead>> /\ shortRead \in BOOLEAN
  BY DEF Ask, Stall, Resume, BreakOff, TypeOK
<1>2. /\ \A d \in Client : conn[d] \in {"broken", "closed"} => conn'[d] = conn[d]
      /\ \A d \in Client : conn'[d] = "closed" => conn[d] = "closed"
      /\ \A d \in Client : conn'[d] = "broken" => conn[d] = "broken" \/ d \in lost'
      /\ lost \subseteq lost'
  BY DEF Ask, Stall, Resume, BreakOff, TypeOK
<1>3. TypeOK'
  <2>1. CASE Ask(c)
    <3>1. noise' \in 0 .. MaxNoise /\ UNCHANGED <<conn, lost, stalls>>
      BY <2>1, BoundsAssumption DEF Ask, TypeOK
    <3>2. request' \in [Client -> {"none", "noise", "file", "command"}]
      BY <2>1 DEF Ask, TypeOK
    <3>3. QED
      BY <1>1, <3>1, <3>2 DEF TypeOK
  <2>2. CASE Stall(c)
    <3>1. stalls' \in 0 .. MaxStalls /\ UNCHANGED <<request, lost, noise>>
      BY <2>2, BoundsAssumption DEF Stall, TypeOK
    <3>2. conn' \in [Client -> {"up", "stalled", "broken", "closed"}]
      BY <2>2 DEF Stall, TypeOK
    <3>3. QED
      BY <1>1, <3>1, <3>2 DEF TypeOK
  <2>3. CASE Resume(c)
    BY <1>1, <2>3 DEF Resume, TypeOK
  <2>4. CASE BreakOff(c)
    BY <1>1, <2>4 DEF BreakOff, TypeOK
  <2>5. QED
    BY <2>1, <2>2, <2>3, <2>4
<1>4. BrokenIsLost' /\ HangsUpAnswered'
  BY <1>1, <1>2 DEF BrokenIsLost, HangsUpAnswered
<1>5. ServedIsOpen' /\ AnswerUnderWay'
  <2>1. cli # Nobody => cli \in Client
    BY DEF TypeOK
  <2>2. QED
    BY <1>1, <1>2, <2>1 DEF ServedIsOpen, AnswerUnderWay
<1>6. NothingBefore' /\ EndMeansWhole' /\ ChunksAreExact'
  BY <1>1 DEF NothingBefore, EndMeansWhole, ChunksAreExact
<1>7. OneAnswerEach'
  BY <1>1, <1>2 DEF OneAnswerEach
<1>8. QED
  BY <1>3, <1>4, <1>5, <1>6, <1>7

LEMMA NextPreservesWebInv == WebInv /\ [Next]_vars => WebInv'
<1>1. SUFFICES ASSUME WebInv, [Next]_vars PROVE WebInv'
  OBVIOUS
<1>2. CASE AnswerCommand \/ FileMissing \/ SendHeader \/ SendChunk \/ SendLast
  BY <1>1, <1>2, AnswerPreservesWebInv
<1>3. CASE EndOfFile \/ HangUp \/ CommandReturns \/ WouldBlock
  <2>1. task # "poll"
    BY <1>3 DEF EndOfFile, HangUp, CommandReturns, WouldBlock
  <2>2. cli \in Client
    BY <1>1, <2>1 DEF WebInv, TypeOK
  <2>3. QED
    BY <1>1, <1>3, <2>2, TaskPreservesWebInv
<1>4. CASE \E c \in Client : Ignore(c) \/ Accept(c)
  BY <1>1, <1>4, TaskPreservesWebInv
<1>5. CASE Peers
  BY <1>1, <1>5, PeersPreserveWebInv DEF Peers
<1>6. CASE UNCHANGED vars
  BY <1>1, <1>6 DEF vars, peerVars, taskVars, boundVars, WebInv, TypeOK, BrokenIsLost,
     ServedIsOpen, NothingBefore, AnswerUnderWay, EndMeansWhole, ChunksAreExact,
     HangsUpAnswered, OneAnswerEach
<1>7. QED
  BY <1>1, <1>2, <1>3, <1>4, <1>5, <1>6 DEF Next, WebTask

LEMMA WebInvariant == Spec => []WebInv
  BY InitEstablishesWebInv, NextPreservesWebInv, PTL DEF Spec

\* The variables keep their types.
THEOREM WebTypes == Spec => []TypeOK
<1>1. WebInv => TypeOK
  BY DEF WebInv
<1>2. QED
  BY <1>1, WebInvariant, PTL

\* A client that has been told the file is over has been given all of it,
\* however reads and connections fail.
THEOREM EndedFilesAreWhole == Spec => []EndMeansWhole
<1>1. WebInv => EndMeansWhole
  BY DEF WebInv
<1>2. QED
  BY <1>1, WebInvariant, PTL

\* Every chunk holds what it announces as long as reads come up in full.
THEOREM ChunksHoldWhatTheyAnnounce == Spec => []ChunksAreExact
<1>1. WebInv => ChunksAreExact
  BY DEF WebInv
<1>2. QED
  BY <1>1, WebInvariant, PTL

\* The web server hangs up on a client only after a complete answer, unless
\* the connection broke.
THEOREM HangsUpOnlyAnswered == Spec => []HangsUpAnswered
<1>1. WebInv => HangsUpAnswered
  BY DEF WebInv
<1>2. QED
  BY <1>1, WebInvariant, PTL

\* No client is answered twice.
THEOREM AnswersOnce == Spec => []OneAnswerEach
<1>1. WebInv => OneAnswerEach
  BY DEF WebInv
<1>2. QED
  BY <1>1, WebInvariant, PTL
-----------------------------------------------------------------------------
(***************************************************************************)
(* An answer only grows.                                                   *)
(***************************************************************************)

\* What an answer may become in a step: once it has begun it remains an answer of
\* its kind, to a file of its size; no byte is taken back and none follows the end.
Extends(new, old) ==
  /\ old.kind # "none" => new.kind = old.kind /\ new.size = old.size
  /\ new.body >= old.body
  /\ old.ended => new = old

AnswersExtend == \A c \in Client : Extends(response'[c], response[c])

\* A client is given no more than the file it was promised, but for the bytes
\* that sendTo() hands over beyond its messages.
WithinSize ==
  \A c \in Client : response[c].body <= response[c].size + response[c].over

SizeInv == WebInv /\ WithinSize

\* sendTo() of an answer that extends what has been sent, and is within its size.
LEMMA SendingExtends ==
  ASSUME SizeInv, cli # Nobody, NEW r \in Response, SentTo(cli, r),
         conn[cli] = "up" => Extends(r, response[cli]) /\ r.body <= r.size + r.over,
         conn[cli] = "up" => ~response[cli].ended
  PROVE  AnswersExtend /\ WithinSize'
<1> DEFINE o == Over(r, retries)
<1>1. /\ cli \in Client
      /\ response' \in [Client -> Response]
      /\ \A c \in Client : c # cli => response'[c] = response[c]
      /\ \/ conn[cli] = "up" /\ response'[cli] = o
         \/ conn[cli] = "broken" /\ response'[cli] = response[cli]
      /\ retries \in Nat
  BY SentToOne DEF SizeInv
<1>2. /\ o.kind = r.kind /\ o.size = r.size
      /\ o.body = r.body + retries /\ o.over = r.over + retries
  BY <1>1, OverOf
<1>3. r.body \in Nat /\ r.over \in Nat /\ r.size \in Nat /\ response[cli].body \in Nat
  BY <1>1 DEF Response, SizeInv, WebInv, TypeOK
<1> HIDE DEF o
<1>4. conn[cli] = "up" => Extends(o, response[cli]) /\ o.body <= o.size + o.over
  BY <1>1, <1>2, <1>3 DEF Extends
<1>5. \A c \in Client : Extends(response[c], response[c])
  BY DEF Extends, SizeInv, WebInv, TypeOK
<1>6. QED
  BY <1>1, <1>4, <1>5 DEF AnswersExtend, SizeInv, WithinSize

LEMMA AnswerExtends ==
  ASSUME SizeInv, AnswerCommand \/ FileMissing \/ SendHeader \/ SendChunk \/ SendLast
  PROVE  AnswersExtend /\ WithinSize'
<1>1. task # "poll"
  BY DEF AnswerCommand, FileMissing, SendHeader, SendChunk, SendLast
<1>2. cli # Nobody /\ cli \in Client
  BY <1>1 DEF SizeInv, WebInv, TypeOK
<1> DEFINE old == response[cli]
<1>3. old \in Response /\ old.body <= old.size + old.over /\ pending \in Nat
  BY <1>2 DEF SizeInv, WithinSize, WebInv, TypeOK, Response
<1>4. conn[cli] = "up" => Progress(task, old, pending)
  BY <1>2 DEF SizeInv, WebInv, AnswerUnderWay
<1>5. old.kind = "none" => old.body = 0 /\ old.over = 0 /\ ~old.ended
  BY <1>2 DEF SizeInv, WebInv, NothingBefore
<1>6. task \in {"file", "result"} => old.kind = "none"
  <2>1. task \in {"file", "result"} => Progress(task, old, pending)
    BY <1>2 DEF SizeInv, WebInv, AnswerUnderWay
  <2>2. QED
    BY <2>1 DEF Progress
<1>open. conn[cli] = "up" => ~old.ended
  <2>1. task \in {"file", "result", "chunk", "last"}
    BY DEF AnswerCommand, FileMissing, SendHeader, SendChunk, SendLast
  <2>2. task \in {"chunk", "last"} /\ Progress(task, old, pending) => ~old.ended
    BY DEF Progress
  <2>3. QED
    BY <1>4, <1>5, <1>6, <2>1, <2>2
<1> HIDE DEF old
<1>7. CASE AnswerCommand
  <2> DEFINE r == [old EXCEPT !.kind = "result"]
  <2>1. /\ r \in Response /\ r.body = old.body /\ r.over = old.over /\ r.size = old.size
    BY <1>3 DEF Response
  <2>2. SentTo(cli, r) /\ task = "result"
    BY <1>7 DEF AnswerCommand, old
  <2> HIDE DEF r
  <2>3. Extends(r, old) /\ r.body <= r.size + r.over
    BY <1>3, <1>5, <1>6, <2>1, <2>2 DEF Extends, Response
  <2>4. QED
    BY <1>2, <1>open, <2>1, <2>2, <2>3, SendingExtends DEF old
<1>8. CASE FileMissing
  <2> DEFINE r == [old EXCEPT !.kind = "missing"]
  <2>1. /\ r \in Response /\ r.body = old.body /\ r.over = old.over /\ r.size = old.size
    BY <1>3 DEF Response
  <2>2. SentTo(cli, r) /\ task = "file"
    BY <1>8 DEF FileMissing, old
  <2> HIDE DEF r
  <2>3. Extends(r, old) /\ r.body <= r.size + r.over
    BY <1>3, <1>5, <1>6, <2>1, <2>2 DEF Extends, Response
  <2>4. QED
    BY <1>2, <1>open, <2>1, <2>2, <2>3, SendingExtends DEF old
<1>9. CASE SendHeader
  <2>1. PICK s \in Sizes : SentTo(cli, [old EXCEPT !.kind = "file", !.size = s])
    BY <1>9 DEF SendHeader, old
  <2> DEFINE r == [old EXCEPT !.kind = "file", !.size = s]
  <2>2. s \in Nat
    BY SizesAssumption
  <2>3. /\ r \in Response /\ r.body = old.body /\ r.over = old.over /\ r.size = s
    BY <1>3, <2>2 DEF Response
  <2>4. SentTo(cli, r) /\ task = "file"
    BY <1>9, <2>1 DEF SendHeader
  <2> HIDE DEF r
  <2>5. Extends(r, old) /\ r.body <= r.size + r.over
    BY <1>3, <1>5, <1>6, <2>2, <2>3, <2>4 DEF Extends, Response
  <2>6. QED
    BY <1>2, <1>open, <2>3, <2>4, <2>5, SendingExtends DEF old
<1>10. CASE SendChunk
  <2>1. PICK n \in 0 .. ToRead : Read(n, ToRead) /\ ChunkSent(n, ToRead) /\ task = "chunk"
    BY <1>10 DEF SendChunk
  <2>2. n \in Nat /\ n <= pending
    <3>1. ToRead \in Nat /\ ToRead <= pending
      BY <1>3, ChunkAssumption DEF ToRead
    <3>2. QED
      BY <1>3, <2>1, <3>1
  <2> DEFINE r == [old EXCEPT !.body = @ + n, !.exact = @ /\ n = ToRead]
  <2>3. /\ r \in Response /\ r.kind = old.kind /\ r.body = old.body + n
        /\ r.over = old.over /\ r.size = old.size
    <3> DEFINE e == old.exact /\ n = ToRead
    <3>1. e \in BOOLEAN
      OBVIOUS
    <3>2. old.body + n \in Nat
      BY <1>3, <2>2 DEF Response
    <3>3. r = [old EXCEPT !.body = old.body + n, !.exact = e]
      BY <1>3 DEF Response
    <3> HIDE DEF e, r
    <3>4. QED
      BY <1>3, <3>1, <3>2, <3>3 DEF Response
  <2>4. SentTo(cli, r)
    BY <2>1 DEF ChunkSent, old
  <2> HIDE DEF r
  <2>5. conn[cli] = "up" => ~old.ended /\ old.body + pending = old.size + old.over
    BY <1>4, <2>1 DEF Progress
  <2>6. old.body \in Nat /\ old.size \in Nat /\ old.over \in Nat
    BY <1>3 DEF Response
  <2>7. conn[cli] = "up" => Extends(r, old) /\ r.body <= r.size + r.over
    BY <1>3, <2>2, <2>3, <2>5, <2>6 DEF Extends
  <2>8. QED
    BY <1>2, <1>open, <2>3, <2>4, <2>7, SendingExtends DEF old
<1>11. CASE SendLast
  <2> DEFINE r == [old EXCEPT !.ended = TRUE]
  <2>1. /\ r \in Response /\ r.kind = old.kind /\ r.body = old.body
        /\ r.over = old.over /\ r.size = old.size
    BY <1>3 DEF Response
  <2>2. SentTo(cli, r) /\ task = "last"
    BY <1>11 DEF SendLast, old
  <2> HIDE DEF r
  <2>3. conn[cli] = "up" => ~old.ended
    BY <1>4, <2>2 DEF Progress
  <2>4. conn[cli] = "up" => Extends(r, old) /\ r.body <= r.size + r.over
    BY <1>3, <2>1, <2>3 DEF Extends, Response
  <2>5. QED
    BY <1>2, <1>open, <2>1, <2>2, <2>4, SendingExtends DEF old
<1>12. QED
  BY <1>7, <1>8, <1>9, <1>10, <1>11

LEMMA NextExtends == SizeInv /\ [Next]_vars => AnswersExtend /\ SizeInv'
<1> SUFFICES ASSUME SizeInv, [Next]_vars PROVE AnswersExtend /\ SizeInv'
  OBVIOUS
<1>1. WebInv'
  BY NextPreservesWebInv DEF SizeInv
<1>2. CASE AnswerCommand \/ FileMissing \/ SendHeader \/ SendChunk \/ SendLast
  BY <1>1, <1>2, AnswerExtends DEF SizeInv
<1>3. CASE ~(AnswerCommand \/ FileMissing \/ SendHeader \/ SendChunk \/ SendLast)
  <2>1. response' = response
    BY <1>3 DEF Next, WebTask, Peers, Ignore, Accept, EndOfFile, HangUp, Ask, Stall,
       Resume, BreakOff, CommandReturns, WouldBlock, vars
  <2>2. AnswersExtend /\ WithinSize'
    BY <2>1 DEF SizeInv, WithinSize, AnswersExtend, Extends, WebInv, TypeOK
  <2>3. QED
    BY <1>1, <2>2 DEF SizeInv
<1>4. QED
  BY <1>2, <1>3

\* However connections and reads fail, what a client is given is one answer from
\* its beginning on, no part of which is ever replaced by another's, and never
\* more than the size of its file and a byte for every call that would block.
THEOREM AnswersOnlyExtend == Spec => [][AnswersExtend]_vars /\ []WithinSize
<1>1. Init => SizeInv
  <2>1. Init => WithinSize
    <3>1. NoResponse.body = 0 /\ NoResponse.size = 0 /\ NoResponse.over = 0
      BY DEF NoResponse
    <3>2. ASSUME Init, NEW c \in Client PROVE response[c].body <= response[c].size + response[c].over
      <4>1. response[c].body = 0 /\ response[c].size = 0 /\ response[c].over = 0
        BY <3>1, <3>2 DEF Init
      <4>2. QED
        BY <4>1
    <3>3. QED
      BY <3>2 DEF WithinSize
  <2>2. QED
    BY <2>1, InitEstablishesWebInv DEF SizeInv
<1>2. SizeInv => WithinSize
  BY DEF SizeInv
<1>3. QED
  BY <1>1, <1>2, NextExtends, PTL DEF Spec
=============================================================================
