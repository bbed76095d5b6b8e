---------------------------- MODULE RequestReply ----------------------------
(***************************************************************************)
(* What a server of requests promises its clients, whatever carries the    *)
(* requests to it: each is answered once or not at all, in the order in    *)
(* which its client has asked, and with the command it asks for.  Requests *)
(* may be passed over, but not come back to.  A client may be misheard:    *)
(* it still gets its own replies only, in order, but they may be to what   *)
(* it has never asked for.                                                 *)
(*                                                                         *)
(* Module TcpServer implements this; what messages and replies are made of *)
(* is left to it.                                                          *)
(***************************************************************************)
EXTENDS Naturals, Sequences

CONSTANTS
  Client,
  Command,      \* what a message can ask for
  NoCommand,    \* what a message asks for that is no request
  Unclear       \* what a message asks for that leaves off in the middle

VARIABLES
  asked,        \* what the messages of each client ask for, in order
  answered,     \* the answers each client has got, in order
  misheard      \* the clients of whom a message has been taken in parts

vars == <<asked, answered, misheard>>

Init ==
  /\ asked = [c \in Client |-> <<>>]
  /\ answered = [c \in Client |-> <<>>]
  /\ misheard = {}

Ask(c) ==
  /\ \E cmd \in Command \cup {NoCommand, Unclear} :
       asked' = [asked EXCEPT ![c] = Append(@, cmd)]
  /\ UNCHANGED <<answered, misheard>>

Reply(c, k, cmd) ==
  /\ answered' = [answered EXCEPT ![c] = Append(@, [request |-> k, cmd |-> cmd])]
  /\ UNCHANGED <<asked, misheard>>

\* Message k is answered, which is a request and newer than any that has been.
Answer(c) ==
  \E k \in DOMAIN asked[c], cmd \in Command :
    /\ asked[c][k] \in {cmd, Unclear}
    /\ \A i \in DOMAIN answered[c] : answered[c][i].request < k
    /\ Reply(c, k, cmd)

Mishear(c) ==
  /\ misheard' = misheard \cup {c}
  /\ UNCHANGED <<asked, answered>>

\* Something in message k is answered, or in those that follow.
AnswerMisheard(c) ==
  \E k \in DOMAIN asked[c], cmd \in Command :
    /\ c \in misheard
    /\ \A i \in DOMAIN answered[c] : answered[c][i].request <= k
    /\ Reply(c, k, cmd)

Next ==
  \E c \in Client : Ask(c) \/ Answer(c) \/ Mishear(c) \/ AnswerMisheard(c)

Spec == Init /\ [][Next]_vars
=============================================================================
