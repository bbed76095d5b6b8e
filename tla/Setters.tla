------------------------------ MODULE Setters ------------------------------
(***************************************************************************)
(* The numbers that the base keeps of what it was told (minibot/base.cpp:  *)
(* setPwm(), setSpeed(), getPwm(), getSpeed()), set and read by the tasks  *)
(* of the two servers, which share them without a lock: one field after    *)
(* the other, left, right, front, back.  What a setter then sends to the   *)
(* driver is module Base's subject.                                        *)
(***************************************************************************)
EXTENDS Naturals

VARIABLES
  told,     \* the fields: four numbers for "pwm", four for "spd"
  call,     \* what each server is at: a setter, a getter, or neither
  mixed     \* history: numbers left by calls that have met

setVars == <<told, call, mixed>>

Server  == {"web", "tcp"}
Peer    == [web |-> "tcp", tcp |-> "web"]
Numbers == {"pwm", "spd"}

Zero   == <<0, 0>>
Zeros  == [i \in 1 .. 4 |-> Zero]
NoCall == [does |-> "none", what |-> "pwm", numbers |-> Zeros, at |-> 1, alone |-> TRUE]

SettersInit ==
  /\ told = [what \in Numbers |-> Zeros]
  /\ call = [s \in Server |-> NoCall]
  /\ mixed = [what \in Numbers \cup {"reply"} |-> FALSE]

Quiet(s) == call[s].does = "none"

\* Server s is at these numbers, as a setter if they are to be changed.
Setting(s, what) == call[s].does = "set" /\ call[s].what = what
Getting(s, what) == call[s].does = "get" /\ call[s].what = what

\* Server s calls a setter or a getter.  Two calls meet if they are at the same
\* numbers and one of them is a setter.
Enter(s, does, what, numbers) ==
  LET meets == \/ Setting(Peer[s], what)
               \/ Getting(Peer[s], what) /\ does = "set"
  IN /\ Quiet(s)
     /\ call' = [call EXCEPT
          ![s] = [does |-> does, what |-> what, numbers |-> numbers, at |-> 1,
                  alone |-> ~meets],
          ![Peer[s]].alone = @ /\ ~meets]
     /\ UNCHANGED <<told, mixed>>

\* The call goes on to the next field, or returns.
Advance(s) ==
  call' = IF call[s].at = 4 THEN [call EXCEPT ![s] = NoCall]
          ELSE [call EXCEPT ![s].at = @ + 1]

\* One field is stored.
Store(s) ==
  LET c == call[s]
  IN /\ c.does = "set"
     /\ told' = [told EXCEPT ![c.what] = [@ EXCEPT ![c.at] = c.numbers[c.at]]]
     /\ mixed' = IF c.at = 4 THEN [mixed EXCEPT ![c.what] = ~c.alone] ELSE mixed
     /\ Advance(s)

\* One field is read into the reply.
Fetch(s, reply) ==
  LET c == call[s]
  IN /\ c.does = "get"
     /\ reply' = [reply EXCEPT ![c.at] = told[c.what][c.at]]
     /\ mixed' = IF c.at = 4
                   THEN [mixed EXCEPT !["reply"] = ~c.alone \/ mixed[c.what]]
                   ELSE mixed
     /\ Advance(s)
     /\ UNCHANGED told

\* The variables have their types.
SettersTypeOK ==
  /\ DOMAIN told = Numbers /\ \A what \in Numbers : DOMAIN told[what] = 1 .. 4
  /\ DOMAIN call = Server
  /\ \A s \in Server :
       /\ DOMAIN call[s] = {"does", "what", "numbers", "at", "alone"}
       /\ call[s].does \in {"none", "set", "get"} /\ call[s].what \in Numbers
       /\ DOMAIN call[s].numbers = 1 .. 4 /\ call[s].at \in 1 .. 4
       /\ call[s].alone \in BOOLEAN
  /\ mixed \in [Numbers \cup {"reply"} -> BOOLEAN]
=============================================================================
