------------------------------ MODULE Control ------------------------------
(***************************************************************************)
(* A command of the web server from its request to its answer              *)
(* (webserver.cpp: handleCommandRequest(), sendResult(); main.cpp:         *)
(* web_server_command_handler()), in the server's one task: the movements  *)
(* of mv are module Movement's, readings module Sensors', and the answer   *)
(* goes out through module SendTo.  Commands of the TCP server come in     *)
(* between, and its setters run at the same time (module Setters).         *)
(*                                                                         *)
(* A number that a command sets is abstracted to where it comes from: the  *)
(* command, by its number, and the place among that command's arguments.   *)
(* What a movement computes is not told apart from zero.  The command      *)
(* behavior is in module Behaviors.                                        *)
(***************************************************************************)
EXTENDS Movement, Sensors, SendTo, Setters

CONSTANTS
  Ways,          \* the arguments of mv: steps to turn, steps to drive
  Configs,       \* the texts of the sensors' configuration
  Failures,      \* the sets of transfers that may fail in a reading of each kind
  MaxCommands    \* bound: commands of both servers, of which the last is not mv

ASSUME WaysAssumption == Ways \subseteq [turn : Int, drive : Int]
ASSUME CommandsAssumption == MaxCommands \in Nat
ASSUME ConfigsAssumption == Configs \subseteq [dist : Seq(Int), light : Seq(Int), floor : Seq(Int)]

VARIABLES
  config,        \* the configuration of the sensors
  task,          \* where the web server is in its command
  req,           \* as decoded: number, command, count of arguments, way
  fargs, ways, readings,   \* rply: four numbers, what mv, what sensors has left there
  issued,        \* the commands so far
  moved          \* history: how mv has really moved the wheels, and if that is known

rply == <<fargs, ways, readings>>
vars == <<mvVars, config, task, req, rply, issued, moved, sendVars, setVars>>

WebCommand == {"stop", "mv", "speed", "pwm", "sensors", "unknown"}
NoWay      == [turn |-> 0, drive |-> 0]

\* The arguments of command number n, of which there are given.
Args(n, given) == [i \in 1 .. 4 |-> IF i <= given THEN <<n, i>> ELSE Zero]

Init ==
  /\ MvInit
  /\ config \in Configs
  /\ task = "idle"
  /\ req = [number |-> 0, cmd |-> "unknown", nfargs |-> 0, way |-> NoWay]
  /\ fargs = Zeros /\ ways = NoWay /\ readings = <<>>
  /\ SettersInit
  /\ issued = 0 /\ moved = [turn |-> 0, drive |-> 0, known |-> TRUE]
  /\ pending = Length /\ out = <<>> /\ result = "none" /\ retries = 0
  /\ room = Room /\ broken = FALSE

-----------------------------------------------------------------------------
(***************************************************************************)
(* The request.                                                            *)
(***************************************************************************)
ForgetMoves ==
  ways' = NoWay /\ readings' = <<>> /\ moved' = [turn |-> 0, drive |-> 0, known |-> TRUE]

\* Mutant: the reply is not cleared.
Decode_LeftOver(cmd, nfargs, way) ==
  /\ task = "idle" /\ issued < MaxCommands
  /\ issued' = issued + 1
  /\ req' = [number |-> issued + 1, cmd |-> cmd, nfargs |-> nfargs, way |-> way]
  /\ UNCHANGED fargs /\ ForgetMoves
  /\ task' = "handle"
  /\ UNCHANGED <<mvVars, config, sendVars, setVars>>

\* Request and reply are cleared, then the command and its arguments are decoded.
Decode(cmd, nfargs, way) ==
  /\ task = "idle" /\ issued < MaxCommands
  /\ issued' = issued + 1
  /\ req' = [number |-> issued + 1, cmd |-> cmd, nfargs |-> nfargs, way |-> way]
  /\ fargs' = Zeros /\ mixed' = [mixed EXCEPT !["reply"] = FALSE] /\ ForgetMoves
  /\ task' = "handle"
  /\ UNCHANGED <<mvVars, config, sendVars, told, call>>

\* Only speed and pwm count their arguments, and any count but two and four is to
\* them what none is.
Request ==
  \/ \E cmd \in {"stop", "sensors", "unknown"} : Decode(cmd, 0, NoWay)
  \/ \E cmd \in {"speed", "pwm"}, n \in {0, 2, 4} : Decode(cmd, n, NoWay)
  \/ issued + 1 < MaxCommands /\ \E way \in Ways : Decode("mv", 2, way)

(***************************************************************************)
(* The commands that do not wait.  speed and pwm take some numbers from    *)
(* the reply, and the one sets what the other is named for; then they read *)
(* back what they have set.                                                *)
(***************************************************************************)
Handling(cmd) ==
  /\ task = "handle" /\ req.cmd = cmd
  /\ task' = IF cmd \in {"speed", "pwm"} THEN "read" ELSE "result"
  /\ UNCHANGED <<mvVars, config, req, fargs, ways, issued, moved, sendVars>>

\* Two numbers are for left and right, and the wheels without one get zero; with
\* another count nothing is set.
Tell(what, four) ==
  IF req.nfargs \notin {2, 4} THEN UNCHANGED setVars
  ELSE Enter("web", "set", what,
             IF req.nfargs = 2 THEN <<<<req.number, 1>>, fargs[2], Zero, Zero>> ELSE four)

WebStop  == Handling("stop") /\ Enter("web", "set", "pwm", Zeros) /\ UNCHANGED readings
Unknown  == Handling("unknown") /\ UNCHANGED <<setVars, readings>>
SetPwm   == Handling("speed") /\ Tell("pwm", Args(req.number, 4)) /\ UNCHANGED readings
SetSpeed == Handling("pwm") /\ Tell("spd", fargs) /\ UNCHANGED readings

\* What the sensors command answers; failed is only for the properties.
Answered(texts, failed) ==
  [dist   |-> ReadAngled(DistAngles(texts), DistCount, failed),
   light  |-> ReadAngled(LightAngles(texts), LightCount, failed),
   floor  |-> ReadFloor(FloorOrder(texts), failed),
   failed |-> failed]

ReadSensors ==
  /\ Handling("sensors")
  /\ \E failed \in Failures : readings' = Answered(config, failed)
  /\ UNCHANGED setVars

ReadBack ==
  /\ task = "read"
  /\ Enter("web", "get", IF req.cmd = "speed" THEN "pwm" ELSE "spd", Zeros)
  /\ task' = "result"
  /\ UNCHANGED <<mvVars, config, req, rply, issued, moved, sendVars>>

\* A setter or a getter of the web server goes on.
WebCall ==
  /\ \/ Store("web") /\ UNCHANGED fargs
     \/ Fetch("web", fargs)
  /\ UNCHANGED <<mvVars, config, task, req, ways, readings, issued, moved, sendVars>>

(***************************************************************************)
(* mv: rotate(), then moveX().                                             *)
(***************************************************************************)
BeginMovement ==
  /\ \/ task = "handle" /\ req.cmd = "mv" /\ task' = "turn"
        /\ Begin("rotate", req.way.turn)
     \/ task = "straight" /\ task' = "drive" /\ Begin("moveX", req.way.drive)
  /\ Enter("web", "set", "pwm", Zeros)
  /\ UNCHANGED <<config, req, rply, issued, moved, sendVars>>

\* An iteration that goes on sets the wheels, and so does the stop() after the loop.
Move ==
  /\ task \in {"turn", "drive"} /\ Go
  /\ IF phase = "brake" \/ phase' = "drive" THEN Enter("web", "set", "pwm", Zeros)
     ELSE UNCHANGED setVars
  /\ UNCHANGED <<config, task, req, rply, issued, moved, sendVars>>

\* Mutant: the results of the two movements are stored the wrong way round.
EndMovement_Swapped ==
  /\ task \in {"turn", "drive"} /\ Return
  /\ ways' = IF task = "turn" THEN [ways EXCEPT !.drive = reported]
             ELSE [ways EXCEPT !.turn = reported]
  /\ moved' = [moved EXCEPT ![task] = Sum(Minus(count, origin), Direction[kind]),
                            !.known = @ /\ Trusted]
  /\ task' = IF task = "turn" THEN "straight" ELSE "result"
  /\ UNCHANGED <<config, req, fargs, readings, issued, sendVars, setVars>>

EndMovement ==
  /\ task \in {"turn", "drive"} /\ Return
  /\ ways' = [ways EXCEPT ![task] = reported]
  /\ moved' = [moved EXCEPT ![task] = Sum(Minus(count, origin), Direction[kind]),
                            !.known = @ /\ Trusted]
  /\ task' = IF task = "turn" THEN "straight" ELSE "result"
  /\ UNCHANGED <<config, req, fargs, readings, issued, sendVars, setVars>>

(***************************************************************************)
(* The answer: sendTo() on a socket with whatever room its buffer has.     *)
(***************************************************************************)
NewAnswer(free) ==
  /\ pending' = Length /\ out' = <<>> /\ result' = "none" /\ retries' = 0
  /\ room' = free /\ broken' = FALSE

SendResult ==
  /\ task = "result" /\ task' = "send"
  /\ \E free \in 0 .. Room : NewAnswer(free)
  /\ UNCHANGED <<mvVars, config, req, rply, issued, moved, setVars>>

Send ==
  /\ task = "send" /\ SendNext
  /\ UNCHANGED <<mvVars, config, task, req, rply, issued, moved, setVars>>

\* The connection is closed; the stack keeps what it keeps of the reply.
HangUp ==
  /\ task = "send" /\ result # "none" /\ task' = "idle"
  /\ NewAnswer(Room) /\ ForgetMoves
  /\ UNCHANGED <<mvVars, config, req, fargs, issued, setVars>>

(***************************************************************************)
(* The TCP server's commands.                                              *)
(***************************************************************************)
OtherCommand ==
  /\ issued < MaxCommands /\ issued' = issued + 1
  /\ UNCHANGED <<config, task, req, rply, moved, sendVars>>

OtherStop ==
  /\ OtherCommand
  /\ Aborted \/ (phase # "drive" /\ UNCHANGED mvVars)
  /\ Enter("tcp", "set", "pwm", Zeros)

OtherSet ==
  /\ OtherCommand
  /\ \E what \in Numbers, given \in {2, 4} :
       Enter("tcp", "set", what, Args(issued + 1, given))
  /\ UNCHANGED mvVars

OtherCall ==
  /\ Store("tcp")
  /\ UNCHANGED <<mvVars, config, task, req, rply, issued, moved, sendVars>>

\* While the web server's task is in a setter or a getter it does nothing else.
WebTask ==
  \/ WebCall
  \/ /\ Quiet("web")
     /\ \/ Request \/ WebStop \/ Unknown \/ SetPwm \/ SetSpeed \/ ReadBack
        \/ ReadSensors \/ BeginMovement \/ Move \/ EndMovement
        \/ SendResult \/ Send \/ HangUp

Next == WebTask \/ OtherStop \/ OtherSet \/ OtherCall

Spec == Init /\ [][Next]_vars

-----------------------------------------------------------------------------
(***************************************************************************)
(* Properties.                                                             *)
(***************************************************************************)

\* The variables have their types, those of the movement and the answer too, and a
\* movement goes on exactly while mv waits for one.
TypeOK ==
  /\ MvTypeOK
  /\ task \in {"idle", "handle", "read", "turn", "straight", "drive", "result", "send"}
  /\ req \in [number : 0 .. MaxCommands, cmd : WebCommand, nfargs : 0 .. 4,
               way : [turn : Int, drive : Int]]
  /\ ways \in [turn : Int, drive : Int]
  /\ moved \in [turn : Int, drive : Int, known : BOOLEAN]
  /\ issued \in 0 .. MaxCommands
  /\ task \in {"turn", "drive"} <=> phase # "idle"
  /\ SendTypeOK
  /\ SettersTypeOK

\* Four numbers that come from one command, each in its place, or are zero.
OneCommands(f) ==
  \E n \in 0 .. MaxCommands : \A i \in 1 .. 4 : f[i] \in {Zero, <<n, i>>}

\* What the base keeps, when no setter is under way, and what speed and pwm answer
\* are numbers of one command, although these take numbers from the reply instead
\* of the request: it holds nothing of an earlier command.  The exception is the
\* lack of a lock: two calls of the two servers that met may leave, and answer,
\* numbers of two commands, until a setter has run by itself.
NumbersOfOneCommand ==
  /\ \A what \in Numbers :
       ~mixed[what] /\ ~(\E s \in Server : Setting(s, what)) => OneCommands(told[what])
  /\ ~mixed["reply"] /\ call["web"].does # "get" => OneCommands(fargs)

\* What mv answers is how far the base has turned in the rotation and driven in
\* the translation, whatever other commands have cut short and however far the
\* wheels run on, unless a reading has failed or wrapped.
AnswerTellsMotion ==
  task \in {"result", "send"} /\ req.cmd = "mv" /\ moved.known
    => /\ Abs(ways.turn - moved.turn) <= 8 * Blur
       /\ Abs(ways.drive - moved.drive) <= 4 * Blur

\* The sensors that the text gives an angle, of max.
Given(text, max) == {i \in 0 .. max - 1 : i < Len(text) /\ text[i + 1] >= 0}

\* The first sensor that the text gives an angle is in the first tuple, the next
\* in the second, each with that angle and its own value, if it has answered; the
\* tuples after the last one's are empty.
Lists(reading, text, lostOnes) ==
  LET given == Given(text, Len(reading))
  IN /\ \A i \in given :
          reading[Cardinality({j \in given : j <= i})]
            = [angle |-> text[i + 1], value |-> IF i \in lostOnes THEN None ELSE i]
     /\ \A n \in DOMAIN reading :
          n > Cardinality(given) => reading[n] = [angle |-> None, value |-> None]

\* A reading holds the sensors that the configuration gives an angle and no
\* others, each with its own value, however short the text is; a place on the
\* floor for which the text names one sensor shows that sensor.
ReadingsAreTheConfigureds ==
  readings # <<>> =>
    /\ Lists(readings.dist, config.dist, readings.failed)
    /\ Lists(readings.light, config.light, readings.failed)
    /\ \A i \in 1 .. 4 \cap DOMAIN config.floor :
         config.floor[i] \in 0 .. 3
         /\ (\A j \in DOMAIN config.floor : j # i => config.floor[j] # config.floor[i])
           => readings.floor[config.floor[i]] =
                IF i - 1 \in readings.failed THEN None ELSE i - 1
=============================================================================
