-------------------------------- MODULE Base --------------------------------
(***************************************************************************)
(* The mobile base (components/minibot/base.cpp) under the three tasks that*)
(* command it without a lock: the TCP server, the web server and main, in  *)
(* which the behaviours run.  A task runs one command at a time:           *)
(*   "stop"   stop(): raise abortMove, all motors off                      *)
(*   "set"    setPwm(): leave the motors running as told                   *)
(*   "mv"     rotate(), then moveX(): each stops the base, drives it in a  *)
(*            loop that abortMove ends, stops it and waits for it to stand *)
(*                                                                         *)
(* setPwm() stores its arguments in the object's fields one wheel at a     *)
(* time, computes the message for the driver from the fields, and writes   *)
(* the message to the bus.  The fields are neither locked nor volatile, so *)
(* the value a wheel's message is computed from is the task's own or the   *)
(* field's, which another task may have overwritten.                       *)
(*                                                                         *)
(* What a wheel is told is abstracted to on whose behalf it turns: Off,    *)
(* Held (a SetPWM command, which nobody is expected to end), or the task   *)
(* whose movement turns it.                                                *)
(***************************************************************************)
EXTENDS Naturals, FiniteSets

CONSTANTS
  Task,          \* the tasks that command the base
  Side, Front,   \* the wheels moveX() drives, and the others
  Off, Held,
  Commands,      \* the commands the tasks give, among "stop", "set", "mv"
  Rereads,       \* TRUE: the build may use the fields, not the arguments
  BusFails,      \* TRUE: a write to the bus may fail
  MaxTicks,      \* bound: iterations of a movement's loop
  MaxCommands    \* bound: commands ever given

ASSUME ValuesAssumption == Off # Held /\ Off \notin Task /\ Held \notin Task
ASSUME SwitchAssumption == Rereads \in BOOLEAN /\ BusFails \in BOOLEAN
ASSUME BoundAssumption  == MaxTicks \in Nat /\ MaxCommands \in Nat
ASSUME CommandsAssumption == Commands \subseteq {"stop", "set", "mv"}

VARIABLES
  pwm,         \* the fields pwml, pwmr, pwmf, pwmb
  abortMove,
  motor,       \* what the driver was last told
  pc,          \* where each task is
  activity,    \* "none", "stop", "set", "rotate" or "moveX"
  part,        \* of a movement: "before", "drive" or "after"
  k,           \* iterations of the movement's loop
  arg,         \* the arguments of the setPwm() under way
  todo,        \* the fields it has not stored yet
  buff,        \* its message to the driver
  commands,    \* used up of MaxCommands
  mishap,      \* history: "bus", a write failed; "race", a field was another's
  cancelled    \* history: tasks whose rotation a STOP command has been given to end

callVars == <<arg, todo, buff>>
progVars == <<activity, part, k, commands, cancelled>>
vars == <<pwm, abortMove, motor, pc, callVars, progVars, mishap>>

Wheel    == Side \cup Front
Value    == Task \cup {Off, Held}
AllOff   == [w \in Wheel |-> Off]
Movement == {"rotate", "moveX"}

InMovement(t) == activity[t] \in Movement
Rotating(t)   == /\ activity[t] = "rotate" /\ part[t] = "drive"
                 /\ \E w \in Wheel : motor[w] = t
AtRest        == motor = AllOff

Init ==
  /\ pwm = AllOff
  /\ abortMove = TRUE
  /\ motor = AllOff
  /\ pc = [t \in Task |-> "idle"]
  /\ activity = [t \in Task |-> "none"]
  /\ part = [t \in Task |-> "before"]
  /\ k = [t \in Task |-> 0]
  /\ arg = [t \in Task |-> AllOff]
  /\ todo = [t \in Task |-> {}]
  /\ buff = [t \in Task |-> AllOff]
  /\ commands = 0
  /\ mishap = {}
  /\ cancelled = {}

Goto(t, l) == pc' = [pc EXCEPT ![t] = l]

\* Task t calls setPwm(v).
Call(t, v) ==
  /\ Goto(t, "store")
  /\ arg' = [arg EXCEPT ![t] = v]
  /\ todo' = [todo EXCEPT ![t] = Wheel]
  /\ UNCHANGED buff

(***************************************************************************)
(* Commands.                                                               *)
(***************************************************************************)
Begin(t, a) ==
  /\ pc[t] = "idle" /\ commands < MaxCommands
  /\ commands' = commands + 1
  /\ activity' = [activity EXCEPT ![t] = a]
  /\ part' = [part EXCEPT ![t] = "before"]

\* A STOP command is given while the movements of other tasks go on.
BeginStop(t) ==
  /\ "stop" \in Commands
  /\ Begin(t, "stop")
  /\ Goto(t, "abort")
  /\ UNCHANGED <<pwm, abortMove, motor, k, callVars, mishap, cancelled>>

BeginSet(t) ==
  /\ "set" \in Commands
  /\ Begin(t, "set")
  /\ \E v \in {[w \in Wheel |-> Held],
               [w \in Wheel |-> IF w \in Side THEN Held ELSE Off], AllOff} :
       Call(t, v)
  /\ UNCHANGED <<pwm, abortMove, motor, k, mishap, cancelled>>

BeginMv(t) ==
  /\ "mv" \in Commands
  /\ Begin(t, "rotate")
  /\ Goto(t, "abort")
  /\ cancelled' = cancelled \ {t}
  /\ UNCHANGED <<pwm, abortMove, motor, k, callVars, mishap>>

(***************************************************************************)
(* stop(): abortMove, then setPwm(0, 0, 0, 0).  Besides the STOP command,  *)
(* every movement begins and ends with it.                                 *)
(***************************************************************************)
\* Mutant: only the side wheels are turned off, the others stay as they are.
Abort_SideOnly(t) ==
  /\ pc[t] = "abort"
  /\ abortMove' = TRUE
  /\ Call(t, [w \in Wheel |-> IF w \in Side THEN Off ELSE pwm[w]])
  /\ UNCHANGED <<pwm, motor, activity, part, k, commands, cancelled, mishap>>

Abort(t) ==
  /\ pc[t] = "abort"
  /\ abortMove' = TRUE
  /\ Call(t, AllOff)
  /\ UNCHANGED <<pwm, motor, activity, part, k, commands, cancelled, mishap>>

(***************************************************************************)
(* setPwm(): the fields, the message, the write.                           *)
(***************************************************************************)
Store(t) ==
  /\ pc[t] = "store"
  /\ \E w \in todo[t] :
       /\ pwm' = [pwm EXCEPT ![w] = arg[t][w]]
       /\ todo' = [todo EXCEPT ![t] = @ \ {w}]
       /\ IF todo[t] = {w} THEN Goto(t, "latch") ELSE UNCHANGED pc
  /\ UNCHANGED <<abortMove, motor, arg, buff, progVars, mishap>>

Latch(t) ==
  /\ pc[t] = "latch"
  /\ \E reread \in IF Rereads THEN SUBSET Wheel ELSE {{}} :
       /\ buff' = [buff EXCEPT ![t] =
                     [w \in Wheel |-> IF w \in reread THEN pwm[w] ELSE arg[t][w]]]
       /\ mishap' = IF \E w \in reread : pwm[w] # arg[t][w]
                      THEN mishap \cup {"race"} ELSE mishap
  /\ Goto(t, "transmit")
  /\ UNCHANGED <<pwm, abortMove, motor, arg, todo, progVars>>

\* Where setPwm() returns to: a movement goes on to its next part.
Return(t) ==
  \/ /\ ~InMovement(t)
     /\ Goto(t, "idle")
     /\ activity' = [activity EXCEPT ![t] = "none"]
     /\ UNCHANGED <<part, k>>
  \/ /\ InMovement(t) /\ part[t] = "before"
     /\ Goto(t, "clear")
     /\ UNCHANGED <<activity, part, k>>
  \/ /\ InMovement(t) /\ part[t] = "drive"
     /\ Goto(t, "loop")
     /\ k' = [k EXCEPT ![t] = @ + 1]
     /\ UNCHANGED <<activity, part>>
  \/ /\ InMovement(t) /\ part[t] = "after"
     /\ Goto(t, "wait")
     /\ UNCHANGED <<activity, part, k>>

\* The write to the driver; stop() and the movements ignore its result.  With that
\* of a STOP command the rotations it has found under way are over.
Transmit(t) ==
  /\ pc[t] = "transmit"
  /\ \/ motor' = buff[t] /\ UNCHANGED mishap
     \/ BusFails /\ mishap' = mishap \cup {"bus"} /\ UNCHANGED motor
  /\ cancelled' = IF activity[t] = "stop" /\ abortMove
                    THEN cancelled \cup {u \in Task : Rotating(u)}
                    ELSE cancelled
  /\ Return(t)
  /\ UNCHANGED <<pwm, abortMove, callVars, commands>>

(***************************************************************************)
(* rotate() and moveX().                                                   *)
(***************************************************************************)
\* The first stop() is over: abortMove = false, whoever raised it.
Clear(t) ==
  /\ pc[t] = "clear"
  /\ abortMove' = FALSE
  /\ part' = [part EXCEPT ![t] = "drive"]
  /\ k' = [k EXCEPT ![t] = 0]
  /\ Goto(t, "loop")
  /\ UNCHANGED <<pwm, motor, callVars, activity, commands, cancelled, mishap>>

\* What a movement tells the wheels: moveX() leaves the front ones off.
Turning(t) == [w \in Wheel |-> IF activity[t] = "rotate" \/ w \in Side THEN t ELSE Off]

\* Mutant: the time limit is left out.
Drive_Unbounded(t) ==
  /\ pc[t] = "loop"
  /\ ~abortMove
  /\ Call(t, Turning(t))
  /\ UNCHANGED <<pwm, abortMove, motor, progVars, mishap>>

\* An iteration: the target is not reached, the wheels are told to turn.
Drive(t) ==
  /\ pc[t] = "loop"
  /\ k[t] < MaxTicks /\ ~abortMove
  /\ Call(t, Turning(t))
  /\ UNCHANGED <<pwm, abortMove, motor, progVars, mishap>>

\* Mutant: the loop is left without the stop() that follows it.
EndDrive_NoStop(t) ==
  /\ pc[t] = "loop"
  /\ part' = [part EXCEPT ![t] = "after"]
  /\ Goto(t, "wait")
  /\ UNCHANGED <<pwm, abortMove, motor, callVars, activity, k, commands,
                 cancelled, mishap>>

\* The loop ends: out of time, aborted, or close enough to the target.
EndDrive(t) ==
  /\ pc[t] = "loop"
  /\ part' = [part EXCEPT ![t] = "after"]
  /\ Goto(t, "abort")
  /\ UNCHANGED <<pwm, abortMove, motor, callVars, activity, k, commands,
                 cancelled, mishap>>

\* waitStop() has read zero from the encoders: rotate() is followed by
\* moveX(), and moveX() ends the command.
Proceed(t) ==
  /\ pc[t] = "wait"
  /\ IF activity[t] = "rotate"
       THEN /\ activity' = [activity EXCEPT ![t] = "moveX"]
            /\ part' = [part EXCEPT ![t] = "before"]
            /\ Goto(t, "abort")
       ELSE /\ activity' = [activity EXCEPT ![t] = "none"]
            /\ Goto(t, "idle")
            /\ UNCHANGED part
  /\ UNCHANGED <<pwm, abortMove, motor, callVars, k, commands, cancelled, mishap>>

\* The base stands still.
WaitStop(t) == AtRest /\ Proceed(t)

\* The base turns and zero is read all the same: the average of the wheels
\* cancels out, or the encoders could not be read.
WaitFooled(t) == ~AtRest /\ Proceed(t)

-----------------------------------------------------------------------------
\* What a task does by itself once it has been given a command.
Step(t) ==
  \/ Abort(t) \/ Store(t) \/ Latch(t) \/ Transmit(t)
  \/ Clear(t) \/ Drive(t) \/ EndDrive(t) \/ WaitStop(t)

Next ==
  \E t \in Task :
    \/ BeginStop(t) \/ BeginSet(t) \/ BeginMv(t)
    \/ Step(t) \/ WaitFooled(t)

Spec == Init /\ [][Next]_vars

\* Each task is scheduled; nothing is assumed of the commands given, and the
\* encoders are not assumed to deceive waitStop().
FairSpec == Spec /\ \A t \in Task : WF_vars(Step(t))

-----------------------------------------------------------------------------
(***************************************************************************)
(* Properties.                                                             *)
(***************************************************************************)

\* The variables have their types; a movement's loop keeps to its limit.
TypeOK ==
  /\ pwm \in [Wheel -> Value]
  /\ abortMove \in BOOLEAN
  /\ motor \in [Wheel -> Value]
  /\ pc \in [Task -> {"idle", "abort", "store", "latch", "transmit",
                      "clear", "loop", "wait"}]
  /\ activity \in [Task -> {"none", "stop", "set"} \cup Movement]
  /\ part \in [Task -> {"before", "drive", "after"}]
  /\ k \in [Task -> 0 .. MaxTicks]
  /\ arg \in [Task -> [Wheel -> Value]]
  /\ todo \in [Task -> SUBSET Wheel]
  /\ buff \in [Task -> [Wheel -> Value]]
  /\ commands \in 0 .. MaxCommands
  /\ mishap \subseteq {"bus", "race"}
  /\ cancelled \subseteq Task

\* The movement of t has been driving the base and its last stop() has not
\* been written yet.
Driving(t) ==
  InMovement(t) /\ (part[t] = "drive" \/ (part[t] = "after" /\ pc[t] # "wait"))

\* A wheel turns on behalf of a movement only until the stop() at the end of
\* that movement has been written, whatever the other tasks command, unless a
\* write has failed or a field was overwritten while in use.
NoRunaway ==
  mishap = {} => \A w \in Wheel, t \in Task : motor[w] = t => Driving(t)

\* Several tasks at the base are so many movers: what drives the base of each
\* movement is in force from the end of its first stop() to that of its last.
MotionOfBase == INSTANCE Motion WITH
  Mover <- Task, Wheels <- Wheel, Still <- Off, Kept <- Held,
  wheels <- motor, inForce <- {t \in Task : Driving(t)}, faulty <- mishap # {}

\* The base keeps the promises of Motion to any number of tasks: a movement's
\* last stop() leaves nothing turning, not even for others, and no message
\* turns a wheel for a task whose movement is not in force.
ImplementsMotion == MotionOfBase!Spec


\* STOP "cancels the execution of an mv command and stops the motors": an mv whose
\* rotation turned the base when a STOP command was carried out, abortMove raised and
\* the motors off, turns no wheel in its second half.
StopCancelsMv ==
  [][\A t \in cancelled : activity[t] = "moveX"
       => \A w \in Wheel : motor'[w] = t => motor[w] = t]_vars
=============================================================================
