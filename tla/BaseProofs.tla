----------------------------- MODULE BaseProofs -----------------------------
(***************************************************************************)
(* NoRunaway for any number of tasks and wheels, any build and any bus.    *)
(*                                                                         *)
(* The invariant says whose drive each task can be about to write: while   *)
(* setPwm() runs, its arguments are Off, Held or the task itself, and the  *)
(* task itself only in the driving part of its own movement.  A message is *)
(* made of the arguments unless there was a race, so only the task itself  *)
(* can turn a wheel on its behalf, and its last stop() ends that.          *)
(***************************************************************************)
EXTENDS Base, TLAPS

USE ValuesAssumption, SwitchAssumption, BoundAssumption, CommandsAssumption

\* A setPwm() is under way.
Calling(t) == pc[t] \in {"store", "latch", "transmit"}

\* Where the tasks are agrees with what they are doing.
Control(t) ==
  /\ pc[t] = "idle" => ~InMovement(t)
  /\ pc[t] = "clear" => InMovement(t) /\ part[t] = "before"
  /\ pc[t] = "loop" => InMovement(t) /\ part[t] = "drive"
  /\ pc[t] = "wait" => InMovement(t) /\ part[t] = "after"
  /\ pc[t] = "abort" => part[t] # "drive"
  /\ Calling(t) /\ InMovement(t) /\ part[t] = "drive" => k[t] < MaxTicks

OwnArguments(t) ==
  /\ Calling(t) => \A w \in Wheel : arg[t][w] \in {Off, Held, t}
  /\ Calling(t) => \A w \in Wheel :
       arg[t][w] = t => InMovement(t) /\ part[t] = "drive"
  /\ Calling(t) /\ InMovement(t) /\ part[t] # "drive" => arg[t] = AllOff

OwnMessage(t) == mishap = {} /\ pc[t] = "transmit" => buff[t] = arg[t]

BaseInv ==
  /\ TypeOK
  /\ \A t \in Task : Control(t) /\ OwnArguments(t) /\ OwnMessage(t)
  /\ NoRunaway

LEMMA InitEstablishesBaseInv == Init => BaseInv
<1>1. SUFFICES ASSUME Init PROVE BaseInv
  OBVIOUS
<1>2. AllOff \in [Wheel -> Value]
  BY DEF AllOff, Value
<1>3. TypeOK
  BY <1>1, <1>2 DEF Init, TypeOK
<1>4. QED
  BY <1>1, <1>3 DEF Init, BaseInv, Control, OwnArguments, OwnMessage,
     NoRunaway, Calling, InMovement, Movement, AllOff

-----------------------------------------------------------------------------
(***************************************************************************)
(* Types.                                                                  *)
(***************************************************************************)

\* A call of setPwm() with arguments of the right type.
LEMMA CallTypes ==
  ASSUME TypeOK, NEW t \in Task, NEW v \in [Wheel -> Value], Call(t, v)
  PROVE  /\ pc' \in [Task -> {"idle", "abort", "store", "latch", "transmit",
                              "clear", "loop", "wait"}]
         /\ arg' \in [Task -> [Wheel -> Value]]
         /\ todo' \in [Task -> SUBSET Wheel]
         /\ buff' \in [Task -> [Wheel -> Value]]
BY DEF TypeOK, Call, Goto

LEMMA BeginTypes ==
  ASSUME TypeOK, NEW t \in Task, NEW a \in {"stop", "set", "rotate"}, Begin(t, a)
  PROVE  /\ activity' \in [Task -> {"none", "stop", "set"} \cup Movement]
         /\ part' \in [Task -> {"before", "drive", "after"}]
         /\ commands' \in 0 .. MaxCommands
BY DEF TypeOK, Begin, Movement

LEMMA TypeStep ==
  ASSUME TypeOK, NEW t \in Task, Control(t),
         BeginStop(t) \/ BeginSet(t) \/ BeginMv(t) \/ Step(t) \/ WaitFooled(t)
  PROVE  TypeOK'
<1>0. AllOff \in [Wheel -> Value]
  BY DEF AllOff, Value
<1>1. CASE BeginStop(t)
  BY <1>1, BeginTypes DEF BeginStop, Goto, TypeOK, callVars
<1>2. CASE BeginSet(t)
  <2>1. PICK v \in {[w \in Wheel |-> Held],
                    [w \in Wheel |-> IF w \in Side THEN Held ELSE Off], AllOff} :
          Call(t, v)
    BY <1>2 DEF BeginSet
  <2>2. v \in [Wheel -> Value]
    BY <1>0 DEF Value
  <2>3. QED
    BY <1>2, <2>1, <2>2, BeginTypes, CallTypes DEF BeginSet, TypeOK
<1>3. CASE BeginMv(t)
  BY <1>3, BeginTypes DEF BeginMv, Goto, TypeOK, callVars
<1>4. CASE Abort(t)
  BY <1>0, <1>4, CallTypes DEF Abort, TypeOK
<1>5. CASE Store(t)
  BY <1>5 DEF Store, Goto, TypeOK, progVars
<1>6. CASE Latch(t)
  <2>1. PICK reread \in SUBSET Wheel :
          /\ buff' = [buff EXCEPT ![t] =
                        [w \in Wheel |-> IF w \in reread THEN pwm[w] ELSE arg[t][w]]]
          /\ mishap' = IF \E w \in reread : pwm[w] # arg[t][w]
                         THEN mishap \cup {"race"} ELSE mishap
    BY <1>6 DEF Latch
  <2>2. [w \in Wheel |-> IF w \in reread THEN pwm[w] ELSE arg[t][w]]
          \in [Wheel -> Value]
    BY DEF TypeOK
  <2>3. QED
    BY <1>6, <2>1, <2>2 DEF Latch, Goto, TypeOK, progVars
<1>7. CASE Transmit(t)
  <2>1. motor' \in [Wheel -> Value] /\ mishap' \subseteq {"bus", "race"}
    <3>1. \/ motor' = buff[t] /\ mishap' = mishap
          \/ motor' = motor /\ mishap' = mishap \cup {"bus"}
      BY <1>7 DEF Transmit
    <3>2. motor' \in [Wheel -> Value]
      BY <3>1 DEF TypeOK
    <3>3. mishap' \subseteq {"bus", "race"}
      BY <3>1 DEF TypeOK
    <3>4. QED
      BY <3>2, <3>3
  <2>2. k' \in [Task -> 0 .. MaxTicks]
    <3>1. CASE UNCHANGED k
      BY <3>1 DEF TypeOK
    <3>2. CASE ~UNCHANGED k
      <4>1. /\ k' = [k EXCEPT ![t] = k[t] + 1]
            /\ k[t] < MaxTicks
        BY <1>7, <3>2 DEF Transmit, Return, Control, Calling
      <4>2. QED
        BY <4>1 DEF TypeOK
    <3>3. QED
      BY <3>1, <3>2
  <2>3. /\ pc' \in [Task -> {"idle", "abort", "store", "latch", "transmit",
                             "clear", "loop", "wait"}]
        /\ activity' \in [Task -> {"none", "stop", "set"} \cup Movement]
        /\ part' \in [Task -> {"before", "drive", "after"}]
    BY <1>7 DEF Transmit, Return, Goto, TypeOK
  <2>4. QED
    BY <1>7, <2>1, <2>2, <2>3 DEF Transmit, TypeOK, callVars
<1>8. CASE Clear(t)
  <2>1. abortMove' \in BOOLEAN
    BY <1>8 DEF Clear
  <2>2. QED
    BY <1>8, <2>1 DEF Clear, Goto, TypeOK, callVars
<1>9. CASE Drive(t)
  <2>1. Turning(t) \in [Wheel -> Value]
    BY DEF Turning, Value
  <2>2. QED
    BY <1>9, <2>1, CallTypes DEF Drive, TypeOK, progVars
<1>10. CASE EndDrive(t)
  BY <1>10 DEF EndDrive, Goto, TypeOK, callVars
<1>11. CASE Proceed(t)
  BY <1>11 DEF Proceed, Goto, TypeOK, callVars, Movement
<1>12. QED
  BY <1>1, <1>2, <1>3, <1>4, <1>5, <1>6, <1>7, <1>8, <1>9, <1>10, <1>11
     DEF Step, WaitStop, WaitFooled

-----------------------------------------------------------------------------
(***************************************************************************)
(* A step of one task.                                                     *)
(***************************************************************************)

\* What the invariant says of task u depends on nothing but these.
SameFor(u) ==
  /\ pc'[u] = pc[u] /\ activity'[u] = activity[u] /\ part'[u] = part[u]
  /\ k'[u] = k[u] /\ arg'[u] = arg[u] /\ buff'[u] = buff[u]

\* A step of task t concerns no other task, and no mishap is forgotten.
LEMMA Locality ==
  ASSUME TypeOK, NEW t \in Task,
         BeginStop(t) \/ BeginSet(t) \/ BeginMv(t) \/ Step(t) \/ WaitFooled(t)
  PROVE  /\ mishap \subseteq mishap'
         /\ \A u \in Task \ {t} : SameFor(u)
<1>1. CASE BeginStop(t) \/ BeginSet(t) \/ BeginMv(t)
  BY <1>1 DEF BeginStop, BeginSet, BeginMv, Begin, Call, Goto, callVars,
              SameFor, TypeOK
<1>2. CASE Abort(t) \/ Store(t)
  BY <1>2 DEF Abort, Store, Call, Goto, progVars, SameFor, TypeOK
<1>3. CASE Latch(t)
  BY <1>3 DEF Latch, Goto, progVars, SameFor, TypeOK
<1>4. CASE Transmit(t)
  <2>1. mishap \subseteq mishap'
    BY <1>4 DEF Transmit
  <2>2. \A u \in Task \ {t} : SameFor(u)
    BY <1>4 DEF Transmit, Return, Goto, callVars, SameFor, TypeOK
  <2>3. QED
    BY <2>1, <2>2
<1>5. CASE Clear(t) \/ Drive(t) \/ EndDrive(t)
  BY <1>5 DEF Clear, Drive, Turning, EndDrive, Call, Goto, callVars, progVars, SameFor,
              TypeOK
<1>6. CASE Proceed(t)
  BY <1>6 DEF Proceed, Goto, callVars, SameFor, TypeOK
<1>7. QED
  BY <1>1, <1>2, <1>3, <1>4, <1>5, <1>6 DEF Step, WaitStop, WaitFooled

\* What remains to be shown of a step of task t.
LEMMA StepOfOne ==
  ASSUME BaseInv, NEW t \in Task, TypeOK',
         mishap \subseteq mishap', \A u \in Task \ {t} : SameFor(u),
         Control(t)', OwnArguments(t)', OwnMessage(t)',
         mishap' = {} =>
           \A w \in Wheel : /\ motor'[w] = t => Driving(t)'
                            /\ motor'[w] \in Task \ {t} => motor[w] = motor'[w]
  PROVE  BaseInv'
<1>1. ASSUME NEW u \in Task \ {t}
      PROVE  Control(u)' /\ OwnArguments(u)' /\ OwnMessage(u)'
  <2>1. Control(u) /\ OwnArguments(u) /\ OwnMessage(u) /\ SameFor(u)
    BY DEF BaseInv
  <2>2. QED
    BY <2>1 DEF SameFor, Control, OwnArguments, OwnMessage, Calling, InMovement
<1>2. NoRunaway'
  <2>1. SUFFICES ASSUME mishap' = {}, NEW w \in Wheel, NEW u \in Task,
                        motor'[w] = u
                 PROVE  Driving(u)'
    BY DEF NoRunaway
  <2>2. CASE u = t
    BY <2>1, <2>2
  <2>3. CASE u # t
    <3>1. motor[w] = u /\ mishap = {} /\ SameFor(u)
      BY <2>1, <2>3
    <3>2. Driving(u)
      BY <3>1 DEF BaseInv, NoRunaway
    <3>3. QED
      BY <3>1, <3>2 DEF Driving, SameFor, InMovement
  <2>4. QED
    BY <2>2, <2>3
<1>3. QED
  BY <1>1, <1>2 DEF BaseInv

\* A step of task t that writes nothing to the driver.
LEMMA QuietStep ==
  ASSUME BaseInv, NEW t \in Task, TypeOK',
         mishap \subseteq mishap', \A u \in Task \ {t} : SameFor(u),
         Control(t)', OwnArguments(t)', OwnMessage(t)',
         motor' = motor, Driving(t) => Driving(t)'
  PROVE  BaseInv'
<1>1. mishap' = {} => \A w \in Wheel : motor'[w] = t => Driving(t)'
  BY DEF BaseInv, NoRunaway
<1>2. QED
  BY <1>1, StepOfOne

LEMMA TaskStep ==
  ASSUME BaseInv, NEW t \in Task,
         BeginStop(t) \/ BeginSet(t) \/ BeginMv(t) \/ Step(t) \/ WaitFooled(t)
  PROVE  BaseInv'
<1>1. /\ TypeOK /\ Control(t) /\ OwnArguments(t) /\ OwnMessage(t)
  BY DEF BaseInv
<1>2. TypeOK'
  BY <1>1, TypeStep
<1>3. mishap \subseteq mishap' /\ \A u \in Task \ {t} : SameFor(u)
  BY <1>1, Locality
<1>4. CASE BeginStop(t) \/ BeginMv(t)
  <2>1. /\ pc'[t] = "abort" /\ part'[t] = "before"
        /\ motor' = motor /\ ~InMovement(t)
    BY <1>1, <1>4 DEF BeginStop, BeginMv, Begin, Goto, Control, TypeOK
  <2>2. Control(t)' /\ OwnArguments(t)' /\ OwnMessage(t)'
    BY <2>1 DEF Control, OwnArguments, OwnMessage, Calling
  <2>3. QED
    BY <1>2, <1>3, <2>1, <2>2, QuietStep DEF Driving
<1>5. CASE BeginSet(t)
  <2>1. /\ pc'[t] = "store" /\ part'[t] = "before" /\ activity'[t] = "set"
        /\ motor' = motor /\ ~InMovement(t)
    BY <1>1, <1>5 DEF BeginSet, Begin, Call, Goto, Control, TypeOK
  <2>2. \A w \in Wheel : arg'[t][w] \in {Off, Held}
    BY <1>1, <1>5 DEF BeginSet, Call, TypeOK, AllOff
  <2>3. Control(t)' /\ OwnArguments(t)' /\ OwnMessage(t)'
    BY <2>1, <2>2 DEF Control, OwnArguments, OwnMessage, Calling, InMovement,
                      Movement
  <2>4. QED
    BY <1>2, <1>3, <2>1, <2>3, QuietStep DEF Driving
<1>6. CASE Abort(t)
  <2>1. /\ pc'[t] = "store" /\ part' = part /\ activity' = activity
        /\ motor' = motor /\ part[t] # "drive"
    BY <1>1, <1>6 DEF Abort, Call, Goto, Control, TypeOK
  <2>2. arg'[t] = AllOff /\ \A w \in Wheel : arg'[t][w] = Off
    BY <1>1, <1>6 DEF Abort, Call, TypeOK, AllOff
  <2>3. Control(t)' /\ OwnArguments(t)' /\ OwnMessage(t)'
    BY <2>1, <2>2 DEF AllOff, Control, OwnArguments, OwnMessage, Calling
  <2>4. Driving(t) => Driving(t)'
    BY <2>1 DEF Driving, InMovement
  <2>5. QED
    BY <1>2, <1>3, <2>1, <2>3, <2>4, QuietStep
<1>7. CASE Store(t)
  <2>1. /\ pc[t] = "store" /\ pc'[t] \in {"store", "latch"}
        /\ UNCHANGED <<motor, activity, part, k, arg, buff, mishap>>
    BY <1>1, <1>7 DEF Store, Goto, TypeOK, progVars
  <2>2. Control(t)' /\ OwnArguments(t)' /\ OwnMessage(t)'
    BY <1>1, <2>1 DEF AllOff, Control, OwnArguments, OwnMessage, Calling, InMovement
  <2>3. Driving(t) => Driving(t)'
    BY <2>1 DEF Driving, InMovement
  <2>4. QED
    BY <1>2, <1>3, <2>1, <2>2, <2>3, QuietStep
<1>8. CASE Latch(t)
  <2>1. /\ pc[t] = "latch" /\ pc'[t] = "transmit"
        /\ UNCHANGED <<motor, activity, part, k, arg>>
    BY <1>1, <1>8 DEF Latch, Goto, TypeOK, progVars
  <2>2. OwnMessage(t)'
    <3>1. PICK reread \in SUBSET Wheel :
            /\ buff' = [buff EXCEPT ![t] =
                          [w \in Wheel |-> IF w \in reread THEN pwm[w] ELSE arg[t][w]]]
            /\ mishap' = IF \E w \in reread : pwm[w] # arg[t][w]
                           THEN mishap \cup {"race"} ELSE mishap
      BY <1>8 DEF Latch
    <3>2. SUFFICES ASSUME mishap' = {} PROVE buff'[t] = arg[t]
      BY <2>1 DEF OwnMessage
    <3>3. \A w \in reread : pwm[w] = arg[t][w]
      BY <3>1, <3>2
    <3>4. buff'[t] = [w \in Wheel |-> IF w \in reread THEN pwm[w] ELSE arg[t][w]]
      BY <1>1, <3>1 DEF TypeOK
    <3>5. arg[t] \in [Wheel -> Value]
      BY <1>1 DEF TypeOK
    <3>6. QED
      BY <3>3, <3>4, <3>5
  <2>3. Control(t)' /\ OwnArguments(t)'
    BY <1>1, <2>1 DEF Control, OwnArguments, Calling, InMovement
  <2>4. Driving(t) => Driving(t)'
    BY <2>1 DEF Driving, InMovement
  <2>5. QED
    BY <1>2, <1>3, <2>1, <2>2, <2>3, <2>4, QuietStep
<1>9. CASE Transmit(t)
  <2>1. /\ pc[t] = "transmit" /\ UNCHANGED <<part, arg, buff>>
        /\ \/ ~InMovement(t) /\ pc'[t] = "idle" /\ activity'[t] = "none"
           \/ /\ InMovement(t) /\ activity' = activity
              /\ \/ part[t] = "before" /\ pc'[t] = "clear"
                 \/ part[t] = "drive" /\ pc'[t] = "loop"
                 \/ part[t] = "after" /\ pc'[t] = "wait"
    BY <1>1, <1>9 DEF Transmit, Return, Goto, TypeOK, callVars
  <2>2. Control(t)' /\ OwnArguments(t)' /\ OwnMessage(t)'
    BY <2>1 DEF Control, OwnArguments, OwnMessage, Calling, InMovement, Movement
  <2>3. ASSUME mishap' = {}
        PROVE  motor' = arg[t]
    <3>1. mishap = {} /\ motor' = buff[t]
      BY <1>9, <2>3 DEF Transmit
    <3>2. QED
      BY <1>1, <2>1, <3>1 DEF OwnMessage
  <2>4. \A w \in Wheel : arg[t][w] = t => Driving(t)'
    BY <1>1, <2>1 DEF OwnArguments, Calling, Driving, InMovement
  <2>5. \A w \in Wheel : arg[t][w] \notin Task \ {t}
    BY <1>1, <2>1 DEF OwnArguments, Calling
  <2>6. QED
    BY <1>2, <1>3, <2>2, <2>3, <2>4, <2>5, StepOfOne
<1>10. CASE Clear(t)
  <2>1. /\ pc[t] = "clear" /\ pc'[t] = "loop" /\ part'[t] = "drive"
        /\ UNCHANGED <<motor, activity>>
    BY <1>1, <1>10 DEF Clear, Goto, TypeOK
  <2>2. Control(t)' /\ OwnArguments(t)' /\ OwnMessage(t)' /\ Driving(t)'
    BY <1>1, <2>1 DEF Control, OwnArguments, OwnMessage, Calling, InMovement,
                      Driving
  <2>3. QED
    BY <1>2, <1>3, <2>1, <2>2, QuietStep
<1>11. CASE Drive(t)
  <2>1. /\ pc[t] = "loop" /\ pc'[t] = "store"
        /\ k[t] < MaxTicks
        /\ UNCHANGED <<motor, activity, part, k>>
    BY <1>1, <1>11 DEF Drive, Turning, Call, Goto, TypeOK, progVars
  <2>2. \A w \in Wheel : arg'[t][w] \in {Off, t}
    BY <1>1, <1>11 DEF Drive, Turning, Call, TypeOK
  <2>3. InMovement(t) /\ part[t] = "drive"
    BY <1>1, <2>1 DEF Control
  <2>4. Control(t)' /\ OwnArguments(t)' /\ OwnMessage(t)' /\ Driving(t)'
    BY <2>1, <2>2, <2>3 DEF Control, OwnArguments, OwnMessage, Calling,
                            InMovement, Driving
  <2>5. QED
    BY <1>2, <1>3, <2>1, <2>4, QuietStep
<1>12. CASE EndDrive(t)
  <2>1. /\ pc[t] = "loop" /\ pc'[t] = "abort" /\ part'[t] = "after"
        /\ UNCHANGED <<motor, activity>>
    BY <1>1, <1>12 DEF EndDrive, Goto, TypeOK
  <2>2. Control(t)' /\ OwnArguments(t)' /\ OwnMessage(t)' /\ Driving(t)'
    BY <1>1, <2>1 DEF Control, OwnArguments, OwnMessage, Calling, InMovement,
                      Driving
  <2>3. QED
    BY <1>2, <1>3, <2>1, <2>2, QuietStep
<1>13. CASE Proceed(t)
  <2>1. /\ pc[t] = "wait"
        /\ motor' = motor
        /\ \/ pc'[t] = "abort" /\ part'[t] = "before"
           \/ pc'[t] = "idle" /\ activity'[t] = "none"
    BY <1>1, <1>13 DEF Proceed, Goto, TypeOK
  <2>2. ~Driving(t)
    BY <1>1, <2>1 DEF Control, Driving
  <2>3. Control(t)' /\ OwnArguments(t)' /\ OwnMessage(t)'
    BY <2>1 DEF Control, OwnArguments, OwnMessage, Calling, InMovement, Movement
  <2>4. QED
    BY <1>2, <1>3, <2>1, <2>2, <2>3, QuietStep
<1>14. QED
  BY <1>4, <1>5, <1>6, <1>7, <1>8, <1>9, <1>10, <1>11, <1>12, <1>13
     DEF Step, WaitStop, WaitFooled

LEMMA NextPreservesBaseInv == BaseInv /\ [Next]_vars => BaseInv'
<1>1. SUFFICES ASSUME BaseInv, [Next]_vars PROVE BaseInv'
  OBVIOUS
<1>2. CASE Next
  BY <1>1, <1>2, TaskStep DEF Next
<1>3. CASE UNCHANGED vars
  BY <1>1, <1>3 DEF vars, callVars, progVars, BaseInv, TypeOK, Control,
     OwnArguments, OwnMessage, NoRunaway, Driving, Calling, InMovement
<1>4. QED
  BY <1>1, <1>2, <1>3

-----------------------------------------------------------------------------
\* Every variable of the base keeps its type, under any interleaving of any
\* number of tasks; in particular no movement exceeds its time limit.
THEOREM BaseTypes == Spec => []TypeOK
<1>1. BaseInv => TypeOK
  BY DEF BaseInv
<1>2. QED
  BY <1>1, InitEstablishesBaseInv, NextPreservesBaseInv, PTL DEF Spec

\* No wheel goes on turning on behalf of a movement whose closing stop() has
\* been written, whatever the other tasks do to the base meanwhile - unless a
\* write to the driver has failed or a field was overwritten while in use.
THEOREM MovementsStopTheirWheels == Spec => []NoRunaway
<1>1. BaseInv => NoRunaway
  BY DEF BaseInv
<1>2. QED
  BY <1>1, InitEstablishesBaseInv, NextPreservesBaseInv, PTL DEF Spec

-----------------------------------------------------------------------------
(***************************************************************************)
(* Refinement of Motion.                                                   *)
(***************************************************************************)
InForce == {t \in Task : Driving(t)}

\* A step of task t that writes nothing to the driver: a movement's first
\* stop() may be over.
LEMMA QuietStepRefines ==
  ASSUME BaseInv, NEW t \in Task, motor' = motor, mishap' = mishap,
         \A u \in Task \ {t} : SameFor(u), Driving(t) => Driving(t)'
  PROVE  \/ MotionOfBase!Start(t)
         \/ UNCHANGED MotionOfBase!vars
<1>1. \A u \in Task \ {t} : Driving(u)' <=> Driving(u)
  BY DEF SameFor, Driving, InMovement
<1>2. InForce' = InForce \/ InForce' = InForce \cup {t}
  BY <1>1 DEF InForce
<1>3. QED
  BY <1>2 DEF MotionOfBase!Start, MotionOfBase!vars, InForce

\* A write to the driver: one of the movement's or a command's, or the last of
\* a movement, which turns off all wheels.
LEMMA TransmitRefines ==
  ASSUME BaseInv, BaseInv', NEW t \in Task, Transmit(t), mishap' = {}
  PROVE  MotionOfBase!Tell(t) \/ MotionOfBase!Finish(t)
<1>1. /\ TypeOK /\ Control(t) /\ OwnArguments(t) /\ OwnMessage(t)
  BY DEF BaseInv
<1>2. /\ pc[t] = "transmit" /\ UNCHANGED part
      /\ \/ ~InMovement(t) /\ pc'[t] = "idle" /\ activity'[t] = "none"
         \/ /\ InMovement(t) /\ activity' = activity
            /\ \/ part[t] = "before" /\ pc'[t] = "clear"
               \/ part[t] = "drive" /\ pc'[t] = "loop"
               \/ part[t] = "after" /\ pc'[t] = "wait"
  BY <1>1 DEF Transmit, Return, Goto, TypeOK, callVars
<1>3. mishap = {} /\ motor' = arg[t]
  BY <1>1, <1>2 DEF Transmit, OwnMessage
<1>4. \A u \in Task \ {t} : Driving(u)' <=> Driving(u)
  BY <1>1, Locality DEF Step, SameFor, Driving, InMovement
<1>5. CASE InMovement(t) /\ part[t] = "after"
  <2>1. Driving(t) /\ ~Driving(t)' /\ motor' = AllOff
    BY <1>1, <1>2, <1>3, <1>5 DEF Driving, OwnArguments, Calling, InMovement
  <2>2. InForce' = InForce \ {t} /\ t \in InForce
    BY <1>4, <2>1 DEF InForce
  <2>3. QED
    BY <1>3, <2>1, <2>2 DEF MotionOfBase!Finish, InForce, AllOff
<1>6. CASE ~(InMovement(t) /\ part[t] = "after")
  <2>1. Driving(t)' <=> Driving(t)
    BY <1>1, <1>2, <1>6 DEF Driving, InMovement, Movement, TypeOK
  <2>2. InForce' = InForce
    BY <1>4, <2>1 DEF InForce
  <2>3. \A w \in Wheel : arg[t][w] \in {Off, Held} \cup (InForce \cap {t})
    BY <1>1, <1>2 DEF OwnArguments, Calling, InForce, Driving
  <2>4. arg[t] \in [Wheel -> Value]
    BY <1>1 DEF TypeOK
  <2>5. motor' \in [Wheel -> {Off, Held} \cup (InForce \cap {t})]
    BY <1>3, <2>3, <2>4
  <2>6. QED
    BY <1>3, <2>2, <2>5 DEF MotionOfBase!Tell, InForce
<1>7. QED
  BY <1>5, <1>6

LEMMA TaskStepRefines ==
  ASSUME BaseInv, BaseInv', NEW t \in Task,
         BeginStop(t) \/ BeginSet(t) \/ BeginMv(t) \/ Step(t) \/ WaitFooled(t)
  PROVE  [MotionOfBase!Next]_MotionOfBase!vars
<1>1. /\ TypeOK /\ Control(t)
  BY DEF BaseInv
<1>2. mishap \subseteq mishap' /\ \A u \in Task \ {t} : SameFor(u)
  BY <1>1, Locality
<1>3. CASE mishap' # {}
  BY <1>3 DEF MotionOfBase!Next, MotionOfBase!Fault
<1>4. CASE mishap' = {} /\ Transmit(t)
  BY <1>4, TransmitRefines DEF MotionOfBase!Next
<1>5. CASE mishap' = {} /\ ~Transmit(t)
  <2>1. motor' = motor
    BY <1>5 DEF BeginStop, BeginSet, BeginMv, Step, Abort, Store, Latch, Clear,
       Drive, EndDrive, WaitStop, WaitFooled, Proceed
  <2>2. Driving(t) => Driving(t)'
    <3>1. CASE BeginStop(t) \/ BeginSet(t) \/ BeginMv(t)
      BY <1>1, <3>1 DEF BeginStop, BeginSet, BeginMv, Begin, Control, Driving
    <3>2. CASE Abort(t) \/ Store(t) \/ Latch(t) \/ Drive(t)
      BY <1>1, <3>2 DEF Abort, Store, Latch, Drive, Call, Goto, progVars, Driving,
         InMovement, TypeOK
    <3>3. CASE Clear(t) \/ EndDrive(t)
      BY <1>1, <3>3 DEF Clear, EndDrive, Goto, Driving, InMovement, TypeOK
    <3>4. CASE Proceed(t)
      BY <1>1, <3>4 DEF Proceed, Control, Driving
    <3>5. QED
      BY <1>5, <3>1, <3>2, <3>3, <3>4 DEF Step, WaitStop, WaitFooled
  <2>3. mishap' = mishap
    BY <1>2, <1>5
  <2>4. QED
    BY <1>2, <2>1, <2>2, <2>3, QuietStepRefines DEF MotionOfBase!Next
<1>6. QED
  BY <1>3, <1>4, <1>5

\* However many tasks command the base at once, it keeps the promises of
\* Motion: no wheel turns for a movement that is not in force, and a movement
\* that ends leaves the base standing.
THEOREM BaseImplementsMotion == Spec => ImplementsMotion
<1>1. Init => MotionOfBase!Init
  BY DEF Init, MotionOfBase!Init, AllOff, Driving, InMovement, Movement
<1>2. BaseInv /\ BaseInv' /\ [Next]_vars => [MotionOfBase!Next]_MotionOfBase!vars
  <2>1. SUFFICES ASSUME BaseInv, BaseInv', [Next]_vars
                 PROVE  [MotionOfBase!Next]_MotionOfBase!vars
    OBVIOUS
  <2>2. CASE Next
    BY <2>1, <2>2, TaskStepRefines DEF Next
  <2>3. CASE UNCHANGED vars
    BY <2>3 DEF vars, callVars, progVars, MotionOfBase!vars, Driving, InMovement
  <2>4. QED
    BY <2>1, <2>2, <2>3
<1>3. QED
  BY <1>1, <1>2, InitEstablishesBaseInv, NextPreservesBaseInv, PTL
     DEF Spec, ImplementsMotion, MotionOfBase!Spec

-----------------------------------------------------------------------------
(***************************************************************************)
(* What a lock in setPwm() would be worth.                                 *)
(***************************************************************************)

\* One task at most is inside setPwm().
OneAtATime == \A t, u \in Task : Calling(t) /\ Calling(u) => t = u

\* The fields that the task's setPwm() has stored still hold its arguments.
Stored(t) ==
  /\ pc[t] = "store" => \A w \in Wheel \ todo[t] : pwm[w] = arg[t][w]
  /\ pc[t] = "latch" => \A w \in Wheel : pwm[w] = arg[t][w]

UndisturbedInv == "race" \notin mishap /\ \A t \in Task : Stored(t)

\* A step of one task while no other is inside setPwm().
LEMMA UndisturbedStep ==
  ASSUME TypeOK, UndisturbedInv, OneAtATime, NEW t \in Task,
         BeginStop(t) \/ BeginSet(t) \/ BeginMv(t) \/ Step(t) \/ WaitFooled(t)
  PROVE  UndisturbedInv'
<1>1. CASE Store(t)
  <2>1. PICK w \in todo[t] :
          /\ pwm' = [pwm EXCEPT ![w] = arg[t][w]]
          /\ todo' = [todo EXCEPT ![t] = @ \ {w}]
          /\ IF todo[t] = {w} THEN Goto(t, "latch") ELSE UNCHANGED pc
    BY <1>1 DEF Store
  <2>2. pc[t] = "store" /\ arg' = arg /\ mishap' = mishap /\ w \in Wheel
    BY <1>1 DEF Store, TypeOK
  <2>3. Stored(t)'
    <3>1. \A v \in Wheel \ (todo[t] \ {w}) : pwm'[v] = arg[t][v]
      BY <2>1, <2>2 DEF UndisturbedInv, Stored, TypeOK
    <3>2. todo'[t] = todo[t] \ {w} /\ pc'[t] \in {"store", "latch"}
      BY <2>1, <2>2 DEF Goto, TypeOK
    <3>3. pc'[t] = "latch" => todo[t] = {w}
      BY <2>1, <2>2 DEF Goto, TypeOK
    <3>4. QED
      BY <2>2, <3>1, <3>2, <3>3 DEF Stored
  <2>4. ASSUME NEW u \in Task, u # t PROVE Stored(u)'
    <3>1. ~Calling(u)
      BY <2>2, <2>4 DEF OneAtATime, Calling
    <3>2. pc'[u] = pc[u]
      BY <2>1, <2>4 DEF Goto, TypeOK
    <3>3. QED
      BY <3>1, <3>2 DEF Stored, Calling
  <2>5. QED
    BY <2>2, <2>3, <2>4 DEF UndisturbedInv
<1>2. CASE Latch(t)
  <2>1. PICK reread \in SUBSET Wheel :
          mishap' = IF \E w \in reread : pwm[w] # arg[t][w]
                      THEN mishap \cup {"race"} ELSE mishap
    BY <1>2 DEF Latch
  <2>2. pc[t] = "latch" /\ pc'[t] = "transmit"
        /\ UNCHANGED <<pwm, arg, todo>> /\ \A u \in Task : u # t => pc'[u] = pc[u]
    BY <1>2 DEF Latch, Goto, TypeOK
  <2>3. mishap' = mishap
    BY <2>1, <2>2 DEF UndisturbedInv, Stored
  <2>4. \A u \in Task : Stored(u)'
    BY <2>2 DEF UndisturbedInv, Stored
  <2>5. QED
    BY <2>3, <2>4 DEF UndisturbedInv
<1>3. CASE ~Store(t) /\ ~Latch(t)
  <2>1. pwm' = pwm /\ (mishap' = mishap \/ mishap' = mishap \cup {"bus"})
    BY <1>3 DEF BeginStop, BeginSet, BeginMv, Step, Abort, Transmit, Clear, Drive,
       EndDrive, WaitStop, WaitFooled, Proceed
  <2>2. \/ pc'[t] = "store" /\ todo'[t] = Wheel
        \/ pc'[t] \notin {"store", "latch"}
    BY <1>3 DEF BeginStop, BeginSet, BeginMv, Begin, Step, Abort, Transmit, Return, Clear,
       Drive, EndDrive, WaitStop, WaitFooled, Proceed, Call, Goto, TypeOK
  <2>3. \A u \in Task : u # t => pc'[u] = pc[u] /\ arg'[u] = arg[u] /\ todo'[u] = todo[u]
    <3>1. CASE BeginStop(t) \/ BeginSet(t) \/ BeginMv(t)
      BY <3>1 DEF BeginStop, BeginSet, BeginMv, Begin, Call, Goto, callVars, TypeOK
    <3>2. CASE Abort(t) \/ Transmit(t) \/ Clear(t)
      BY <3>2 DEF Abort, Transmit, Return, Clear, Call, Goto, callVars, TypeOK
    <3>3. CASE Drive(t) \/ EndDrive(t) \/ Proceed(t)
      BY <3>3 DEF Drive, EndDrive, Proceed, Call, Goto, callVars, TypeOK
    <3>4. QED
      BY <1>3, <3>1, <3>2, <3>3 DEF Step, WaitStop, WaitFooled
  <2>4. \A u \in Task : Stored(u)'
    BY <2>1, <2>2, <2>3 DEF UndisturbedInv, Stored
  <2>5. "race" \notin mishap'
    BY <2>1 DEF UndisturbedInv
  <2>6. QED
    BY <2>4, <2>5 DEF UndisturbedInv
<1>4. QED
  BY <1>1, <1>2, <1>3

LEMMA NextPreservesUndisturbed ==
  TypeOK /\ UndisturbedInv /\ OneAtATime /\ [Next]_vars => UndisturbedInv'
<1> SUFFICES ASSUME TypeOK, UndisturbedInv, OneAtATime, [Next]_vars
             PROVE  UndisturbedInv'
  OBVIOUS
<1>1. CASE Next
  BY <1>1, UndisturbedStep DEF Next
<1>2. CASE UNCHANGED vars
  BY <1>2 DEF vars, callVars, UndisturbedInv, Stored
<1>3. QED
  BY <1>1, <1>2

\* A field is overwritten in use only when two tasks are inside setPwm() at the same
\* time: with a lock there, or a single task, no message ever mixes the wheels of
\* two calls, whatever the build does with the fields.
THEOREM RacesNeedTwoCalls == Spec /\ []OneAtATime => []("race" \notin mishap)
<1>1. Init => UndisturbedInv
  BY DEF Init, UndisturbedInv, Stored
<1>2. UndisturbedInv => "race" \notin mishap
  BY DEF UndisturbedInv
<1>3. QED
  BY <1>1, <1>2, BaseTypes, NextPreservesUndisturbed, PTL DEF Spec

\* No wheel turns on behalf of a movement that is over.
NothingRunsAway == \A w \in Wheel, t \in Task : motor[w] = t => Driving(t)

\* Without failures on the bus a race is the only mishap there can be, and when no
\* fields are read again there is none.
BusHolds      == BusFails = FALSE /\ "bus" \notin mishap
NothingAmiss  == BusFails = FALSE /\ Rereads = FALSE /\ mishap = {}

LEMMA NextPreservesBusHolds == BusHolds /\ [Next]_vars => BusHolds'
<1> SUFFICES ASSUME BusHolds, [Next]_vars PROVE BusHolds'
  OBVIOUS
<1>1. mishap' = mishap \/ mishap' = mishap \cup {"race"}
  BY DEF BusHolds, Next, vars, BeginStop, BeginSet, BeginMv, Step, Abort, Store, Latch,
     Transmit, Clear, Drive, EndDrive, WaitStop, WaitFooled, Proceed
<1>2. QED
  BY <1>1 DEF BusHolds

LEMMA NextPreservesNothingAmiss == NothingAmiss /\ [Next]_vars => NothingAmiss'
<1> SUFFICES ASSUME NothingAmiss, [Next]_vars PROVE mishap' = {}
  BY DEF NothingAmiss
<1>1. ASSUME NEW t \in Task, Latch(t) PROVE mishap' = mishap
  BY <1>1 DEF Latch, NothingAmiss
<1>2. CASE \A t \in Task : ~Latch(t)
  BY <1>2 DEF NothingAmiss, Next, vars, BeginStop, BeginSet, BeginMv, Step, Abort, Store,
     Transmit, Clear, Drive, EndDrive, WaitStop, WaitFooled, Proceed
<1>3. QED
  BY <1>1, <1>2 DEF NothingAmiss

\* On a bus without failures, and with setPwm() entered by one task at a time,
\* NoRunaway holds without exception: what it excepts is what a lock and a check
\* of the driver's answer would remove, and nothing else.
THEOREM LockedBaseNeverRunsAway ==
  BusFails = FALSE /\ Spec /\ []OneAtATime => []NothingRunsAway
<1>1. BusFails = FALSE /\ Init => BusHolds
  BY DEF Init, BusHolds
<1>2. TypeOK /\ BusHolds /\ "race" \notin mishap /\ NoRunaway => NothingRunsAway
  BY DEF TypeOK, BusHolds, NoRunaway, NothingRunsAway
<1>3. QED
  BY <1>1, <1>2, NextPreservesBusHolds, BaseTypes, MovementsStopTheirWheels,
     RacesNeedTwoCalls, PTL DEF Spec

\* A build that uses the arguments instead of reading the fields again needs no
\* lock for that: however the tasks interleave, no wheel runs away on a bus without
\* failures.
THEOREM ArgumentsNeverRunAway ==
  BusFails = FALSE /\ Rereads = FALSE /\ Spec => []NothingRunsAway
<1>1. BusFails = FALSE /\ Rereads = FALSE /\ Init => NothingAmiss
  BY DEF Init, NothingAmiss
<1>2. NothingAmiss /\ NoRunaway => NothingRunsAway
  BY DEF NothingAmiss, NoRunaway, NothingRunsAway
<1>3. QED
  BY <1>1, <1>2, NextPreservesNothingAmiss, MovementsStopTheirWheels, PTL DEF Spec
-----------------------------------------------------------------------------
(***************************************************************************)
(* What STOP and waitStop() are worth while one movement at most is under  *)
(* way: the rest of the tasks may give any other command at any time.      *)
(***************************************************************************)
OneMover == \A t, u \in Task : InMovement(t) /\ InMovement(u) => t = u

\* Once the flag is raised in the loop of a movement no further iteration begins,
\* and the flag stays up until the movement has come to its last stop().
StopEndsTheLoop ==
  \A t \in Task :
    abortMove /\ InMovement(t) /\ part[t] = "drive"
      => /\ pc[t] = "loop" => pc'[t] \in {"loop", "abort"}
         /\ part'[t] = "after" \/ (abortMove' /\ part'[t] = "drive")

\* Only the beginning of a movement's loop lowers the flag, and it does so before
\* that loop's first iteration.
LEMMA FlagFallsAtClear ==
  ASSUME NEW u \in Task,
         BeginStop(u) \/ BeginSet(u) \/ BeginMv(u) \/ Step(u) \/ WaitFooled(u),
         abortMove, ~abortMove'
  PROVE  Clear(u)
BY DEF BeginStop, BeginSet, BeginMv, Step, Abort, Store, Latch, Transmit, Drive, EndDrive,
   WaitStop, WaitFooled, Proceed

\* A step of the task itself while the flag is up.
LEMMA OwnStepInLoop ==
  ASSUME BaseInv, NEW t \in Task, abortMove, InMovement(t), part[t] = "drive",
         BeginStop(t) \/ BeginSet(t) \/ BeginMv(t) \/ Step(t) \/ WaitFooled(t)
  PROVE  /\ pc[t] = "loop" => pc'[t] \in {"loop", "abort"}
         /\ part'[t] = "after" \/ (abortMove' /\ part'[t] = "drive")
<1>1. TypeOK /\ Control(t)
  BY DEF BaseInv
<1>2. pc[t] \in {"loop", "store", "latch", "transmit"}
  BY <1>1 DEF Control, TypeOK
<1>3. CASE EndDrive(t)
  BY <1>1, <1>3 DEF EndDrive, Goto, TypeOK
<1>4. CASE Store(t) \/ Latch(t) \/ Transmit(t)
  <2>1. UNCHANGED <<abortMove, part>> /\ pc[t] # "loop"
    BY <1>4 DEF Store, Latch, Transmit, Return, progVars
  <2>2. QED
    BY <2>1
<1>5. QED
  BY <1>2, <1>3, <1>4 DEF BeginStop, BeginSet, BeginMv, Begin, Step, Abort, Clear, Drive,
     WaitStop, WaitFooled, Proceed

LEMMA NextEndsTheLoop == BaseInv /\ OneMover /\ [Next]_vars => StopEndsTheLoop
<1> SUFFICES ASSUME BaseInv, OneMover, [Next]_vars, NEW t \in Task,
                    abortMove, InMovement(t), part[t] = "drive"
             PROVE  /\ pc[t] = "loop" => pc'[t] \in {"loop", "abort"}
                    /\ part'[t] = "after" \/ (abortMove' /\ part'[t] = "drive")
  BY DEF StopEndsTheLoop
<1>1. CASE UNCHANGED vars
  BY <1>1 DEF vars, progVars
<1>2. ASSUME NEW u \in Task, u # t,
             BeginStop(u) \/ BeginSet(u) \/ BeginMv(u) \/ Step(u) \/ WaitFooled(u)
      PROVE  pc'[t] = pc[t] /\ part'[t] = part[t] /\ abortMove'
  <2>1. TypeOK /\ Control(u)
    BY DEF BaseInv
  <2>2. SameFor(t)
    BY <1>2, <2>1, Locality
  <2>3. ~Clear(u)
    BY <1>2, <2>1 DEF Clear, Control, OneMover
  <2>4. QED
    BY <1>2, <2>2, <2>3, FlagFallsAtClear DEF SameFor
<1>3. QED
  BY <1>1, <1>2, OwnStepInLoop DEF Next

\* A STOP given while a single movement is in its loop ends that loop, however
\* the tasks interleave: what it does not end is the other half of an mv.
THEOREM StopEndsOneMovement == Spec /\ []OneMover => [][StopEndsTheLoop]_vars
<1>1. QED
  BY InitEstablishesBaseInv, NextPreservesBaseInv, NextEndsTheLoop, PTL DEF Spec

\* A single movement waits for wheels that SetPWM has set, and for nothing else.
WaitsForHeld ==
  mishap = {} => \A t \in Task : pc[t] = "wait" => \A w \in Wheel : motor[w] \in {Off, Held}

\* Nobody but other movements, a SetPWM and what NoRunaway excepts can keep
\* waitStop() from finding the base at rest: the movement that waits has turned
\* off all it had turned on.
THEOREM OneMoverWaitsForHeld == Spec /\ []OneMover => []WaitsForHeld
<1>1. BaseInv /\ OneMover => WaitsForHeld
  <2> SUFFICES ASSUME BaseInv, OneMover, mishap = {}, NEW t \in Task, pc[t] = "wait",
                      NEW w \in Wheel
               PROVE  motor[w] \in {Off, Held}
    BY DEF WaitsForHeld
  <2>1. TypeOK /\ Control(t) /\ NoRunaway
    BY DEF BaseInv
  <2>2. InMovement(t) /\ part[t] = "after" /\ ~Driving(t)
    BY <2>1 DEF Control, Driving
  <2>3. ASSUME NEW u \in Task, motor[w] = u PROVE FALSE
    <3>1. Driving(u)
      BY <2>1, <2>3 DEF NoRunaway
    <3>2. QED
      BY <2>2, <3>1 DEF Driving, OneMover
  <2>4. QED
    BY <2>1, <2>3 DEF TypeOK, Value
<1>2. QED
  BY <1>1, InitEstablishesBaseInv, NextPreservesBaseInv, PTL DEF Spec
=============================================================================
