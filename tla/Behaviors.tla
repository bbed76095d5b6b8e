------------------------------ MODULE Behaviors ------------------------------
(***************************************************************************)
(* main's loop and the behaviors (main/main.cpp, main/behaviors.cpp).  main*)
(* reads the variable behavior at the start of each step; the web server   *)
(* writes it at any time.  A step of the light follower looks for the      *)
(* light, then for obstacles, and commands one mv or two, each a rotation  *)
(* and a translation: movements that go on while all else changes.         *)
(*                                                                         *)
(* A movement ends when it has arrived, when its time is up or when a STOP *)
(* command aborts it; how it is carried out is module Base's subject.  The *)
(* world is where the obstacles are, within the range that makes the robot *)
(* avoid them, and where the light is, both as seen from the robot when its*)
(* step begins.  A direction is the distance sensor nearest to it: the     *)
(* three ahead, or elsewhere.                                              *)
(***************************************************************************)
EXTENDS Naturals, Sequences

CONSTANTS
  Light,         \* the light sensors
  LightEnabled,  \* those that have an angle
  DistAngles,    \* where each distance sensor looks, "off" if it is disabled
  SensorsFail    \* TRUE: the bus may lose a reading

Ahead     == {"left", "front", "right"}
Direction == Ahead \cup {"elsewhere"}

ASSUME LightAssumption  == LightEnabled \subseteq Light
ASSUME AnglesAssumption == DistAngles \in Seq(Direction \cup {"off"})
ASSUME SwitchAssumption == SensorsFail \in BOOLEAN

VARIABLES
  behavior,    \* 0 idle, 1 the light follower, 2 any other number
  main,        \* what main does next
  bearing,     \* ls_angle, the direction of the light as the step has read it
  heading,     \* the direction in which the step turns before it advances
  togo,        \* movements of the step that have not ended
  obstacles,   \* the world: directions in which there is one
  light,       \* "here", too weak to be followed, or its direction
  started,     \* history: movements begun since behavior was last 1
  blind,       \* history: the last reading of the light was not complete
  sure         \* history: all distance sensors answered the step, and no obstacle
               \* has moved since

stepVars  == <<main, bearing, heading, togo>>
worldVars == <<obstacles, light>>
histVars  == <<started, blind, sure>>
vars == <<behavior, stepVars, worldVars, histVars>>

Init ==
  /\ behavior = 0
  /\ main = "choose" /\ bearing = "none" /\ heading = "none" /\ togo = 0
  /\ obstacles \in SUBSET Direction
  /\ light \in {"here"} \cup Direction
  /\ started = 0 /\ blind = FALSE /\ sure = FALSE

\* Mutant: the break after behavior 0 is missing.
Choose_FallsThrough ==
  /\ main = "choose"
  /\ main' = IF behavior \in {0, 1} THEN "seek" ELSE "rest"
  /\ UNCHANGED <<behavior, bearing, heading, togo, worldVars, histVars>>

\* execute_behavior(): behavior is read once for the whole step.
Choose ==
  /\ main = "choose"
  /\ main' = IF behavior = 1 THEN "seek" ELSE "rest"
  /\ UNCHANGED <<behavior, bearing, heading, togo, worldVars, histVars>>

\* A second's delay, in behavior 0, in an unknown one and at the light.
Rest ==
  /\ main = "rest"
  /\ main' = "choose"
  /\ UNCHANGED <<behavior, bearing, heading, togo, worldVars, histVars>>

(***************************************************************************)
(* Sensors.  A sensor that is disabled is not asked; one that is asked may *)
(* not answer.                                                             *)
(***************************************************************************)
\* The sets of sensors, among those asked, that may answer.
Answers(asked) == {a \in SUBSET asked : SensorsFail \/ a = asked}

\* readLight() succeeds only if every sensor there is has answered.
ReadLight(answered) == answered = Light

\* Mutant: a light beside or behind the robot is not made out.
LightSource_AheadOnly(answered) ==
  IF ReadLight(answered) /\ light \in Ahead THEN light ELSE "here"

\* get_light_source(): where the light is, "here" if its strength is too low;
\* the strength is zero after a reading that failed.
LightSource(answered) == IF ReadLight(answered) THEN light ELSE "here"

DistEnabled == {n \in DOMAIN DistAngles : DistAngles[n] # "off"}

\* readDistance() packs the values of the sensors that are enabled, whether
\* they have answered or not: the sensors, in the order of their values.
ReadDistance == SelectSeq([n \in DOMAIN DistAngles |-> n], LAMBDA n : n \in DistEnabled)

\* The i-th value says that something is near; it is -1 if the sensor has
\* not answered, and if there are fewer sensors.
IsNear(i, answered) ==
  /\ i \in DOMAIN ReadDistance
  /\ ReadDistance[i] \in answered
  /\ DistAngles[ReadDistance[i]] \in obstacles

(***************************************************************************)
(* A step of the light follower.                                           *)
(***************************************************************************)
\* Mutant: the sides are looked at first.
DetectObstacles_SidesFirst(answered) ==
  IF IsNear(1, answered) THEN "left"
  ELSE IF IsNear(3, answered) THEN "right"
  ELSE IF IsNear(2, answered) THEN "front"
  ELSE "none"

\* The first three values are taken for left, front and right.
DetectObstacles(answered) ==
  LET obsl == IsNear(1, answered)
      obsf == IsNear(2, answered)
      obsr == IsNear(3, answered)
  IN IF obsf \/ (obsl /\ obsr) THEN "front"
     ELSE IF obsl THEN "left"
     ELSE IF obsr THEN "right"
     ELSE "none"

SeekLight ==
  /\ main = "seek"
  /\ \E answered \in Answers(LightEnabled) :
       /\ main' = IF LightSource(answered) = "here" THEN "rest" ELSE "look"
       /\ bearing' = LightSource(answered)
       /\ blind' = ~ReadLight(answered)
  /\ UNCHANGED <<behavior, heading, togo, worldVars, started, sure>>

\* avoid_obstacle() turns away from a side; in front of an obstacle it turns
\* left by 90 degrees, advances and turns back.
Avoid(obs) ==
  \/ obs = "left"  /\ heading' = "right" /\ togo' = 2
  \/ obs = "right" /\ heading' = "left"  /\ togo' = 2
  \/ obs = "front" /\ heading' = "elsewhere" /\ togo' = 4

\* move_towards_light() turns to the light, wherever it is, and advances.
MoveTowardsLight == heading' = bearing /\ togo' = 2

Look ==
  /\ main = "look"
  /\ \E answered \in Answers(DistEnabled) :
       /\ sure' = (answered = DistEnabled)
       /\ LET obs == DetectObstacles(answered)
          IN \/ obs = "none" /\ MoveTowardsLight
             \/ Avoid(obs)
  /\ main' = "begin"
  /\ UNCHANGED <<behavior, bearing, worldVars, started, blind>>

\* rotate() or moveX() is called.
BeginMovement ==
  /\ main = "begin"
  /\ main' = "drive"
  /\ started' = IF behavior = 1 THEN 0 ELSE started + 1
  /\ UNCHANGED <<behavior, bearing, heading, togo, worldVars, blind, sure>>

\* Mutant: the step goes on after its last movement.
EndMovement_OneMore ==
  /\ main = "drive"
  /\ togo' = togo - 1
  /\ main' = "begin"
  /\ UNCHANGED <<behavior, bearing, heading, worldVars, histVars>>

\* It returns, whatever has ended it; the next one follows.
EndMovement ==
  /\ main = "drive"
  /\ togo' = togo - 1
  /\ main' = IF togo > 1 THEN "begin" ELSE "choose"
  /\ UNCHANGED <<behavior, bearing, heading, worldVars, histVars>>

ExecuteBehavior ==
  Choose \/ Rest \/ SeekLight \/ Look \/ BeginMovement \/ EndMovement

(***************************************************************************)
(* The web server's command behavior, and the world.                       *)
(***************************************************************************)
SetBehavior(b) ==
  /\ behavior' = b
  /\ started' = IF behavior = 1 \/ b = 1 THEN 0 ELSE started
  /\ UNCHANGED <<stepVars, worldVars, blind, sure>>

ObstaclesMove ==
  /\ \E o \in SUBSET Direction : o # obstacles /\ obstacles' = o
  /\ sure' = FALSE
  /\ UNCHANGED <<behavior, stepVars, light, started, blind>>

LightMoves ==
  /\ light' \in ({"here"} \cup Direction) \ {light}
  /\ UNCHANGED <<behavior, stepVars, obstacles, histVars>>

Next ==
  \/ ExecuteBehavior
  \/ \E b \in 0 .. 2 : SetBehavior(b)
  \/ ObstaclesMove \/ LightMoves

Spec == Init /\ [][Next]_vars

\* main is scheduled, and its movements end (Base!MvTerminates).
FairSpec == Spec /\ WF_vars(ExecuteBehavior)

-----------------------------------------------------------------------------
(***************************************************************************)
(* Properties.                                                             *)
(***************************************************************************)

\* The variables have their types; movements are left exactly while the step
\* is at one.
TypeOK ==
  /\ behavior \in 0 .. 2
  /\ main \in {"choose", "rest", "seek", "look", "begin", "drive"}
  /\ bearing \in {"none", "here"} \cup Direction
  /\ main = "look" => bearing \in Direction
  /\ heading \in {"none"} \cup Direction
  /\ togo \in 0 .. 4
  /\ togo > 0 <=> main \in {"begin", "drive"}
  /\ obstacles \subseteq Direction /\ light \in {"here"} \cup Direction
  /\ started \in Nat /\ blind \in BOOLEAN /\ sure \in BOOLEAN

\* Told to do something else, the light follower begins four movements more at
\* most, those of one avoidance, however often it is told.
SwitchIsPrompt == started <= 4

\* The sensors whose values come first look ahead, as they do by default.
SensesAhead ==
  /\ 1 .. 3 \subseteq DOMAIN ReadDistance
  /\ \E l, f, r \in DistEnabled :
       /\ ReadDistance[1] = l /\ DistAngles[l] = "left"
       /\ ReadDistance[2] = f /\ DistAngles[f] = "front"
       /\ ReadDistance[3] = r /\ DistAngles[r] = "right"

\* A step that turns to a direction ahead, the light's or one around an obstacle,
\* finds that direction and the front clear, if all distance sensors have answered
\* and the world is still as it was when the step looked.  Of a light elsewhere,
\* and of the way around an obstacle in front, nothing is said: no sensor that
\* looks there is asked, and the robot drives at what it could see.
HeadsWhereClear ==
  sure /\ SensesAhead /\ togo > 0 /\ heading \in Ahead
    => obstacles \cap {heading, "front"} = {}


\* The light follower goes on moving for as long as it is not at the light, unless
\* readings of the light are incomplete again and again: it takes those for
\* its arrival.
Follows == <>[](behavior = 1 /\ light # "here") => []<>(main = "drive" \/ blind)
=============================================================================
