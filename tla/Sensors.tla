------------------------------ MODULE Sensors ------------------------------
(***************************************************************************)
(* The sensors (minibot/sensors.cpp): how the texts of the configuration   *)
(* become angles and an order, and how a reading is put together.          *)
(*                                                                         *)
(* A text is the sequence of the numbers in it.  What a sensor measures is *)
(* abstracted to the number of the sensor, counted over the converters of  *)
(* its kind: a reading tells whose values it holds.                        *)
(***************************************************************************)
EXTENDS Integers, Sequences, FiniteSets

DistCount  == 16
LightCount == 8
FloorCount == 4

None == -1     \* no angle, no place, no value

Angled(n) == IF n >= 0 THEN n ELSE None

-----------------------------------------------------------------------------
(***************************************************************************)
(* Configuration.                                                          *)
(***************************************************************************)
\* Mutant: the constructor leaves the angles as it finds them.
ConstructedDist_Raw == [i \in 0 .. DistCount - 1 |-> 0]

\* The angles a distance sensor has before any text is read.
ConstructedDist == [i \in 0 .. DistCount - 1 |-> None]

\* What the text leaves out has no angle, up to the number of light sensors;
\* beyond it the angles stay as they were.
SetDistSenAnglesDeg(angles, text) ==
  [i \in 0 .. DistCount - 1 |->
     IF i < Len(text) THEN Angled(text[i + 1])
     ELSE IF i < LightCount THEN None
     ELSE angles[i]]

SetLightSenAnglesDeg(text) ==
  [i \in 0 .. LightCount - 1 |-> IF i < Len(text) THEN Angled(text[i + 1]) ELSE None]

SetFloorSenOrder(text) ==
  [i \in 0 .. FloorCount - 1 |->
     IF i < Len(text) /\ text[i + 1] \in 0 .. FloorCount - 1 THEN text[i + 1] ELSE None]

DistAngles(config)  == SetDistSenAnglesDeg(ConstructedDist, config.dist)
LightAngles(config) == SetLightSenAnglesDeg(config.light)
FloorOrder(config)  == SetFloorSenOrder(config.floor)

-----------------------------------------------------------------------------
(***************************************************************************)
(* Readings.  A converter has eight channels, whose numbers it takes with  *)
(* the even ones first.                                                    *)
(***************************************************************************)
AdcCh2C(ch) == IF ch % 2 = 0 THEN ch \div 2 ELSE ch \div 2 + 4

\* The channel that the converter connects when it is given c.
Connected(c) == IF c < 4 THEN 2 * c ELSE 2 * (c - 4) + 1

\* What the i-th transfer of a kind of sensor brings.
Sampled(i) == 8 * (i \div 8) + Connected(AdcCh2C(i % 8))

\* The sensors that have an angle: the others are passed over.
Asked(angles) == {i \in DOMAIN angles : angles[i] >= 0}

\* The tuple that sensor i fills: the loop counts those it has filled before.
Place(asked, i) == 1 + Cardinality({j \in asked : j < i})

\* readDistance() and readLight(): tuples of angle and value, packed to the
\* front; the transfers in failed bring no value.
ReadAngled(angles, count, failed) ==
  [n \in 1 .. count |->
     LET here   == {i \in Asked(angles) : Place(Asked(angles), i) = n}
         sensor == CHOOSE i \in here : TRUE
     IN IF here = {} THEN [angle |-> None, value |-> None]
        ELSE [angle |-> angles[sensor],
              value |-> IF sensor \in failed THEN None ELSE Sampled(sensor)]]

\* readFloor(): the value goes to the sensor's place, over what another sensor
\* with the same place has put there.
ReadFloor(order, failed) ==
  [p \in 0 .. FloorCount - 1 |->
     LET sent == {i \in DOMAIN order : order[i] = p}
         last == CHOOSE i \in sent : \A j \in sent : j <= i
     IN IF sent = {} \/ last \in failed THEN None ELSE Sampled(last)]
=============================================================================
