--------------------------- MODULE BehaviorsProofs ---------------------------
(***************************************************************************)
(* Proofs about main's loop, for any number and arrangement of sensors.    *)
(***************************************************************************)
EXTENDS Behaviors, TLAPS

\* Movements that the step under way may still begin.
Remaining ==
  IF main \in {"seek", "look"} THEN 4
  ELSE IF main = "begin" THEN togo
  ELSE IF main = "drive" THEN togo - 1
  ELSE 0

\* What SwitchIsPrompt needs: those that have begun since the light follower
\* was switched off and those that may still begin are four together.
Budget ==
  /\ behavior = 1 => started = 0
  /\ started + Remaining <= 4

\* The strengthening of the invariants that is inductive.
BehaviorInv == TypeOK /\ Budget /\ HeadsWhereClear

-----------------------------------------------------------------------------
\* At the start nothing has begun and no step is under way.
LEMMA InitBehaviorInv == Init => BehaviorInv
<1> SUFFICES ASSUME Init
             PROVE  BehaviorInv
  OBVIOUS
<1>1. TypeOK
  <2>1. blind \in BOOLEAN /\ sure \in BOOLEAN
    BY Zenon DEF Init
  <2>2. obstacles \subseteq Direction /\ behavior = 0 /\ started = 0 /\ togo = 0
        /\ main = "choose" /\ heading = "none" /\ light \in {"here"} \cup Direction
        /\ bearing = "none"
    BY DEF Init
  <2>3. QED
    BY <2>1, <2>2 DEF TypeOK
<1>2. Budget
  BY DEF Init, Budget, Remaining
<1>3. HeadsWhereClear
  BY DEF Init, HeadsWhereClear
<1>4. QED
  BY <1>1, <1>2, <1>3 DEF BehaviorInv

\* With every distance sensor read, the direction that is chosen is clear.
LEMMA DirectionIsClear ==
  ASSUME SensesAhead, NEW obs, obs = DetectObstacles(DistEnabled)
  PROVE  /\ obs = "none"  => obstacles \cap Ahead = {}
         /\ obs = "left"  => obstacles \cap {"right", "front"} = {}
         /\ obs = "right" => obstacles \cap {"left", "front"} = {}
<1>1. /\ IsNear(1, DistEnabled) <=> "left"  \in obstacles
      /\ IsNear(2, DistEnabled) <=> "front" \in obstacles
      /\ IsNear(3, DistEnabled) <=> "right" \in obstacles
  BY DEF SensesAhead, IsNear
<1>2. CASE "front" \in obstacles \/ {"left", "right"} \subseteq obstacles
  BY <1>1, <1>2 DEF DetectObstacles
<1>3. CASE ~("front" \in obstacles \/ {"left", "right"} \subseteq obstacles)
  BY <1>1, <1>3 DEF DetectObstacles, Ahead
<1>4. QED
  BY <1>2, <1>3

-----------------------------------------------------------------------------
\* The look at the obstacles is the only step that gives a direction.
LEMMA LookPreserves ==
  ASSUME BehaviorInv, Look
  PROVE  BehaviorInv'
<1> USE DEF BehaviorInv, worldVars
<1>1. PICK answered \in Answers(DistEnabled) :
        /\ sure' = (answered = DistEnabled)
        /\ LET obs == DetectObstacles(answered)
           IN \/ obs = "none" /\ MoveTowardsLight
              \/ Avoid(obs)
  BY DEF Look
<1>2. /\ main = "look" /\ main' = "begin"
      /\ UNCHANGED <<behavior, bearing, obstacles, light, started, blind>>
      /\ bearing \in Direction
  BY DEF Look, TypeOK
<1> DEFINE obs == DetectObstacles(answered)
<1>3. obs \in {"none", "left", "front", "right"}
  BY DEF DetectObstacles
<1>4. /\ obs = "none"  => heading' = bearing /\ togo' = 2
      /\ obs = "left"  => heading' = "right" /\ togo' = 2
      /\ obs = "right" => heading' = "left" /\ togo' = 2
      /\ obs = "front" => heading' = "elsewhere" /\ togo' = 4
  BY <1>1 DEF MoveTowardsLight, Avoid
<1> HIDE DEF obs
<1>5. TypeOK'
  BY <1>1, <1>2, <1>3, <1>4 DEF TypeOK, Direction, Ahead
<1>6. Budget'
  BY <1>2, <1>3, <1>4 DEF Budget, Remaining, TypeOK
<1>7. HeadsWhereClear'
  <2>1. SUFFICES ASSUME sure', SensesAhead, heading' \in Ahead
                 PROVE  obstacles \cap {heading', "front"} = {}
    BY <1>2 DEF HeadsWhereClear
  <2>2. obs = DetectObstacles(DistEnabled)
    BY <1>1, <2>1 DEF obs
  <2>3. /\ obs = "none"  => obstacles \cap Ahead = {}
        /\ obs = "left"  => obstacles \cap {"right", "front"} = {}
        /\ obs = "right" => obstacles \cap {"left", "front"} = {}
    BY <2>1, <2>2, DirectionIsClear
  <2>4. QED
    BY <1>3, <1>4, <2>1, <2>3 DEF Ahead
<1>8. QED
  BY <1>5, <1>6, <1>7

\* Every other step leaves the direction alone, or what it was chosen for.
LEMMA NextPreserves == BehaviorInv /\ [Next]_vars => BehaviorInv'
<1> SUFFICES ASSUME BehaviorInv, [Next]_vars
             PROVE  BehaviorInv'
  OBVIOUS
<1> USE DEF BehaviorInv, TypeOK, Budget, Remaining, HeadsWhereClear, stepVars, worldVars, histVars
<1>1. CASE Choose
  BY <1>1 DEF Choose
<1>2. CASE Rest
  BY <1>2 DEF Rest
<1>3. CASE SeekLight
  <2>1. PICK answered \in Answers(LightEnabled) :
          /\ main' = IF LightSource(answered) = "here" THEN "rest" ELSE "look"
          /\ bearing' = LightSource(answered)
          /\ blind' = ~ReadLight(answered)
    BY <1>3 DEF SeekLight
  <2>2. LightSource(answered) \in {"here"} \cup Direction
    BY DEF LightSource
  <2>3. blind' \in BOOLEAN
    BY <2>1
  <2>4. main = "seek" /\ UNCHANGED <<behavior, heading, togo, worldVars, started, sure>>
    BY <1>3 DEF SeekLight
  <2>5. main' \in {"rest", "look"} /\ (main' = "look" => bearing' # "here")
    BY <2>1
  <2>6. TypeOK'
    BY <2>1, <2>2, <2>3, <2>4, <2>5
  <2>7. QED
    BY <2>4, <2>5, <2>6
<1>4. CASE Look
  BY <1>4, LookPreserves
<1>5. CASE BeginMovement
  BY <1>5 DEF BeginMovement
<1>6. CASE EndMovement
  BY <1>6 DEF EndMovement
<1>7. ASSUME NEW b \in 0 .. 2, SetBehavior(b)
      PROVE  BehaviorInv'
  BY <1>7 DEF SetBehavior
<1>8. CASE ObstaclesMove
  BY <1>8 DEF ObstaclesMove
<1>9. CASE LightMoves
  BY <1>9 DEF LightMoves
<1>10. CASE UNCHANGED vars
  BY <1>10 DEF vars
<1>11. QED
  BY <1>1, <1>2, <1>3, <1>4, <1>5, <1>6, <1>7, <1>8, <1>9, <1>10 DEF Next, ExecuteBehavior

-----------------------------------------------------------------------------
LEMMA BehaviorInvariant == Spec => []BehaviorInv
  BY InitBehaviorInv, NextPreserves, PTL DEF Spec

\* The variables keep their types; a step of the light follower has as many
\* movements to go as where it heads takes.
THEOREM BehaviorTypes == Spec => []TypeOK
<1>1. BehaviorInv => TypeOK
  BY DEF BehaviorInv
<1>2. QED
  BY <1>1, BehaviorInvariant, PTL

\* However often behavior is written, the light follower begins four movements
\* at most once it is switched off.
THEOREM StepsAreBounded == Spec => []SwitchIsPrompt
<1>1. BehaviorInv => SwitchIsPrompt
  BY DEF BehaviorInv, TypeOK, Budget, Remaining, SwitchIsPrompt
<1>2. QED
  BY <1>1, BehaviorInvariant, PTL

\* However the distance sensors are arranged, with the first three ahead, a step
\* whose sensors have answered and that turns to a direction ahead finds it and
\* the front clear of obstacles that have stayed where they were.
THEOREM StepsAvoidObstacles == Spec => []HeadsWhereClear
<1>1. BehaviorInv => HeadsWhereClear
  BY DEF BehaviorInv
<1>2. QED
  BY <1>1, BehaviorInvariant, PTL
=============================================================================
