------------------------------ MODULE Movement ------------------------------
(***************************************************************************)
(* One movement of the base (rotate(), moveX() and moveY() in              *)
(* minibot/base.cpp) with the encoders it goes by and the time it is given.*)
(* Where module Base is about tasks that disturb each other, this one is   *)
(* about what a movement knows of the wheels.                              *)
(*                                                                         *)
(* The control law is left out: while a movement drives, the wheels turn   *)
(* in any of the ways in Motions from one reading to the next.             *)
(***************************************************************************)
EXTENDS Encoders

CONSTANTS
  Offset,            \* 100 ms, given to every movement
  Near,              \* 100: an average error below it ends a movement
  Motions,           \* how the wheels may turn between two readings
  ReadsFail,         \* TRUE: transfers on the bus may fail
  MaxCount           \* bound: the counts reached

\* What an iteration of a movement's loop is taken to last, in ms; its readings, up
\* to 100 ms for each transfer that fails, and its writes take time besides.
Tick == 10

ASSUME TimeAssumption    == Offset \in Nat /\ Near \in Nat \ {0}
ASSUME MotionsAssumption == Motions \subseteq Encoders /\ ReadsFail \in BOOLEAN
ASSUME CountAssumption   == MaxCount \in Nat

VARIABLES
  phase,     \* "idle", "drive", "brake", "wait", "report", "done"
  kind,      \* "rotate", "moveX" or "moveY"
  steps,     \* estSteps, how far to go
  e0,        \* the encoders at the start, as read
  k,         \* what the loop counts of its time
  ended,     \* how the loop ended: "arrived", "time", "aborted"
  reported,  \* what the movement returns, in steps summed over its wheels
  count,     \* the driver's counts
  motion,    \* how the wheels have turned since the reading before
  origin,    \* history: the counts when e0 was read
  lost       \* history: a reading of this movement has failed

taskVars  == <<phase, kind, steps, e0, k, ended, reported>>
worldVars == <<count, motion>>
mvVars    == <<taskVars, worldVars, origin, lost>>

Kind == {"rotate", "moveX", "moveY"}

\* Which way each wheel turns in a movement forward.
Direction == [
  rotate |-> [front |-> -1, back |-> 1, left |-> -1, right |-> 1],
  moveX  |-> [front |-> 0,  back |-> 0, left |-> 1,  right |-> 1],
  moveY  |-> [front |-> 1,  back |-> 1, left |-> 0,  right |-> 0]]

Driven(m) == IF m = "rotate" THEN 4 ELSE 2

-----------------------------------------------------------------------------
\* 1.2 steps per millisecond, and the offset.  The limits that the settings give a
\* movement are without effect: what clamp() returns is dropped.
Estimate(s) == Offset + (5 * Abs(s)) \div 6

MaxTime == Estimate(steps) + 1

-----------------------------------------------------------------------------
MvInit ==
  /\ phase = "idle" /\ kind = "rotate" /\ steps = 0 /\ e0 = NoCount /\ k = 0
  /\ ended = "none" /\ reported = 0
  /\ count = NoCount /\ motion = NoCount
  /\ origin = NoCount /\ lost = FALSE

\* The wheels turn.
Turn ==
  /\ motion' \in Motions
  /\ count' = Plus(count, motion')
  /\ \A w \in Wheel : Abs(count'[w]) <= MaxCount

\* A reading of the counts, in which transfers may fail.
Read(r) ==
  \/ r \in Readings(count) /\ UNCHANGED lost
  \/ ReadsFail /\ r = NoCount /\ lost' = TRUE

\* stop(), abortMove = false and the first reading.
Begin(m, s) ==
  /\ phase = "idle"
  /\ phase' = "drive" /\ kind' = m /\ steps' = s /\ k' = 0
  /\ origin' = count
  /\ \/ e0' \in Readings(count) /\ lost' = FALSE
     \/ ReadsFail /\ e0' = NoCount /\ lost' = TRUE
  /\ UNCHANGED <<ended, reported, worldVars>>

\* ef = e0 + Encoders(...), the goal.
Goal == [w \in Wheel |-> e0[w] + Direction[kind][w] * steps]

\* Mutant: the errors cancel out, their absolute values are not taken.
TotalError_Signed(r) ==
  LET err(w) == Abs(Direction[kind][w]) * (r[w] - Goal[w])
  IN Abs(err("front") + err("back") + err("left") + err("right"))

\* The errors of the wheels that are driven, added up.
TotalError(r) ==
  LET err(w) == Abs(Direction[kind][w]) * Abs(r[w] - Goal[w])
  IN err("front") + err("back") + err("left") + err("right")

LeaveLoop(how) == phase' = "brake" /\ ended' = how

\* An iteration of the loop: close enough, or on for another period.
Iterate ==
  /\ phase = "drive" /\ k < MaxTime
  /\ \E r \in Readings(count) \cup {NoCount} :
       /\ Read(r)
       /\ IF TotalError(r) < Driven(kind) * Near
            THEN LeaveLoop("arrived") /\ UNCHANGED <<k, worldVars>>
            ELSE Turn /\ k' = k + Tick /\ UNCHANGED <<phase, ended>>
  /\ UNCHANGED <<kind, steps, e0, reported, origin>>

OutOfTime ==
  /\ phase = "drive" /\ k >= MaxTime
  /\ LeaveLoop("time")
  /\ UNCHANGED <<kind, steps, e0, k, reported, worldVars, origin, lost>>

\* Another task has called stop().
Aborted ==
  /\ phase = "drive"
  /\ LeaveLoop("aborted")
  /\ UNCHANGED <<kind, steps, e0, k, reported, worldVars, origin, lost>>

\* stop() at the end of the loop; the wheels run on for a while.
Brake ==
  /\ phase = "brake"
  /\ phase' = "wait"
  /\ UNCHANGED <<kind, steps, e0, k, ended, reported, worldVars, origin, lost>>

Coast ==
  /\ phase = "wait"
  /\ Turn
  /\ UNCHANGED <<taskVars, origin, lost>>

\* waitStop(): what the wheels turn averages to zero, or cannot be read.
WaitStop ==
  /\ phase = "wait"
  /\ ReadsFail \/ Average(motion) = 0
  /\ phase' = "report"
  /\ UNCHANGED <<kind, steps, e0, k, ended, reported, worldVars, origin, lost>>

\* The last reading; what it and the first one differ by is returned.
Report ==
  /\ phase = "report"
  /\ \E r \in Readings(count) \cup {NoCount} :
       /\ Read(r)
       /\ reported' = Sum(Minus(r, e0), Direction[kind])
  /\ phase' = "done"
  /\ UNCHANGED <<kind, steps, e0, k, ended, worldVars, origin>>

\* The movement is over: its variables are gone.
Return ==
  /\ phase = "done"
  /\ phase' = "idle" /\ kind' = "rotate" /\ steps' = 0 /\ e0' = NoCount /\ k' = 0
  /\ ended' = "none" /\ reported' = 0
  /\ origin' = NoCount /\ lost' = FALSE
  /\ UNCHANGED worldVars

Go == Iterate \/ OutOfTime \/ Brake \/ Coast \/ WaitStop \/ Report

MvNext == (\E m \in Kind, s \in Int : Begin(m, s)) \/ Go \/ Aborted \/ Return

MvSpec == MvInit /\ [][MvNext]_mvVars

-----------------------------------------------------------------------------
(***************************************************************************)
(* Properties.                                                             *)
(***************************************************************************)

\* The variables have their types.
MvTypeOK ==
  /\ phase \in {"idle", "drive", "brake", "wait", "report", "done"}
  /\ kind \in Kind /\ steps \in Int
  /\ e0 \in Encoders /\ k \in Nat
  /\ ended \in {"none", "arrived", "time", "aborted"} /\ reported \in Int
  /\ count \in Encoders /\ motion \in Encoders
  /\ origin \in Encoders /\ lost \in BOOLEAN

\* The counts fit into 16 bits, those read of them too.
InRange(c) == \A w \in Wheel : -Half <= c[w] - Blur /\ c[w] + Blur < Half

\* No reading of the movement has been lost or has wrapped.
Trusted == ~lost /\ InRange(origin) /\ InRange(count)

\* A movement that ends because it has arrived is where it was to go, as near as
\* the threshold and the encoders allow - unless a reading has failed, which reads as
\* zeros, or a count has left 16 bits, which reads as a jump.
ArrivedMeansThere ==
  phase = "brake" /\ ended = "arrived" /\ Trusted
    => LET off(w) == Abs(Direction[kind][w])
                       * Abs(count[w] - origin[w] - Direction[kind][w] * steps)
       IN off("front") + off("back") + off("left") + off("right")
            < Driven(kind) * (Near + 2 * Blur)

\* What a movement returns is how far its wheels have turned since it began,
\* running on after the last stop() included, unless a reading has failed or
\* wrapped: as a movement that has arrived, one that was cut short is reported
\* by what it did.
ReportIsTrue ==
  phase = "done" /\ Trusted
    => Abs(reported - Sum(Minus(count, origin), Direction[kind]))
         <= 2 * Blur * Driven(kind)
=============================================================================
