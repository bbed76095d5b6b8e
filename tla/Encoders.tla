------------------------------ MODULE Encoders ------------------------------
(***************************************************************************)
(* Counts of the four wheels (minibot/encoders.cpp) and how the base reads *)
(* them from the driver (minibot/base.cpp, minibot/i2c.cpp).               *)
(*                                                                         *)
(* The driver counts on and on; what is read is put together from single   *)
(* bytes to a number of 16 bits, which wraps.  Bytes that are not read, and*)
(* what the wheels turn between the eight transfers, make it differ from   *)
(* the count: by one of Errors.  If any transfer fails, zeros are read.    *)
(***************************************************************************)
EXTENDS Integers

CONSTANTS
  Half,     \* 2^15: a number of 16 bits is from -Half to Half - 1
  Blur,     \* how far off a wheel's count may be
  Errors    \* how the four readings may be off together

Wheel == {"front", "back", "left", "right"}

ASSUME WidthAssumption  == Half \in Nat \ {0} /\ Blur \in Nat /\ Blur < Half
ASSUME ErrorsAssumption == Errors \subseteq [Wheel -> -Blur .. Blur]

Encoders == [Wheel -> Int]
NoCount  == [w \in Wheel |-> 0]

Plus(a, b)  == [w \in Wheel |-> a[w] + b[w]]
Minus(a, b) == [w \in Wheel |-> a[w] - b[w]]

\* The sum of all wheels, each taken with a sign.
Sum(e, sign) ==
  sign["front"] * e["front"] + sign["back"] * e["back"] +
  sign["left"] * e["left"] + sign["right"] * e["right"]

Abs(x) == IF x < 0 THEN -x ELSE x

\* The division of C rounds towards zero.
Average(e) ==
  LET s == Sum(e, [w \in Wheel |-> 1])
  IN IF s < 0 THEN -((-s) \div 4) ELSE s \div 4

\* The number of 16 bits that has the last bits of x.
Int16(x) == IF -Half <= x /\ x < Half THEN x ELSE ((x + Half) % (2 * Half)) - Half

\* What may be read with the counts at pos, if no transfer fails.
Readings(pos) == {[w \in Wheel |-> Int16(pos[w] + e[w])] : e \in Errors}
=============================================================================
