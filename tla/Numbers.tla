------------------------------- MODULE Numbers -------------------------------
(***************************************************************************)
(* The exact value of a JSON number, and its conversion to a Go integer    *)
(* type (number.go).  An integer type is its range; a conversion between   *)
(* Go's own types keeps the low bits, and only the checks before it make   *)
(* sure that nothing is lost.                                              *)
(***************************************************************************)
EXTENDS Integers

CONSTANTS
  NumberText,     \* [number text -> its parts: negative, digits, fraction, exponent]
  Int64, Uint64   \* the two widest types, with ranges as small as a run needs

IntegerType == [min : Int, max : Int]

ASSUME WidestTypes ==
  /\ Int64 \in IntegerType /\ Int64.min < 0 /\ Int64.max = -(Int64.min + 1)
  /\ Uint64 \in IntegerType /\ Uint64.min = 0 /\ Uint64.max >= Int64.max

Holds(type, n) == type.min <= n /\ n <= type.max

\* Go's conversion T(n): what the bits that T keeps of n stand for.
Truncate(type, n) == type.min + ((n - type.min) % (type.max - type.min + 1))

\* int64(n) or uint64(n) for a signed or an unsigned type.
Widest(type) == IF type.min < 0 THEN Int64 ELSE Uint64

-----------------------------------------------------------------------------
(* parseJSONNumberRat: digits and exponent as a fraction.  A text whose    *)
(* exponent no int can hold has no parts.                                  *)

Parsed(text) == text \in DOMAIN NumberText

parseJSONNumberRat(parts) ==
  LET numerator == IF parts.negative THEN -parts.digits ELSE parts.digits
      scale     == parts.fraction - parts.exponent
  IN  IF scale < 0 THEN [num |-> numerator * 10^(-scale), den |-> 1]
                   ELSE [num |-> numerator, den |-> 10^scale]

NoInteger  == [ok |-> FALSE, value |-> 0]
Integer(n) == [ok |-> TRUE, value |-> n]

\* Mutant: the value is cut down to its word before it is checked.
convertBigIntUnchecked(type, n) ==
  LET word == Truncate(Widest(type), n)
  IN  IF Holds(type, word) THEN Integer(Truncate(type, word)) ELSE NoInteger

convertBigInt(type, n) ==
  LET word == Truncate(Widest(type), n)
  IN  IF Holds(Widest(type), n) /\ Holds(type, word)
        THEN Integer(Truncate(type, word))
        ELSE NoInteger

\* The conversion of a fraction: toIntegerAt once the text is parsed.
IntegerOf(type, rat) ==
  IF rat.num % rat.den = 0 THEN convertBigInt(type, rat.num \div rat.den) ELSE NoInteger

toIntegerAt(type, source) ==
  IF source.kind = "number" /\ Parsed(source.text)
    THEN IntegerOf(type, parseJSONNumberRat(NumberText[source.text]))
    ELSE NoInteger

\* reflect's OverflowInt and OverflowUint: does the value survive in fewer bits?
Overflows(type, n) == Truncate(type, n) # n
=============================================================================
