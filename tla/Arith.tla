------------------------------- MODULE Arith --------------------------------
(* Machine integers of a given width, as the executors of both cores use     *)
(* them. A byte has BYTE bits (8 in the code, fewer when TLC enumerates the  *)
(* values), a word four bytes and a double word eight.                       *)
EXTENDS Integers

LOCAL INSTANCE FiniteSetsExt

CONSTANT BYTE

(* 2^n, as a function: the provers know nothing of the power of a variable. *)
Pow2[n \in Nat] == IF n = 0 THEN 1 ELSE 2 * Pow2[n - 1]

(* Masks that select a shift amount take the number of bits to be a power    *)
(* of two.                                                                   *)
ASSUME ByteAssumption == BYTE \in Nat /\ \E k \in 0 .. BYTE : BYTE = Pow2[k]

WORD == 4 * BYTE
DOUBLE == 8 * BYTE

(* Reinterpretation of an integer as an unsigned or a signed one of a width. *)
Unsigned(x, width) == x % Pow2[width]
Signed(x, width) ==
    LET u == x % Pow2[width] IN IF u >= Pow2[width - 1] THEN u - Pow2[width] ELSE u

MinInt(width) == -Pow2[width - 1]

(* The operations on bits, by the set of the bits that are one. *)
IsOne(x, i) == (x \div Pow2[i]) % 2 = 1
FromBits(bits, width) == Signed(MapThenSumSet(LAMBDA i : Pow2[i], bits), width)
BitXor(x, y, width) == FromBits({i \in 0 .. width - 1 : IsOne(x, i) # IsOne(y, i)}, width)
BitOr(x, y, width) == FromBits({i \in 0 .. width - 1 : IsOne(x, i) \/ IsOne(y, i)}, width)
BitAnd(x, y, width) == FromBits({i \in 0 .. width - 1 : IsOne(x, i) /\ IsOne(y, i)}, width)

(* Division of C truncates toward zero; the remainder has the dividend's sign. *)
Abs(x) == IF x < 0 THEN -x ELSE x
Quotient(x, y) == IF (x < 0) = (y < 0) THEN Abs(x) \div Abs(y) ELSE -(Abs(x) \div Abs(y))
Remainder(x, y) == x - y * Quotient(x, y)

(* The upper half of a product kept in twice the width. *)
High(product, width) == Signed((product % Pow2[2 * width]) \div Pow2[width], width)

Truth(b) == IF b THEN 1 ELSE 0
Smaller(x, y) == IF x < y THEN x ELSE y
Greater(x, y) == IF x < y THEN y ELSE x
=============================================================================
