------------------------------ MODULE Edwards ------------------------------
(***************************************************************************)
(* Which owner keys are valid (pkg/xns/edwards.go): decoding a point of    *)
(* the twisted Edwards curve -x^2 + y^2 = 1 + D x^2 y^2 over the integers  *)
(* modulo P and multiplying it by the order L of the subgroup.  The code's *)
(* P is 2^255 - 19; P, D and L are parameters here.  An encoded point is   *)
(* a number: y in the low bits, the sign of x in the bit SignBit.          *)
(* Arithmetic on integers of any size is the library's, not the code's.    *)
(***************************************************************************)
EXTENDS Integers, Sequences

CONSTANTS
  P,        \* the prime, 5 modulo 8
  D,        \* the curve's constant, not a square modulo P
  L,        \* the order of the subgroup, a prime
  SignBit   \* a power of two, the first above P

ASSUME FieldAssumption ==
  /\ P \in Nat /\ P % 8 = 5
  /\ \A d \in 2..P - 1 : P % d # 0
  /\ D \in 1..P - 1
  /\ L \in Nat /\ L % 2 = 1
  /\ SignBit \in Nat /\ P < SignBit

Residues == 0..P - 1

Encodings == 0..2 * SignBit - 1

\* The number that bytes stand for, lowest byte first.
Number(raw) ==
  LET value[k \in 0..Len(raw)] == IF k = Len(raw) THEN 0 ELSE raw[k + 1] + 256 * value[k + 1]
  IN value[0]

Identity == [x |-> 0, y |-> 1]

NoPoint == [x |-> -1, y |-> -1]

Power(a, n) ==
  LET power[i \in 0..n] == IF i = 0 THEN 1 ELSE (power[i - 1] * a) % P
  IN power[n]

\* There is none for 0, and the code would go on with a nil pointer: any number
\* stands for that here, and NeverDividesByZero (Wire) says that it never happens.
ModInverse(a) == CHOOSE b \in Residues : a % P # 0 => (a * b) % P = 1

RootOfMinusOne == Power(2, (P - 1) \div 4)

\* What makes the curve's addition complete: edD is not a square, and the square
\* of edI is -1.
ASSUME CurveAssumption ==
  /\ \A r \in Residues : (r * r) % P # D
  /\ (RootOfMinusOne * RootOfMinusOne) % P = P - 1

\* The fraction turned over.
SwappedDenominator(y) == (y * y - 1) % P

\* What decodePoint divides by.
XDenominator(y) == (D * y * y + 1) % P

\* A square root of a if there is one, by Power(a, (P + 3) / 8).
RootCandidate(a) ==
  LET r == Power(a, (P + 3) \div 8)
  IN IF (r * r) % P = a THEN r ELSE (r * RootOfMinusOne) % P

DecodePoint(raw) ==
  LET y    == raw % SignBit
      sign == raw \div SignBit
      xx   == ((y * y - 1) * ModInverse(XDenominator(y))) % P
      x    == RootCandidate(xx)
  IN IF y >= P \/ (x * x) % P # xx \/ (x = 0 /\ sign = 1) THEN NoPoint
     ELSE [x |-> IF x % 2 # sign THEN P - x ELSE x, y |-> y]

\* D x1 x2 y1 y2, which both denominators of a sum have.
Twist(a, b) == (((D * a.x * b.x) % P) * ((a.y * b.y) % P)) % P

AddPoint(a, b) ==
  [x |-> ((a.x * b.y + b.x * a.y) * ModInverse(1 + Twist(a, b))) % P,
   y |-> ((a.y * b.y + a.x * b.x) * ModInverse(1 - Twist(a, b))) % P]

\* n without its last i bits.
Shifted(n, i) ==
  LET rest[k \in 0..i] == IF k = 0 THEN n ELSE rest[k - 1] \div 2
  IN rest[i]

BitLen(n) == CHOOSE k \in 0..n : Shifted(n, k) = 0 /\ \A j \in 0..k - 1 : Shifted(n, j) # 0

Bit(n, i) == Shifted(n, i) % 2

\* The loop of scalarMult after each of its rounds.
Rounds(p, n) ==
  LET round[i \in 0..BitLen(n)] ==
        IF i = 0 THEN [result |-> Identity, addend |-> p]
        ELSE LET last == round[i - 1]
             IN [result |-> IF Bit(n, i - 1) = 1 THEN AddPoint(last.result, last.addend)
                            ELSE last.result,
                 addend |-> AddPoint(last.addend, last.addend)]
  IN round

ScalarMult(p, n) == Rounds(p, n)[BitLen(n)].result

\* Any point but the identity.
ValidOnCurve(raw) ==
  LET p == DecodePoint(raw) IN p # NoPoint /\ p # Identity

ValidOwnerPoint(raw) ==
  LET p == DecodePoint(raw)
  IN p # NoPoint /\ p # Identity /\ ScalarMult(p, L) = Identity

-----------------------------------------------------------------------------
\* The reference: the curve by its equation, multiples by repeated addition,
\* and the prime-order subgroup as the multiples of 8 (the cofactor).

Curve == {p \in [x : Residues, y : Residues] :
            (p.y * p.y - p.x * p.x - 1 - ((D * p.x * p.x) % P) * ((p.y * p.y) % P)) % P = 0}

Times(n, p) ==
  LET sum[i \in 0..n] == IF i = 0 THEN Identity ELSE AddPoint(sum[i - 1], p)
  IN sum[n]

Encode(p) == p.y + SignBit * (p.x % 2)

\* The curve has 8 L points, so that many times any of them is the identity.
ASSUME OrderAssumption == \A p \in Curve : Times(8 * L, p) = Identity

PrimeSubgroup == {Times(8, p) : p \in Curve}

IsSubgroupEncoding(raw) == \E p \in PrimeSubgroup \ {Identity} : Encode(p) = raw

\* Some denominator is zero when raw is checked.
DividesByZero(raw) ==
  \/ XDenominator(raw % SignBit) = 0
  \/ /\ DecodePoint(raw) # NoPoint
     /\ LET rounds == Rounds(DecodePoint(raw), L)
        IN \E k \in 0..BitLen(L) - 1 :
             \/ Twist(rounds[k].result, rounds[k].addend) \in {1, P - 1}
             \/ Twist(rounds[k].addend, rounds[k].addend) \in {1, P - 1}
=============================================================================
