---------------------------- MODULE EdwardsProofs ----------------------------
(***************************************************************************)
(* The arithmetic behind owner keys, for every prime, constant and order   *)
(* that the assumptions allow, and so for those of Ed25519: the integers   *)
(* modulo P are a field; the curve's addition is defined for every two     *)
(* points and makes them a group, so that checking a key never divides by  *)
(* zero and doubling and adding gives the multiple; every point has one    *)
(* key and is decoded from it; and the keys accepted are therefore the     *)
(* encodings of the prime-order subgroup.  Congruences are stated as       *)
(* polynomials that vanish modulo P.                                       *)
(***************************************************************************)
EXTENDS Edwards, WellFoundedInduction, TLAPS

\* The least of some naturals.
LEMMA Least ==
  ASSUME NEW T \in SUBSET Nat, T # {}
  PROVE  \E x \in T : \A y \in T : x <= y
<1> DEFINE R == OpToRel(<, Nat)
<1>1. IsWellFoundedOn(R, Nat)
  BY NatLessThanWellFounded
<1> HIDE DEF R
<1>2. PICK x \in T : \A y \in T : ~(<<y, x>> \in R)
  BY <1>1, WFMin
<1>3. \A y \in T : <<y, x>> \in Nat \X Nat
  OBVIOUS
<1>4. \A y \in T : y < x => <<y, x>> \in R
  BY <1>3 DEF R, OpToRel
<1>5. \A y \in T : ~(y < x) /\ x \in Nat /\ y \in Nat
  BY <1>2, <1>4
<1>6. \A y \in T : x <= y
  BY <1>5
<1> QED
  BY <1>6

-----------------------------------------------------------------------------
\* The integers modulo P.

\* a is 0 modulo P.
Vanishes(a) == \E k \in Int : a = P * k

LEMMA Prime == P \in Nat /\ P > 4 /\ P % 2 = 1 /\ \A d \in 2..P - 1 : P % d # 0
BY FieldAssumption

LEMMA ResiduesAreInts == \A r \in Residues : r \in Int
BY Prime DEF Residues

LEMMA Division ==
  ASSUME NEW n \in Nat, n > 0, NEW a \in Int
  PROVE  a \div n \in Int /\ a % n \in 0..n - 1 /\ a = n * (a \div n) + (a % n)
OBVIOUS

LEMMA Reduced == \A a \in Int : a % P \in Residues /\ Vanishes((a % P) - a)
<1> SUFFICES ASSUME NEW a \in Int
             PROVE  a % P \in Residues /\ Vanishes((a % P) - a)
  OBVIOUS
<1>1. P \in Nat /\ P > 0
  BY Prime
<1>2. a \div P \in Int /\ a % P \in 0..P - 1 /\ a = P * (a \div P) + (a % P)
  BY <1>1, Division
<1>3. \A n \in Nat, q \in Int, r \in Int : a = n * q + r => r - a = n * (-q) /\ -q \in Int
  OBVIOUS
<1>4. (a % P) - a = P * (-(a \div P)) /\ -(a \div P) \in Int
  BY <1>1, <1>2, <1>3
<1> QED
  BY <1>2, <1>4 DEF Vanishes, Residues

\* What vanishes is closed under sums, differences and multiples.
LEMMA VanishingSum == \A a, b \in Int : Vanishes(a) /\ Vanishes(b) => Vanishes(a + b) /\ Vanishes(a - b)
<1>1. \A n \in Nat, j \in Int, k \in Int : n * j + n * k = n * (j + k) /\ n * j - n * k = n * (j - k)
  OBVIOUS
<1>2. P \in Nat
  BY Prime
<1> SUFFICES ASSUME NEW a \in Int, NEW b \in Int, Vanishes(a), Vanishes(b)
             PROVE  Vanishes(a + b) /\ Vanishes(a - b)
  OBVIOUS
<1> PICK j \in Int : a = P * j
  BY DEF Vanishes
<1> PICK k \in Int : b = P * k
  BY DEF Vanishes
<1>3. a + b = P * (j + k) /\ a - b = P * (j - k) /\ j + k \in Int /\ j - k \in Int
  BY <1>1, <1>2
<1> QED
  BY <1>3 DEF Vanishes

LEMMA VanishingMultiple == \A a, b \in Int : Vanishes(a) => Vanishes(a * b) /\ Vanishes(b * a)
<1>1. \A n \in Nat, j \in Int, b \in Int : (n * j) * b = n * (j * b) /\ b * (n * j) = n * (j * b) /\ j * b \in Int
  OBVIOUS
<1>2. P \in Nat
  BY Prime
<1> SUFFICES ASSUME NEW a \in Int, NEW b \in Int, NEW j \in Int, a = P * j
             PROVE  Vanishes(a * b) /\ Vanishes(b * a)
  BY DEF Vanishes
<1>3. a * b = P * (j * b) /\ b * a = P * (j * b) /\ j * b \in Int
  BY <1>1, <1>2
<1> QED
  BY <1>3 DEF Vanishes

LEMMA NoSmallVanishes == \A a \in Int : -P < a /\ a < P /\ Vanishes(a) => a = 0
<1>1. \A n \in Nat, k \in Int : -n < n * k /\ n * k < n => n * k = 0
  OBVIOUS
<1> QED
  BY <1>1, Prime DEF Vanishes

\* Which residue a number has.
LEMMA ResidueOf == \A a \in Int, r \in Residues : a % P = r <=> Vanishes(r - a)
<1> SUFFICES ASSUME NEW a \in Int, NEW r \in Residues
             PROVE  a % P = r <=> Vanishes(r - a)
  OBVIOUS
<1>1. a % P \in Residues /\ Vanishes((a % P) - a) /\ r \in Int /\ a % P \in Int
  <2>1. a % P \in Residues /\ Vanishes((a % P) - a)
    BY Reduced
  <2>2. \A s \in Residues : s \in Int
    BY Prime DEF Residues
  <2> QED
    BY <2>1, <2>2
<1>2. ASSUME Vanishes(r - a)
      PROVE  a % P = r
  <2> DEFINE s == a % P
  <2> HIDE DEF s
  <2>1. s \in Residues /\ Vanishes(s - a) /\ s \in Int
    BY <1>1 DEF s
  <2>2. (r - a) - (s - a) = r - s /\ r - s \in Int /\ -P < r - s /\ r - s < P
    BY <2>1, Prime DEF Residues
  <2>3. Vanishes(r - s)
    BY <1>1, <1>2, <2>1, <2>2, VanishingSum
  <2> QED
    BY <2>1, <2>2, <2>3, NoSmallVanishes DEF s, Residues
<1> QED
  BY <1>1, <1>2

LEMMA ZeroResidue == \A a \in Int : a % P = 0 <=> Vanishes(a)
<1> SUFFICES ASSUME NEW a \in Int
             PROVE  a % P = 0 <=> Vanishes(a)
  OBVIOUS
<1>1. 0 \in Residues /\ 0 \in Int
  BY Prime DEF Residues
<1>2. a % P = 0 <=> Vanishes(0 - a)
  BY <1>1, ResidueOf
<1>3. 0 - a \in Int /\ 0 - (0 - a) = a
  OBVIOUS
<1>4. Vanishes(0)
  BY Prime DEF Vanishes
<1>5. Vanishes(a) <=> Vanishes(0 - a)
  BY <1>1, <1>3, <1>4, VanishingSum
<1> QED
  BY <1>2, <1>5

LEMMA OneIsNotZero == ~Vanishes(1)
BY NoSmallVanishes, Prime

\* n is the residue of a multiple of a.
IsMultiple(n, a) == \E x \in Int : Vanishes(a * x - n)

\* The least positive residue of a multiple of a divides P, so it is 1.
LEMMA InverseExists == \A a \in Int : ~Vanishes(a) => \E b \in Int : Vanishes(a * b - 1)
<1> SUFFICES ASSUME NEW a \in Int, ~Vanishes(a)
             PROVE  IsMultiple(1, a)
  BY DEF IsMultiple
<1> DEFINE Multiples == {n \in 1..P - 1 : IsMultiple(n, a)}
<1>1. Multiples # {}
  <2>1. a % P \in Residues /\ Vanishes((a % P) - a) /\ a % P # 0
    BY Reduced, ZeroResidue
  <2> DEFINE n == a % P
  <2>2. n \in 1..P - 1 /\ n \in Int
    BY <2>1, Prime DEF Residues
  <2> HIDE DEF n
  <2>3. n - a \in Int /\ a * (-1) - (-n) = n - a /\ 0 - (n - a) = a * 1 - n /\ 0 \in Int
    BY <2>2
  <2>4. Vanishes(n - a) /\ Vanishes(0)
    BY <2>1, Prime DEF n, Vanishes
  <2>5. Vanishes(a * 1 - n)
    BY <2>3, <2>4, VanishingSum
  <2>6. IsMultiple(n, a)
    <3>1. \E x \in Int : Vanishes(a * x - n)
      <4>1. 1 \in Int
        OBVIOUS
      <4> QED
        BY <2>5, <4>1, Zenon
    <3> QED
      BY <3>1 DEF IsMultiple
  <2> QED
    BY <2>2, <2>6
<1>2. PICK g \in Multiples : \A n \in Multiples : g <= n
  <2>1. Multiples \in SUBSET Nat
    BY Prime
  <2> HIDE DEF Multiples
  <2> QED
    BY <1>1, <2>1, Least
<1>3. g \in 1..P - 1 /\ g \in Nat /\ g > 0 /\ IsMultiple(g, a)
  BY Prime
<1>4. PICK x \in Int : Vanishes(a * x - g)
  BY <1>3 DEF IsMultiple
<1>5. P % g = 0
  <2> DEFINE q == P \div g
             r == P % g
  <2>1. q \in Int /\ r \in 0..g - 1 /\ P = g * q + r
    BY <1>3, Prime, Division
  <2> HIDE DEF q, r
  <2> SUFFICES ASSUME r # 0
               PROVE  FALSE
    BY <2>1 DEF r
  <2>2. r \in Int /\ r \in 1..P - 1 /\ r < g
    BY <1>3, <2>1, Prime
  <2>3. a * x - g \in Int /\ (a * x - g) * (-q) \in Int /\ -q \in Int /\ x * (-q) \in Int /\ P \in Int
    BY <1>3, <2>1, Prime
  <2>4. (a * x - g) * (-q) - P = a * (x * (-q)) - r
    <3>1. \A p, j, k, m, s, y \in Int : p = k * m + s => (j * y - k) * (-m) - p = j * (y * (-m)) - s
      OBVIOUS
    <3> QED
      BY <1>3, <2>1, <2>2, <2>3, <3>1
  <2>5. Vanishes((a * x - g) * (-q))
    BY <1>4, <2>3, VanishingMultiple
  <2>6. Vanishes(P)
    <3>1. P = P * 1 /\ 1 \in Int
      BY Prime
    <3> QED
      BY <3>1, Zenon DEF Vanishes
  <2>7. Vanishes(a * (x * (-q)) - r)
    BY <2>3, <2>4, <2>5, <2>6, VanishingSum
  <2>8. IsMultiple(r, a)
    BY <2>3, <2>7 DEF IsMultiple
  <2>9. r \in Multiples
    BY <2>2, <2>8
  <2> HIDE DEF Multiples
  <2> QED
    BY <1>2, <1>3, <2>2, <2>9
<1>6. g = 1
  BY <1>3, <1>5, Prime
<1> QED
  BY <1>3, <1>6

LEMMA ThreeVanish ==
  ASSUME NEW f \in Int, NEW g \in Int, NEW h \in Int,
         NEW i \in Int, NEW j \in Int, NEW k \in Int,
         Vanishes(f), Vanishes(g), Vanishes(h)
  PROVE  Vanishes(f * i - g * j - h * k)
<1>1. f * i \in Int /\ g * j \in Int /\ h * k \in Int /\ f * i - g * j \in Int
  OBVIOUS
<1>2. Vanishes(f * i) /\ Vanishes(g * j) /\ Vanishes(h * k)
  BY VanishingMultiple
<1>3. Vanishes(f * i - g * j)
  BY <1>1, <1>2, VanishingSum
<1> QED
  BY <1>1, <1>2, <1>3, VanishingSum

\* There are no divisors of zero.
LEMMA VanishingProduct == \A a, b \in Int : Vanishes(a * b) => Vanishes(a) \/ Vanishes(b)
<1> SUFFICES ASSUME NEW a \in Int, NEW b \in Int, Vanishes(a * b), ~Vanishes(a)
             PROVE  Vanishes(b)
  OBVIOUS
<1>1. PICK c \in Int : Vanishes(a * c - 1)
  BY InverseExists
<1>2. /\ a * b \in Int /\ a * c - 1 \in Int /\ (a * b) * c \in Int /\ (a * c - 1) * b \in Int
      /\ (a * b) * c - (a * c - 1) * b = b
  OBVIOUS
<1>3. Vanishes((a * b) * c) /\ Vanishes((a * c - 1) * b)
  BY <1>1, <1>2, VanishingMultiple
<1> QED
  BY <1>2, <1>3, VanishingSum

\* D times a square is no square, except 0.
LEMMA NoSquareRatio == \A a, b \in Int : Vanishes(a * a - D * b * b) => Vanishes(b)
<1> SUFFICES ASSUME NEW a \in Int, NEW b \in Int, Vanishes(a * a - D * b * b), ~Vanishes(b)
             PROVE  FALSE
  OBVIOUS
<1>1. PICK c \in Int : Vanishes(b * c - 1)
  BY InverseExists
<1>2. D \in Int /\ D \in Residues
  BY FieldAssumption, Prime DEF Residues
<1>3. PICK r \in Residues : r = (a * c) % P /\ Vanishes(r - a * c)
  <2>1. a * c \in Int
    OBVIOUS
  <2> QED
    BY <2>1, Reduced
<1>4. r \in Int
  BY Prime DEF Residues
<1>5. Vanishes(D - r * r)
  <2> DEFINE U == r - a * c
             V == a * a - D * b * b
             W == b * c - 1
  <2>1. U \in Int /\ V \in Int /\ W \in Int /\ -(r + a * c) \in Int /\ c * c \in Int /\ D * (b * c + 1) \in Int
    BY <1>2, <1>4
  <2>2. D - r * r = U * (-(r + a * c)) - V * (c * c) - W * (D * (b * c + 1))
    BY <1>2, <1>4
  <2>3. Vanishes(U) /\ Vanishes(V) /\ Vanishes(W)
    BY <1>1, <1>3
  <2> HIDE DEF U, V, W
  <2> QED
    BY <2>1, <2>2, <2>3, ThreeVanish
<1>6. (r * r) % P = D
  BY <1>2, <1>4, <1>5, ResidueOf
<1> QED
  BY <1>6, CurveAssumption

-----------------------------------------------------------------------------
\* Recursive functions.

\* f begins with base and follows step for n steps.
Follows(f, n, base, step) == f = [k \in 0..n |-> IF k = 0 THEN base ELSE step[k][f[k - 1]]]

\* A function stays in a set that no step of it leaves.
LEMMA StaysIn ==
  ASSUME NEW S, NEW n \in Nat, NEW f, f[0] \in S,
         \A k \in 1..n : f[k - 1] \in S => f[k] \in S
  PROVE  \A k \in 0..n : f[k] \in S
<1> DEFINE Out == {j \in 0..n : f[j] \notin S}
<1> SUFFICES ASSUME Out # {}
             PROVE  FALSE
  OBVIOUS
<1>1. PICK m \in Out : \A j \in Out : m <= j
  <2>1. Out \in SUBSET Nat
    OBVIOUS
  <2> HIDE DEF Out
  <2> QED
    BY <2>1, Least
<1>2. m \in 0..n /\ f[m] \notin S
  OBVIOUS
<1>3. m # 0
  BY <1>2
<1>4. m - 1 \in 0..n /\ m - 1 \notin Out /\ m \in 1..n
  BY <1>1, <1>2, <1>3
<1> QED
  BY <1>2, <1>4

\* f and g begin alike and their steps are alike.
StepAlike(f, g, n) == f[0] = g[0] /\ \A k \in 1..n : f[k - 1] = g[k - 1] => f[k] = g[k]

LEMMA StayAlike ==
  ASSUME NEW n \in Nat, NEW f, NEW g, StepAlike(f, g, n)
  PROVE  \A k \in 0..n : f[k] = g[k]
<1> DEFINE Out == {j \in 0..n : f[j] # g[j]}
<1> SUFFICES ASSUME Out # {}
             PROVE  FALSE
  OBVIOUS
<1>1. PICK m \in Out : \A j \in Out : m <= j
  <2>1. Out \in SUBSET Nat
    OBVIOUS
  <2> HIDE DEF Out
  <2> QED
    BY <2>1, Least
<1>2. m \in 0..n /\ f[m] # g[m]
  OBVIOUS
<1>3. m # 0
  BY <1>2 DEF StepAlike
<1>4. m - 1 \in 0..n /\ m - 1 \notin Out /\ m \in 1..n
  BY <1>1, <1>2, <1>3
<1> QED
  BY <1>2, <1>4 DEF StepAlike

\* There is such a function, and it stays where its steps stay.
LEMMA Recursion ==
  ASSUME NEW S, NEW base \in S, NEW n \in Nat, NEW step,
         \A k \in 1..n : \A s \in S : step[k][s] \in S
  PROVE  \E f : Follows(f, n, base, step) /\ \A k \in 0..n : f[k] \in S
<1>1. \E f : Follows(f, n, base, step)
  <2> DEFINE None == {m \in 0..n : ~\E f : Follows(f, m, base, step)}
  <2> SUFFICES ASSUME None # {}
               PROVE  FALSE
    <3>1. n \in 0..n
      OBVIOUS
    <3> QED
      BY <3>1
  <2>1. PICK m \in None : \A j \in None : m <= j
    <3>1. None \in SUBSET Nat
      OBVIOUS
    <3> HIDE DEF None
    <3> QED
      BY <3>1, Least
  <2>2. m \in 0..n /\ ~\E f : Follows(f, m, base, step)
    OBVIOUS
  <2>3. m # 0
    <3> DEFINE f == [k \in 0..0 |-> base]
    <3>1. Follows(f, 0, base, step)
      BY DEF Follows
    <3> QED
      BY <2>2, <3>1
  <2>4. m - 1 \in 0..n /\ m - 1 \notin None
    BY <2>1, <2>2, <2>3
  <2>5. PICK g : Follows(g, m - 1, base, step)
    BY <2>4
  <2> DEFINE h == [k \in 0..m |-> IF k = m THEN step[m][g[m - 1]] ELSE g[k]]
  <2>6. Follows(h, m, base, step)
    <3>1. \A k \in 0..m - 1 : g[k] = IF k = 0 THEN base ELSE step[k][g[k - 1]]
      BY <2>5 DEF Follows
    <3>2. \A k \in 0..m : k # m => k \in 0..m - 1
      BY <2>2
    <3>3. \A k \in 0..m : k # 0 => k - 1 \in 0..m /\ k - 1 # m
      BY <2>2
    <3>4. \A k \in 0..m : h[k] = IF k = 0 THEN base ELSE step[k][h[k - 1]]
      BY <2>3, <3>1, <3>2, <3>3
    <3> HIDE DEF None
    <3> QED
      BY <3>4 DEF Follows
  <2> QED
    BY <2>2, <2>6
<1>2. PICK f : Follows(f, n, base, step)
  BY <1>1
<1>3. f[0] \in S /\ \A k \in 1..n : f[k] = step[k][f[k - 1]]
  <2>1. \A k \in 0..n : f[k] = IF k = 0 THEN base ELSE step[k][f[k - 1]]
    BY <1>2 DEF Follows
  <2>2. 0 \in 0..n /\ \A k \in 1..n : k \in 0..n /\ k # 0
    OBVIOUS
  <2> QED
    BY <2>1, <2>2
<1>4. \A k \in 0..n : f[k] \in S
  <2>1. \A k \in 1..n : f[k - 1] \in S => f[k] \in S
    BY <1>3
  <2> QED
    BY <1>3, <2>1, StaysIn
<1> QED
  BY <1>2, <1>4

\* The recursion behind Power.
LEMMA PowerUnfolds ==
  ASSUME NEW a \in Int, NEW n \in Nat
  PROVE  \E f : /\ f[0] = 1 /\ Power(a, n) = f[n]
                /\ \A k \in 1..n : f[k] = (f[k - 1] * a) % P
                /\ \A k \in 0..n : f[k] \in Residues
<1> DEFINE step == [k \in 1..n |-> [s \in Residues |-> (s * a) % P]]
           power == CHOOSE f : f = [k \in 0..n |-> IF k = 0 THEN 1 ELSE (f[k - 1] * a) % P]
<1>1. \A s \in Residues : s \in Int /\ (s * a) % P \in Residues
  <2>1. \A s \in Residues : s \in Int /\ s * a \in Int
    BY Prime DEF Residues
  <2> QED
    BY <2>1, Reduced
<1>2. 1 \in Residues /\ \A k \in 1..n : \A s \in Residues : step[k][s] \in Residues
  BY <1>1, Prime DEF Residues
<1>3. PICK f : Follows(f, n, 1, step) /\ \A k \in 0..n : f[k] \in Residues
  <2> HIDE DEF step
  <2> QED
    BY <1>2, Recursion
<1>4. f = [k \in 0..n |-> IF k = 0 THEN 1 ELSE (f[k - 1] * a) % P]
  <2>1. \A k \in 0..n : k # 0 => k \in 1..n /\ f[k - 1] \in Residues
    BY <1>3
  <2>2. [k \in 0..n |-> IF k = 0 THEN 1 ELSE step[k][f[k - 1]]]
          = [k \in 0..n |-> IF k = 0 THEN 1 ELSE (f[k - 1] * a) % P]
    BY <2>1
  <2> QED
    BY <1>3, <2>2 DEF Follows
<1>5. power = [k \in 0..n |-> IF k = 0 THEN 1 ELSE (power[k - 1] * a) % P]
  BY <1>4
<1> HIDE DEF power
<1>6. power[0] = 1 /\ \A k \in 1..n : power[k] = (power[k - 1] * a) % P
  <2>1. \A k \in 0..n : power[k] = IF k = 0 THEN 1 ELSE (power[k - 1] * a) % P
    BY <1>5, Zenon
  <2>2. 0 \in 0..n /\ \A k \in 1..n : k \in 0..n /\ k # 0
    OBVIOUS
  <2> QED
    BY <2>1, <2>2, Zenon
<1>7. \A k \in 0..n : power[k] \in Residues
  BY <1>1, <1>2, <1>6, StaysIn
<1>8. Power(a, n) = power[n]
  BY DEF Power, power
<1> QED
  BY <1>6, <1>7, <1>8

LEMMA PowerType == \A a \in Int, n \in Nat : Power(a, n) \in Residues
<1> SUFFICES ASSUME NEW a \in Int, NEW n \in Nat
             PROVE  Power(a, n) \in Residues
  OBVIOUS
<1>1. n \in 0..n
  OBVIOUS
<1> QED
  BY <1>1, PowerUnfolds

\* Power multiplies by a each time.
LEMMA PowerIs ==
  ASSUME NEW a \in Int, NEW n \in Nat
  PROVE  Power(a, 0) = 1 /\ Power(a, n + 1) = (Power(a, n) * a) % P
<1>1. Power(a, 0) = 1
  <2>1. 0 \in Nat
    OBVIOUS
  <2>2. PICK f : f[0] = 1 /\ Power(a, 0) = f[0]
    BY <2>1, PowerUnfolds
  <2> QED
    BY <2>2
<1>2. PICK f : /\ f[0] = 1 /\ Power(a, n) = f[n]
               /\ \A k \in 1..n : f[k] = (f[k - 1] * a) % P
  BY PowerUnfolds
<1> DEFINE m == n + 1
<1>3. m \in Nat /\ n \in 0..n /\ m \in 1..m /\ m - 1 = n /\ \A k \in 1..n : k \in 1..m
  OBVIOUS
<1> HIDE DEF m
<1>4. PICK g : /\ g[0] = 1 /\ Power(a, m) = g[m]
               /\ \A k \in 1..m : g[k] = (g[k - 1] * a) % P
               /\ \A k \in 0..m : g[k] \in Residues
  <2>1. m \in Nat
    BY <1>3
  <2> QED
    BY <2>1, PowerUnfolds
<1>5. \A k \in 0..n : f[k] = g[k]
  <2>1. f[0] = g[0]
    BY <1>2, <1>4
  <2>2. \A k \in 1..n : f[k - 1] = g[k - 1] => f[k] = g[k]
    BY <1>2, <1>3, <1>4
  <2>3. StepAlike(f, g, n)
    BY <2>1, <2>2, Zenon DEF StepAlike
  <2> QED
    BY <2>3, StayAlike
<1>6. Power(a, m) = (Power(a, n) * a) % P
  BY <1>2, <1>3, <1>4, <1>5
<1> QED
  BY <1>1, <1>6 DEF m

-----------------------------------------------------------------------------
\* The curve.

Equation(x, y) == y * y - x * x - 1 - D * x * x * y * y

OnCurve(p) == p \in [x : Int, y : Int] /\ Vanishes(Equation(p.x, p.y))

LEMMA DIsInt == D \in Int /\ P \in Int
BY FieldAssumption

LEMMA ImaginaryUnit == \E i \in Int : Vanishes(i * i + 1)
<1> DEFINE i == RootOfMinusOne
<1>1. (P - 1) \div 4 \in Nat
  BY Prime
<1>2. i \in Residues
  BY <1>1, PowerType DEF RootOfMinusOne
<1>3. i \in Int
  BY <1>2, Prime DEF Residues
<1>4. (i * i) % P = P - 1
  BY CurveAssumption
<1> HIDE DEF i
<1>5. i * i \in Int /\ P - 1 \in Residues
  BY <1>3, Prime DEF Residues
<1>6. Vanishes(P - 1 - i * i)
  BY <1>4, <1>5, ResidueOf
<1>7. Vanishes(P)
  <2>1. P = P * 1 /\ 1 \in Int
    BY Prime
  <2> QED
    BY <2>1, Zenon DEF Vanishes
<1>8. /\ P \in Int /\ P - 1 - i * i \in Int
      /\ P - (P - 1 - i * i) = i * i + 1
  BY <1>3, Prime
<1>9. Vanishes(i * i + 1)
  BY <1>6, <1>7, <1>8, VanishingSum
<1> QED
  BY <1>3, <1>9

\* What decodePoint divides by is never zero, or -1 / D and D would be squares.
LEMMA DecodeDivides == \A y \in Int : XDenominator(y) # 0
<1> SUFFICES ASSUME NEW y \in Int, XDenominator(y) = 0
             PROVE  FALSE
  OBVIOUS
<1>1. PICK i \in Int : Vanishes(i * i + 1)
  BY ImaginaryUnit
<1>2. /\ D * y * y \in Int /\ D * y * y + 1 \in Int /\ i * i + 1 \in Int
      /\ (i * i + 1) - (D * y * y + 1) = i * i - D * y * y
      /\ (D * y * y + 1) - y * (D * y) = 1 /\ D * y \in Int /\ y * (D * y) \in Int
  BY DIsInt
<1>3. Vanishes(D * y * y + 1)
  BY <1>2, ZeroResidue DEF XDenominator
<1>4. Vanishes(i * i - D * y * y)
  BY <1>1, <1>2, <1>3, VanishingSum
<1>5. Vanishes(y)
  BY <1>4, NoSquareRatio
<1>6. Vanishes(y * (D * y))
  BY <1>2, <1>5, VanishingMultiple
<1>7. Vanishes(1)
  BY <1>2, <1>3, <1>6, VanishingSum
<1> QED
  BY <1>7, OneIsNotZero

\* Five that vanish, each with a factor.
LEMMA FiveVanish ==
  ASSUME NEW a \in Int, NEW b \in Int, NEW c \in Int, NEW d \in Int, NEW e \in Int,
         NEW f \in Int, NEW g \in Int, NEW h \in Int, NEW i \in Int, NEW j \in Int,
         Vanishes(a), Vanishes(b), Vanishes(c), Vanishes(d), Vanishes(e)
  PROVE  Vanishes(a * f + b * g + c * h + d * i + e * j)
<1>1. a * f \in Int /\ b * g \in Int /\ c * h \in Int /\ d * i \in Int /\ e * j \in Int
  OBVIOUS
<1>2. Vanishes(a * f) /\ Vanishes(b * g) /\ Vanishes(c * h) /\ Vanishes(d * i) /\ Vanishes(e * j)
  BY VanishingMultiple
<1>3. Vanishes(a * f + b * g) /\ a * f + b * g \in Int
  BY <1>1, <1>2, VanishingSum
<1>4. Vanishes(a * f + b * g + c * h) /\ a * f + b * g + c * h \in Int
  BY <1>1, <1>2, <1>3, VanishingSum
<1>5. Vanishes(a * f + b * g + c * h + d * i) /\ a * f + b * g + c * h + d * i \in Int
  BY <1>1, <1>2, <1>4, VanishingSum
<1> QED
  BY <1>1, <1>2, <1>5, VanishingSum

\* Half of the argument that the curve's addition is complete (Bernstein and
\* Lange): if the denominator of a sum were 0, D times the square of B would be
\* the square of A.
LEMMA SquareRatio ==
  ASSUME NEW x1 \in Int, NEW y1 \in Int, NEW x2 \in Int, NEW y2 \in Int,
         NEW t \in Int, NEW i \in Int,
         Vanishes(Equation(x1, y1)), Vanishes(Equation(x2, y2)),
         Vanishes(t - D * x1 * x2 * y1 * y2), Vanishes(1 - t * t), Vanishes(i * i + 1)
  PROVE  Vanishes(x1 * y1 * (y2 + i * x2))
<1> DEFINE A  == y1 + t * i * x1
           B  == x1 * y1 * (y2 + i * x2)
           T  == D * x1 * x2 * y1 * y2
           E1 == Equation(x1, y1)
           E2 == Equation(x2, y2)
           h  == 1 + x1 * x1
           g  == -(D * x1 * x1 * y1 * y1)
           j  == t + T + 2 * i * x1 * y1
           k  == t * t * x1 * x1 - D * x1 * x1 * y1 * y1 * x2 * x2
           R  == 1 - t * t
           S  == t - T
           U  == i * i + 1
           f  == 1
<1>1. A * A - D * B * B = E1 * f + E2 * g + R * h + S * j + U * k
  BY DIsInt DEF Equation
<1>2. /\ A \in Int /\ B \in Int /\ T \in Int /\ E1 \in Int /\ E2 \in Int
      /\ h \in Int /\ g \in Int /\ j \in Int /\ k \in Int
  BY DIsInt DEF Equation
<1>3. R \in Int /\ S \in Int /\ U \in Int /\ f \in Int
  BY <1>2
<1>4. Vanishes(E1) /\ Vanishes(E2) /\ Vanishes(R) /\ Vanishes(S) /\ Vanishes(U)
  OBVIOUS
<1> HIDE DEF A, B, T, E1, E2, R, S, U, f, g, h, j, k
<1>5. Vanishes(E1 * f + E2 * g + R * h + S * j + U * k)
  BY <1>2, <1>3, <1>4, FiveVanish, ZenonT(60)
<1>6. Vanishes(B)
  BY <1>1, <1>2, <1>5, NoSquareRatio
<1> QED
  BY <1>6 DEF B

\* The curve's addition is complete: no denominator of a sum is 0.
LEMMA Complete ==
  ASSUME NEW x1 \in Int, NEW y1 \in Int, NEW x2 \in Int, NEW y2 \in Int, NEW t \in Int,
         Vanishes(Equation(x1, y1)), Vanishes(Equation(x2, y2)),
         Vanishes(t - D * x1 * x2 * y1 * y2)
  PROVE  ~Vanishes(1 - t * t)
<1> SUFFICES ASSUME Vanishes(1 - t * t)
             PROVE  FALSE
  OBVIOUS
<1>1. PICK i \in Int : Vanishes(i * i + 1)
  BY ImaginaryUnit
<1>2. Vanishes(x1 * y1 * (y2 + i * x2))
  BY <1>1, SquareRatio
<1>3. -i \in Int /\ (-i) * (-i) + 1 = i * i + 1
  OBVIOUS
<1>4. Vanishes(x1 * y1 * (y2 + (-i) * x2))
  BY <1>1, <1>3, SquareRatio
<1>5. /\ x1 * y1 * (y2 + i * x2) + x1 * y1 * (y2 + (-i) * x2) = (x1 * y1) * (2 * y2)
      /\ x1 * y1 * (y2 + i * x2) \in Int /\ x1 * y1 * (y2 + (-i) * x2) \in Int
      /\ x1 * y1 \in Int /\ 2 * y2 \in Int /\ 2 \in Int
  OBVIOUS
<1>6. Vanishes((x1 * y1) * (2 * y2))
  BY <1>2, <1>4, <1>5, VanishingSum
<1>7. ~Vanishes(2)
  BY NoSmallVanishes, Prime
<1>8. Vanishes(x1) \/ Vanishes(y1) \/ Vanishes(y2)
  BY <1>5, <1>6, <1>7, VanishingProduct
<1> DEFINE T == D * x1 * x2 * y1 * y2
<1>9. /\ T = x1 * (D * x2 * y1 * y2) /\ D * x2 * y1 * y2 \in Int
      /\ T = y1 * (D * x1 * x2 * y2) /\ D * x1 * x2 * y2 \in Int
      /\ T = y2 * (D * x1 * x2 * y1) /\ D * x1 * x2 * y1 \in Int
      /\ T \in Int
  BY DIsInt
<1>10. Vanishes(T)
  BY <1>8, <1>9, VanishingMultiple
<1>11. Vanishes(t - T)
  OBVIOUS
<1> HIDE DEF T
<1>12. t - T \in Int /\ (t - T) + T = t /\ t * t \in Int /\ 1 - t * t \in Int /\ (1 - t * t) + t * t = 1
  BY <1>9
<1>13. Vanishes(t)
  BY <1>9, <1>10, <1>11, <1>12, VanishingSum
<1>14. Vanishes(t * t)
  BY <1>13, VanishingMultiple
<1>15. Vanishes(1)
  BY <1>12, <1>14, VanishingSum
<1> QED
  BY <1>15, OneIsNotZero

\* The equation of the sum X / (1 + T), Y / (1 - T) with the denominators multiplied out.
MultipliedOut(X, Y, T) ==
  Y * Y * (1 + T) * (1 + T) - X * X * (1 - T) * (1 - T)
    - (1 + T) * (1 + T) * (1 - T) * (1 - T) - D * X * X * Y * Y

\* The same in terms of the two summands: d is y^2 - x^2 and c is D x^2 y^2 of each.
InSummands(d1, d2, c1, c2) ==
  d1 * d2 * (1 + c1 * c2) - (1 - c1 * c2) * (1 - c1 * c2) - c1 * d2 * d2 - c2 * d1 * d1

LEMMA SumExpanded ==
  ASSUME NEW x1 \in Int, NEW y1 \in Int, NEW x2 \in Int, NEW y2 \in Int, NEW T \in Int,
         NEW d1 \in Int, NEW d2 \in Int, NEW c1 \in Int, NEW c2 \in Int,
         NEW X \in Int, NEW Y \in Int,
         T = D * x1 * x2 * y1 * y2,
         X = x1 * y2 + x2 * y1, Y = y1 * y2 + x1 * x2,
         d1 = y1 * y1 - x1 * x1, d2 = y2 * y2 - x2 * x2,
         c1 = D * x1 * x1 * y1 * y1, c2 = D * x2 * x2 * y2 * y2
  PROVE  MultipliedOut(X, Y, T) = InSummands(d1, d2, c1, c2)
BY DIsInt DEF MultipliedOut, InSummands

\* It vanishes if the summands are on the curve: d is then 1 + c.
LEMMA SumVanishes ==
  ASSUME NEW d1 \in Int, NEW d2 \in Int, NEW c1 \in Int, NEW c2 \in Int,
         Vanishes(d1 - 1 - c1), Vanishes(d2 - 1 - c2)
  PROVE  Vanishes(InSummands(d1, d2, c1, c2))
<1> DEFINE E1 == d1 - 1 - c1
           E2 == d2 - 1 - c2
           Q1 == d2 * (1 + c1 * c2) - c2 * (d1 + 1 + c1)
           Q2 == (1 + c1) * (1 + c1 * c2) - c1 * (d2 + 1 + c2)
<1>1. InSummands(d1, d2, c1, c2) = E1 * Q1 + E2 * Q2
  BY DEF InSummands
<1>2. E1 \in Int /\ E2 \in Int /\ Q1 \in Int /\ Q2 \in Int
  OBVIOUS
<1>3. Vanishes(E1) /\ Vanishes(E2)
  OBVIOUS
<1> HIDE DEF E1, E2, Q1, Q2
<1>4. E1 * Q1 \in Int /\ E2 * Q2 \in Int
  BY <1>2
<1>5. Vanishes(E1 * Q1 + E2 * Q2)
  <2>1. Vanishes(E1 * Q1)
    BY <1>2, <1>3, VanishingMultiple
  <2>2. Vanishes(E2 * Q2)
    BY <1>2, <1>3, VanishingMultiple
  <2> QED
    BY <1>4, <2>1, <2>2, VanishingSum
<1> QED
  BY <1>1, <1>5

\* The equation of a sum, with its denominators multiplied out.
LEMMA SumEquation ==
  ASSUME NEW x \in Int, NEW y \in Int, NEW X \in Int, NEW Y \in Int, NEW T \in Int,
         Vanishes(x * (1 + T) - X), Vanishes(y * (1 - T) - Y),
         Vanishes(MultipliedOut(X, Y, T)),
         ~Vanishes(1 - T * T)
  PROVE  Vanishes(Equation(x, y))
<1> DEFINE u == 1 + T
           v == 1 - T
           a == x * u
           b == y * v
           M == Y * Y * u * u - X * X * v * v - u * u * v * v - D * X * X * Y * Y
           g == b - Y
           h == a - X
           j == (b + Y) * (u * u - D * X * X)
           k == (a + X) * (v * v + D * b * b)
           one == 1
<1>1. (1 - T * T) * ((1 - T * T) * Equation(x, y)) = M * one - g * (-j) - h * k
  <2>1. 1 - T * T = u * v /\ u \in Int /\ v \in Int
    OBVIOUS
  <2> HIDE DEF u, v
  <2>2. (u * v) * ((u * v) * Equation(x, y))
          = (y * v) * (y * v) * u * u - (x * u) * (x * u) * v * v - u * u * v * v
              - D * (x * u) * (x * u) * (y * v) * (y * v)
    BY <2>1, DIsInt DEF Equation
  <2>3. a = x * u /\ b = y * v /\ a \in Int /\ b \in Int
    BY <2>1
  <2> HIDE DEF a, b
  <2>4. b * b * u * u - a * a * v * v - u * u * v * v - D * a * a * b * b
          = (Y * Y * u * u - X * X * v * v - u * u * v * v - D * X * X * Y * Y)
              - (b - Y) * (-((b + Y) * (u * u - D * X * X)))
              - (a - X) * ((a + X) * (v * v + D * b * b))
    BY <2>1, <2>3, DIsInt
  <2>5. (u * v) * ((u * v) * Equation(x, y))
          = b * b * u * u - a * a * v * v - u * u * v * v - D * a * a * b * b
    BY <2>2, <2>3
  <2>6. M * one - g * (-j) - h * k
          = (Y * Y * u * u - X * X * v * v - u * u * v * v - D * X * X * Y * Y)
              - (b - Y) * (-((b + Y) * (u * u - D * X * X)))
              - (a - X) * ((a + X) * (v * v + D * b * b))
    BY <2>1, <2>3, DIsInt
  <2> QED
    BY <2>1, <2>4, <2>5, <2>6
<1>2. /\ M \in Int /\ g \in Int /\ h \in Int /\ j \in Int /\ -j \in Int /\ k \in Int /\ one \in Int
      /\ Equation(x, y) \in Int /\ 1 - T * T \in Int /\ (1 - T * T) * Equation(x, y) \in Int
  BY DIsInt DEF Equation
<1>3. Vanishes(M) /\ Vanishes(g) /\ Vanishes(h)
  BY DEF MultipliedOut
<1> HIDE DEF M, g, h, j, k, one, a, b, u, v
<1>4. Vanishes(M * one - g * (-j) - h * k)
  BY <1>2, <1>3, ThreeVanish
<1>5. Vanishes((1 - T * T) * ((1 - T * T) * Equation(x, y)))
  BY <1>1, <1>4
<1>6. Vanishes((1 - T * T) * Equation(x, y))
  BY <1>2, <1>5, VanishingProduct
<1> QED
  BY <1>2, <1>6, VanishingProduct

\* inv finds an inverse of what is not 0.
LEMMA ModInverseIs ==
  ASSUME NEW a \in Int, ~Vanishes(a)
  PROVE  ModInverse(a) \in Residues /\ ModInverse(a) \in Int /\ Vanishes(a * ModInverse(a) - 1)
<1>1. PICK c \in Int : Vanishes(a * c - 1)
  BY InverseExists
<1> DEFINE b == c % P
<1>2. b \in Residues /\ Vanishes(b - c) /\ b \in Int
  BY Reduced, ResiduesAreInts
<1> HIDE DEF b
<1>3. 1 \in Residues /\ a * b \in Int /\ a * c - 1 \in Int /\ b - c \in Int /\ (b - c) * a \in Int
  BY <1>2, Prime DEF Residues
<1>4. (a * c - 1) + (b - c) * a = a * b - 1
  BY <1>2
<1>5. Vanishes((b - c) * a)
  BY <1>2, <1>3, VanishingMultiple
<1>6. Vanishes(a * b - 1)
  BY <1>1, <1>3, <1>4, <1>5, VanishingSum
<1>7. \A k \in Int : Vanishes(k - 1) <=> k % P = 1
  <2> SUFFICES ASSUME NEW k \in Int
               PROVE  Vanishes(k - 1) <=> k % P = 1
    OBVIOUS
  <2>1. k - 1 \in Int /\ 1 - k \in Int /\ 0 \in Int /\ 0 - (k - 1) = 1 - k /\ 0 - (1 - k) = k - 1
    OBVIOUS
  <2>2. Vanishes(0)
    BY <2>1, ZeroResidue, Prime
  <2>3. Vanishes(k - 1) <=> Vanishes(1 - k)
    BY <2>1, <2>2, VanishingSum
  <2> QED
    BY <1>3, <2>3, ResidueOf
<1>8. (a * b) % P = 1
  BY <1>3, <1>6, <1>7
<1>9. a % P # 0
  BY ZeroResidue
<1> DEFINE m == ModInverse(a)
<1>10. m \in Residues /\ (a % P # 0 => (a * m) % P = 1)
  BY <1>2, <1>8 DEF ModInverse
<1> HIDE DEF m
<1>11. m \in Int /\ a * m \in Int
  BY <1>10, Prime DEF Residues
<1>12. Vanishes(a * m - 1)
  BY <1>7, <1>9, <1>10, <1>11
<1> QED
  BY <1>10, <1>11, <1>12 DEF m

\* A quotient as addPoint computes it: times the denominator it is the numerator.
LEMMA Quotient ==
  ASSUME NEW n \in Int, NEW d \in Int, ~Vanishes(d)
  PROVE  /\ (n * ModInverse(d)) % P \in Residues
         /\ Vanishes(((n * ModInverse(d)) % P) * d - n)
<1> DEFINE w == ModInverse(d)
           z == (n * w) % P
<1>1. w \in Int /\ Vanishes(d * w - 1)
  BY ModInverseIs
<1> HIDE DEF w
<1>2. n * w \in Int
  BY <1>1
<1>3. z \in Residues /\ Vanishes(z - n * w) /\ z \in Int
  BY <1>2, Reduced, ResiduesAreInts
<1> HIDE DEF z
<1>4. /\ z * d - n = (z - n * w) * d + (d * w - 1) * n
      /\ z - n * w \in Int /\ d * w - 1 \in Int
      /\ (z - n * w) * d \in Int /\ (d * w - 1) * n \in Int
  BY <1>1, <1>3
<1>5. Vanishes((z - n * w) * d)
  BY <1>3, <1>4, VanishingMultiple
<1>6. Vanishes((d * w - 1) * n)
  BY <1>1, <1>4, VanishingMultiple
<1>7. Vanishes(z * d - n)
  BY <1>4, <1>5, <1>6, VanishingSum
<1> QED
  BY <1>3, <1>7 DEF z, w

LEMMA TwistIs ==
  ASSUME NEW a \in [x : Int, y : Int], NEW b \in [x : Int, y : Int]
  PROVE  Twist(a, b) \in Residues /\ Vanishes(Twist(a, b) - D * a.x * b.x * a.y * b.y)
<1> DEFINE u == D * a.x * b.x
           v == a.y * b.y
           r == u % P
           s == v % P
           t == (r * s) % P
<1>1. u \in Int /\ v \in Int /\ u * v = D * a.x * b.x * a.y * b.y
  BY DIsInt
<1> HIDE DEF u, v
<1>2. r \in Residues /\ Vanishes(r - u) /\ s \in Residues /\ Vanishes(s - v)
  BY <1>1, Reduced
<1>3. r \in Int /\ s \in Int
  BY <1>2, Prime DEF Residues
<1> HIDE DEF r, s
<1>4. r * s \in Int
  BY <1>3
<1>5. t \in Residues /\ Vanishes(t - r * s) /\ t \in Int
  BY <1>4, Reduced, ResiduesAreInts
<1> HIDE DEF t
<1>6. /\ t - u * v = (t - r * s) + (r - u) * s + (s - v) * u
      /\ t - r * s \in Int /\ r - u \in Int /\ s - v \in Int
      /\ (r - u) * s \in Int /\ (s - v) * u \in Int /\ (t - r * s) + (r - u) * s \in Int
  BY <1>1, <1>3, <1>5
<1>7. Vanishes((r - u) * s)
  BY <1>2, <1>3, <1>6, VanishingMultiple
<1>8. Vanishes((s - v) * u)
  BY <1>1, <1>2, <1>6, VanishingMultiple
<1>9. Vanishes((t - r * s) + (r - u) * s)
  BY <1>5, <1>6, <1>7, VanishingSum
<1>10. Vanishes(t - u * v)
  BY <1>6, <1>8, <1>9, VanishingSum
<1>11. Twist(a, b) = t
  BY DEF Twist, t, r, s, u, v
<1> QED
  BY <1>1, <1>5, <1>10, <1>11

\* The coordinates of a sum, as fractions of what the summands' are.
LEMMA SumIs ==
  ASSUME NEW a, NEW b, OnCurve(a), OnCurve(b),
         NEW T \in Int, T = D * a.x * b.x * a.y * b.y
  PROVE  /\ Twist(a, b) \notin {1, P - 1}
         /\ AddPoint(a, b) \in [x : Residues, y : Residues]
         /\ Vanishes(AddPoint(a, b).x * (1 + T) - (a.x * b.y + b.x * a.y))
         /\ Vanishes(AddPoint(a, b).y * (1 - T) - (a.y * b.y + a.x * b.x))
<1> DEFINE t == Twist(a, b)
           X == a.x * b.y + b.x * a.y
           Y == a.y * b.y + a.x * b.x
           x == (X * ModInverse(1 + t)) % P
           y == (Y * ModInverse(1 - t)) % P
<1>1. /\ a \in [x : Int, y : Int] /\ b \in [x : Int, y : Int]
      /\ a.x \in Int /\ a.y \in Int /\ b.x \in Int /\ b.y \in Int
      /\ Vanishes(Equation(a.x, a.y)) /\ Vanishes(Equation(b.x, b.y))
  BY DEF OnCurve
<1>2. t \in Residues /\ Vanishes(t - T)
  BY <1>1, TwistIs
<1>3. X \in Int /\ Y \in Int /\ AddPoint(a, b) = [x |-> x, y |-> y]
  BY <1>1 DEF AddPoint
<1>4. t \in Int
  BY <1>2, ResiduesAreInts
<1> HIDE DEF t
<1>5. ~Vanishes(1 - t * t)
  BY <1>1, <1>2, <1>4, Complete
<1>6. /\ 1 - t * t = (1 + t) * (1 - t) /\ 1 + t \in Int /\ 1 - t \in Int /\ t - T \in Int
  BY <1>4
<1>7. ~Vanishes(1 + t) /\ ~Vanishes(1 - t)
  BY <1>5, <1>6, VanishingMultiple
<1> HIDE DEF X, Y
<1>8. x \in Residues /\ Vanishes(x * (1 + t) - X)
  BY <1>3, <1>6, <1>7, Quotient
<1>9. y \in Residues /\ Vanishes(y * (1 - t) - Y)
  BY <1>3, <1>6, <1>7, Quotient
<1>10. x \in Int /\ y \in Int
  BY <1>8, <1>9, ResiduesAreInts
<1> HIDE DEF x, y
<1>11. Vanishes(x * (1 + T) - X)
  <2>1. /\ x * (1 + T) - X = (x * (1 + t) - X) - (t - T) * x
        /\ x * (1 + t) - X \in Int /\ (t - T) * x \in Int
    BY <1>3, <1>4, <1>10
  <2>2. Vanishes((t - T) * x)
    BY <1>2, <1>6, <1>10, VanishingMultiple
  <2> QED
    BY <1>8, <2>1, <2>2, VanishingSum
<1>12. Vanishes(y * (1 - T) - Y)
  <2>1. /\ y * (1 - T) - Y = (y * (1 - t) - Y) + (t - T) * y
        /\ y * (1 - t) - Y \in Int /\ (t - T) * y \in Int
    BY <1>3, <1>4, <1>10
  <2>2. Vanishes((t - T) * y)
    BY <1>2, <1>6, <1>10, VanishingMultiple
  <2> QED
    BY <1>9, <2>1, <2>2, VanishingSum
<1>13. t # 1 /\ t # P - 1
  <2>1. Vanishes(0) /\ Vanishes(P)
    <3>1. 0 = P * 0 /\ P = P * 1 /\ 0 \in Int /\ 1 \in Int
      BY Prime
    <3> QED
      BY <3>1, Zenon DEF Vanishes
  <2>2. t = 1 => 1 - t = 0
    OBVIOUS
  <2>3. t = P - 1 => 1 + t = P
    BY Prime
  <2> QED
    BY <1>7, <2>1, <2>2, <2>3
<1> QED
  BY <1>3, <1>8, <1>9, <1>11, <1>12, <1>13 DEF t, X, Y

\* The sum of two points of the curve is one, and its denominators are not 0:
\* the addition has no exceptions, for doubling neither (addPoint).
THEOREM AdditionIsComplete ==
  ASSUME NEW a, NEW b, OnCurve(a), OnCurve(b)
  PROVE  Twist(a, b) \notin {1, P - 1} /\ OnCurve(AddPoint(a, b))
<1>1. /\ a.x \in Int /\ a.y \in Int /\ b.x \in Int /\ b.y \in Int
      /\ Vanishes(Equation(a.x, a.y)) /\ Vanishes(Equation(b.x, b.y))
  BY DEF OnCurve
<1>2. PICK x1, y1, x2, y2 \in Int : x1 = a.x /\ y1 = a.y /\ x2 = b.x /\ y2 = b.y
  BY <1>1
<1>3. PICK T \in Int : T = D * x1 * x2 * y1 * y2
  BY DIsInt
<1>4. PICK X, Y \in Int : X = x1 * y2 + x2 * y1 /\ Y = y1 * y2 + x1 * x2
  OBVIOUS
<1>5. PICK d1, d2, c1, c2 \in Int :
        /\ d1 = y1 * y1 - x1 * x1 /\ d2 = y2 * y2 - x2 * x2
        /\ c1 = D * x1 * x1 * y1 * y1 /\ c2 = D * x2 * x2 * y2 * y2
  BY DIsInt
<1>6. d1 - 1 - c1 = Equation(x1, y1) /\ d2 - 1 - c2 = Equation(x2, y2)
  BY <1>5, DIsInt DEF Equation
<1>7. Vanishes(d1 - 1 - c1) /\ Vanishes(d2 - 1 - c2)
  BY <1>1, <1>2, <1>6
<1>8. Vanishes(InSummands(d1, d2, c1, c2))
  BY <1>7, SumVanishes
<1>9. Vanishes(MultipliedOut(X, Y, T))
  BY <1>3, <1>4, <1>5, <1>8, SumExpanded
<1>10. ~Vanishes(1 - T * T)
  <2>1. Vanishes(T - D * x1 * x2 * y1 * y2)
    <3>1. T - D * x1 * x2 * y1 * y2 = 0
      BY <1>3
    <3>2. Vanishes(0)
      BY Prime DEF Vanishes
    <3> QED
      BY <3>1, <3>2
  <2> QED
    BY <1>1, <1>2, <2>1, Complete
<1> DEFINE s == AddPoint(a, b)
<1>11. /\ Twist(a, b) \notin {1, P - 1}
       /\ s \in [x : Residues, y : Residues]
       /\ Vanishes(s.x * (1 + T) - X)
       /\ Vanishes(s.y * (1 - T) - Y)
  BY <1>2, <1>3, <1>4, SumIs
<1> HIDE DEF s
<1>12. s \in [x : Int, y : Int] /\ s.x \in Int /\ s.y \in Int
  BY <1>11, ResiduesAreInts
<1>13. Vanishes(Equation(s.x, s.y))
  BY <1>9, <1>10, <1>11, <1>12, SumEquation
<1> QED
  BY <1>11, <1>12, <1>13 DEF s, OnCurve

-----------------------------------------------------------------------------
\* The points are a group.

\* Congruent modulo P.
Same(a, b) == Vanishes(a - b)

LEMMA SameSum ==
  ASSUME NEW a \in Int, NEW b \in Int, NEW c \in Int, NEW d \in Int, Same(a, b), Same(c, d)
  PROVE  Same(a + c, b + d) /\ Same(a - c, b - d)
<1>1. /\ a - b \in Int /\ c - d \in Int
      /\ (a + c) - (b + d) = (a - b) + (c - d) /\ (a - c) - (b - d) = (a - b) - (c - d)
  OBVIOUS
<1> QED
  BY <1>1, VanishingSum DEF Same

LEMMA SameProduct ==
  ASSUME NEW a \in Int, NEW b \in Int, NEW c \in Int, NEW d \in Int, Same(a, b), Same(c, d)
  PROVE  Same(a * c, b * d)
<1> DEFINE e == (a - b) * c
           f == (c - d) * b
<1>1. a * c - b * d = e + f
  OBVIOUS
<1>2. a - b \in Int /\ c - d \in Int /\ e \in Int /\ f \in Int
  OBVIOUS
<1>3. Vanishes(e) /\ Vanishes(f)
  BY <1>2, VanishingMultiple DEF Same
<1> HIDE DEF e, f
<1> QED
  BY <1>1, <1>2, <1>3, VanishingSum DEF Same

LEMMA SameItself == \A a \in Int : Same(a, a)
<1>1. \A a \in Int : a - a = 0
  OBVIOUS
<1>2. Vanishes(0)
  BY Prime DEF Vanishes
<1> QED
  BY <1>1, <1>2 DEF Same

LEMMA SameOrder ==
  ASSUME NEW a \in Int, NEW b \in Int, NEW c \in Int
  PROVE  /\ Same(a, b) => Same(b, a)
         /\ Same(a, b) /\ Same(b, c) => Same(a, c)
<1>1. Same(a, b) => Same(b, a)
  <2> SUFFICES ASSUME Same(a, b)
               PROVE  Same(b, a)
    OBVIOUS
  <2>1. Same(a + b - a, a + b - b)
    <3>1. Same(a + b, a + b) /\ a + b \in Int
      BY SameItself
    <3> QED
      BY <3>1, SameSum
  <2>2. a + b - a = b /\ a + b - b = a
    OBVIOUS
  <2> QED
    BY <2>1, <2>2
<1>2. Same(a, b) /\ Same(b, c) => Same(a, c)
  <2>1. a - c = (a - b) + (b - c) /\ a - b \in Int /\ b - c \in Int
    OBVIOUS
  <2> QED
    BY <2>1, VanishingSum DEF Same
<1> QED
  BY <1>1, <1>2

\* Two residues that are congruent are the same number.
LEMMA SameResidue == \A r, s \in Residues : Same(r, s) => r = s
<1> SUFFICES ASSUME NEW r \in Residues, NEW s \in Residues, Same(r, s)
             PROVE  r = s
  OBVIOUS
<1>1. r - s \in Int /\ -P < r - s /\ r - s < P /\ r \in Int /\ s \in Int
  BY Prime DEF Residues
<1>2. r - s = 0
  BY <1>1, NoSmallVanishes DEF Same
<1> QED
  BY <1>1, <1>2

\* Adding three points both ways leads to two fractions of fractions.  Their
\* difference, with every denominator multiplied out, is a combination of the
\* equations of the three points.  In it T is the term D x x y y of two of them,
\* of each c is D x^2 y^2, d is y^2 - x^2 and s is x^2 + y^2, and W, V and U are
\* sums of products of three coordinates.
Difference(W, V, U, T12, T23, T13, s1, s2, s3) ==
  (W - T12 * V) * (1 - T23 * T23 + T12 * s3 + T13 * s2)
    - (W + T23 * U) * (1 - T12 * T12 + T23 * s1 + T13 * s2)

Combination(W, V, U, T12, T23, T13, e1, e2, e3) ==
  T12 * (V - T12 * W) * e3 + T23 * (U + T23 * W) * e1 - T13 * (T23 * V + T12 * U) * e2

\* The terms of one point and of two.
Cancels(T12, T23, T13, c1, c2, c3) ==
  /\ T12 * T12 * c3 = T23 * T23 * c1
  /\ T13 * T23 = T12 * c3
  /\ T13 * T12 = T23 * c1
  /\ T12 * T23 * T23 = T13 * T23 * c2
  /\ T23 * T12 * T12 = T13 * T12 * c2

Balances(W, V, U, T12, T23, T13, s1, s2, s3, d1, d2, d3) ==
  /\ W * (T12 * s3 - T23 * s1) - V * (T12 * d3) - U * (T23 * d1) = 0
  /\ W * (T12 * T12 * d3 - T23 * T23 * d1)
       - V * (T12 * T12 * s3 + T12 * T13 * s2 - T13 * T23 * d2)
       - U * (T23 * T23 * s1 + T13 * T23 * s2 - T12 * T13 * d2) = 0

LEMMA DifferenceIs ==
  ASSUME NEW W \in Int, NEW V \in Int, NEW U \in Int,
         NEW T12 \in Int, NEW T23 \in Int, NEW T13 \in Int,
         NEW s1 \in Int, NEW s2 \in Int, NEW s3 \in Int,
         NEW c1 \in Int, NEW c2 \in Int, NEW c3 \in Int,
         NEW d1 \in Int, NEW d2 \in Int, NEW d3 \in Int,
         Cancels(T12, T23, T13, c1, c2, c3),
         Balances(W, V, U, T12, T23, T13, s1, s2, s3, d1, d2, d3)
  PROVE  Difference(W, V, U, T12, T23, T13, s1, s2, s3)
           = Combination(W, V, U, T12, T23, T13, d1 - 1 - c1, d2 - 1 - c2, d3 - 1 - c3)
<1> DEFINE r1 == T12 * T12 * c3 - T23 * T23 * c1
           r2 == T13 * T23 - T12 * c3
           r3 == T12 * T23 * T23 - T13 * T23 * c2
           r4 == T13 * T12 - T23 * c1
           r5 == T23 * T12 * T12 - T13 * T12 * c2
           r6 == W * (T12 * s3 - T23 * s1) - V * (T12 * d3) - U * (T23 * d1)
           r7 == W * (T12 * T12 * d3 - T23 * T23 * d1)
                   - V * (T12 * T12 * s3 + T12 * T13 * s2 - T13 * T23 * d2)
                   - U * (T23 * T23 * s1 + T13 * T23 * s2 - T12 * T13 * d2)
<1>1. Difference(W, V, U, T12, T23, T13, s1, s2, s3)
        = Combination(W, V, U, T12, T23, T13, d1 - 1 - c1, d2 - 1 - c2, d3 - 1 - c3)
            + (r6 + r7 - W * r1 + V * (r3 - r2) + U * (r5 - r4))
  BY SMTT(60) DEF Difference, Combination
<1>2. r1 = 0 /\ r2 = 0 /\ r3 = 0 /\ r4 = 0 /\ r5 = 0 /\ r6 = 0 /\ r7 = 0
  BY DEF Cancels, Balances
<1> DEFINE C == Combination(W, V, U, T12, T23, T13, d1 - 1 - c1, d2 - 1 - c2, d3 - 1 - c3)
<1>3. C \in Int
  BY DEF Combination
<1> HIDE DEF r1, r2, r3, r4, r5, r6, r7, C
<1>4. C + (0 + 0 - W * 0 + V * (0 - 0) + U * (0 - 0)) = C
  BY <1>3
<1>5. C + (r6 + r7 - W * r1 + V * (r3 - r2) + U * (r5 - r4)) = C
  BY <1>2, <1>4
<1> QED
  BY <1>1, <1>5 DEF C

LEMMA CombinationVanishes ==
  ASSUME NEW W \in Int, NEW V \in Int, NEW U \in Int,
         NEW T12 \in Int, NEW T23 \in Int, NEW T13 \in Int,
         NEW e1 \in Int, NEW e2 \in Int, NEW e3 \in Int,
         Vanishes(e1), Vanishes(e2), Vanishes(e3)
  PROVE  Vanishes(Combination(W, V, U, T12, T23, T13, e1, e2, e3))
<1> DEFINE f == T12 * (V - T12 * W)
           g == -(T23 * (U + T23 * W))
           h == T13 * (T23 * V + T12 * U)
<1>1. Combination(W, V, U, T12, T23, T13, e1, e2, e3) = e3 * f - e1 * g - e2 * h
  BY DEF Combination
<1>2. f \in Int /\ g \in Int /\ h \in Int
  OBVIOUS
<1> HIDE DEF f, g, h
<1>3. Vanishes(e3 * f - e1 * g - e2 * h)
  BY <1>2, ThreeVanish
<1> QED
  BY <1>1, <1>3

TermsOf(g1, g2, g3, T12, T23, T13, c1, c2, c3) ==
  /\ T12 = D * g1 * g2 /\ T23 = D * g2 * g3 /\ T13 = D * g1 * g3
  /\ c1 = D * g1 * g1 /\ c2 = D * g2 * g2 /\ c3 = D * g3 * g3

\* What the three terms D x x y y of two points have to do with the terms
\* D x^2 y^2 of one.
LEMMA TermsOfPairs ==
  ASSUME NEW g1 \in Int, NEW g2 \in Int, NEW g3 \in Int,
         NEW T12 \in Int, NEW T23 \in Int, NEW T13 \in Int,
         NEW c1 \in Int, NEW c2 \in Int, NEW c3 \in Int,
         TermsOf(g1, g2, g3, T12, T23, T13, c1, c2, c3)
  PROVE  Cancels(T12, T23, T13, c1, c2, c3)
<1>1. T12 * T12 * c3 = T23 * T23 * c1
  BY DIsInt DEF TermsOf
<1>2. T13 * T23 = T12 * c3 /\ T13 * T12 = T23 * c1
  BY DIsInt DEF TermsOf
<1>3. T12 * T23 * T23 = T13 * T23 * c2
  BY DIsInt DEF TermsOf
<1>4. T23 * T12 * T12 = T13 * T12 * c2
  BY DIsInt DEF TermsOf
<1> QED
  BY <1>1, <1>2, <1>3, <1>4 DEF Cancels

\* The coordinates of three points make the remaining two terms 0.
FirstIdentity(W, V, U, g1, g3, s1, s3, d1, d3) ==
  W * (g1 * s3 - g3 * s1) - V * (g1 * d3) - U * (g3 * d1)

SecondIdentity(W, V, U, g1, g2, g3, s1, s2, s3, d1, d2, d3) ==
  W * (g1 * g1 * g2 * d3 - g3 * g3 * g2 * d1)
    - V * (g1 * g1 * g2 * s3 + g1 * g1 * g3 * s2 - g1 * g3 * g3 * d2)
    - U * (g3 * g3 * g2 * s1 + g1 * g3 * g3 * s2 - g1 * g1 * g3 * d2)

\* From these: the difference vanishes for three points of the curve.
LEMMA DifferenceVanishes ==
  ASSUME NEW W \in Int, NEW V \in Int, NEW U \in Int,
         NEW g1 \in Int, NEW g2 \in Int, NEW g3 \in Int,
         NEW T12 \in Int, NEW T23 \in Int, NEW T13 \in Int,
         NEW s1 \in Int, NEW s2 \in Int, NEW s3 \in Int,
         NEW d1 \in Int, NEW d2 \in Int, NEW d3 \in Int,
         T12 = D * g1 * g2, T23 = D * g2 * g3, T13 = D * g1 * g3,
         FirstIdentity(W, V, U, g1, g3, s1, s3, d1, d3) = 0,
         SecondIdentity(W, V, U, g1, g2, g3, s1, s2, s3, d1, d2, d3) = 0,
         Vanishes(d1 - 1 - D * g1 * g1), Vanishes(d2 - 1 - D * g2 * g2),
         Vanishes(d3 - 1 - D * g3 * g3)
  PROVE  Vanishes(Difference(W, V, U, T12, T23, T13, s1, s2, s3))
<1>1. PICK c1, c2, c3 \in Int : c1 = D * g1 * g1 /\ c2 = D * g2 * g2 /\ c3 = D * g3 * g3
  BY DIsInt
<1>2. Cancels(T12, T23, T13, c1, c2, c3)
  <2>1. TermsOf(g1, g2, g3, T12, T23, T13, c1, c2, c3)
    BY <1>1 DEF TermsOf
  <2> QED
    BY <2>1, TermsOfPairs
<1>3. W * (T12 * s3 - T23 * s1) - V * (T12 * d3) - U * (T23 * d1) = 0
  <2>1. W * (T12 * s3 - T23 * s1) - V * (T12 * d3) - U * (T23 * d1)
          = (D * g2) * FirstIdentity(W, V, U, g1, g3, s1, s3, d1, d3)
    BY DIsInt DEF FirstIdentity
  <2>2. (D * g2) * 0 = 0
    BY DIsInt
  <2> QED
    BY <2>1, <2>2
<1>4. W * (T12 * T12 * d3 - T23 * T23 * d1)
        - V * (T12 * T12 * s3 + T12 * T13 * s2 - T13 * T23 * d2)
        - U * (T23 * T23 * s1 + T13 * T23 * s2 - T12 * T13 * d2) = 0
  <2>1. W * (T12 * T12 * d3 - T23 * T23 * d1)
          - V * (T12 * T12 * s3 + T12 * T13 * s2 - T13 * T23 * d2)
          - U * (T23 * T23 * s1 + T13 * T23 * s2 - T12 * T13 * d2)
          = (D * D * g2) * SecondIdentity(W, V, U, g1, g2, g3, s1, s2, s3, d1, d2, d3)
    BY DIsInt DEF SecondIdentity
  <2>2. (D * D * g2) * 0 = 0
    BY DIsInt
  <2> QED
    BY <2>1, <2>2
<1>5. Difference(W, V, U, T12, T23, T13, s1, s2, s3)
        = Combination(W, V, U, T12, T23, T13, d1 - 1 - c1, d2 - 1 - c2, d3 - 1 - c3)
  <2>1. Balances(W, V, U, T12, T23, T13, s1, s2, s3, d1, d2, d3)
    BY <1>3, <1>4 DEF Balances
  <2> QED
    BY <1>2, <2>1, DifferenceIs
<1>6. /\ d1 - 1 - c1 \in Int /\ d2 - 1 - c2 \in Int /\ d3 - 1 - c3 \in Int
      /\ Vanishes(d1 - 1 - c1) /\ Vanishes(d2 - 1 - c2) /\ Vanishes(d3 - 1 - c3)
  BY <1>1
<1>7. Vanishes(Combination(W, V, U, T12, T23, T13, d1 - 1 - c1, d2 - 1 - c2, d3 - 1 - c3))
  BY <1>6, CombinationVanishes
<1> QED
  BY <1>5, <1>7

\* The fraction f / m v + u h / p, with the denominator q n + k i j of the other
\* side, for both sides: what is to be congruent if both ways lead to one point.
CrossProduct(u1, v1, u3, v3, k1, k3, N1, N2, M1, M2, T12, T23) ==
  (N1 * (1 - T12) * v3 + u3 * N2 * (1 + T12)) * ((1 + T23) * (1 - T23) + k1 * M1 * M2)
    - (u1 * M2 * (1 + T23) + M1 * (1 - T23) * v1) * ((1 + T12) * (1 - T12) + k3 * N1 * N2)

\* The numerators of the sum of the first two points, N, and of the last two, M.
Parts(x1, y1, x2, y2, x3, y3, N1, N2, M1, M2, T12, T23) ==
  /\ N1 = x1 * y2 + x2 * y1 /\ N2 = y1 * y2 + x1 * x2
  /\ M1 = x2 * y3 + x3 * y2 /\ M2 = y2 * y3 + x2 * x3
  /\ T12 = D * x1 * x2 * y1 * y2 /\ T23 = D * x2 * x3 * y2 * y3

LEMMA AssociatesInX ==
  ASSUME NEW x1 \in Int, NEW y1 \in Int, NEW x2 \in Int, NEW y2 \in Int,
         NEW x3 \in Int, NEW y3 \in Int,
         Vanishes(Equation(x1, y1)), Vanishes(Equation(x2, y2)), Vanishes(Equation(x3, y3)),
         NEW N1 \in Int, NEW N2 \in Int, NEW M1 \in Int, NEW M2 \in Int,
         NEW T12 \in Int, NEW T23 \in Int,
         Parts(x1, y1, x2, y2, x3, y3, N1, N2, M1, M2, T12, T23)
  PROVE  Vanishes(CrossProduct(x1, y1, x3, y3, D * x1 * y1, D * x3 * y3, N1, N2, M1, M2, T12, T23))
<1> DEFINE a == x1 * y2 * y3
           b == x2 * y1 * y3
           c == x3 * y1 * y2
           e == x1 * x2 * x3
           W == a + b + c + e
           V == a + b - c - e
           U == a - b - c + e
           s1 == x1 * x1 + y1 * y1
           s2 == x2 * x2 + y2 * y2
           s3 == x3 * x3 + y3 * y3
           d1 == y1 * y1 - x1 * x1
           d2 == y2 * y2 - x2 * x2
           d3 == y3 * y3 - x3 * x3
           g1 == x1 * y1
           g2 == x2 * y2
           g3 == x3 * y3
           T13 == D * g1 * g3
<1>1. /\ FirstIdentity(W, V, U, g1, g3, s1, s3, d1, d3) = 0
      /\ SecondIdentity(W, V, U, g1, g2, g3, s1, s2, s3, d1, d2, d3) = 0
  <2>1. FirstIdentity(W, V, U, g1, g3, s1, s3, d1, d3) = 0
    BY SMTT(60) DEF FirstIdentity
  <2>2. SecondIdentity(W, V, U, g1, g2, g3, s1, s2, s3, d1, d2, d3) = 0
    BY SMTT(60) DEF SecondIdentity
  <2> QED
    BY <2>1, <2>2
<1>2. /\ W = N1 * y3 + x3 * N2 /\ V = N1 * y3 - x3 * N2
      /\ W = x1 * M2 + M1 * y1 /\ U = x1 * M2 - M1 * y1
  BY DEF Parts
<1>3. /\ (D * x1 * y1) * M1 * M2 = T12 * s3 + T13 * s2
      /\ (D * x3 * y3) * N1 * N2 = T23 * s1 + T13 * s2
  BY DIsInt DEF Parts
<1>4. T12 = D * g1 * g2 /\ T23 = D * g2 * g3 /\ T13 = D * g1 * g3
  BY DIsInt DEF Parts
<1>5. /\ d1 - 1 - D * g1 * g1 = Equation(x1, y1)
      /\ d2 - 1 - D * g2 * g2 = Equation(x2, y2)
      /\ d3 - 1 - D * g3 * g3 = Equation(x3, y3)
  BY DIsInt DEF Equation
<1>6. /\ W \in Int /\ V \in Int /\ U \in Int /\ g1 \in Int /\ g2 \in Int /\ g3 \in Int
      /\ s1 \in Int /\ s2 \in Int /\ s3 \in Int /\ d1 \in Int /\ d2 \in Int /\ d3 \in Int
      /\ T13 \in Int
  BY DIsInt
<1> HIDE DEF W, V, U, s1, s2, s3, d1, d2, d3, g1, g2, g3, T13
<1>7. Vanishes(Difference(W, V, U, T12, T23, T13, s1, s2, s3))
  BY <1>1, <1>4, <1>5, <1>6, DifferenceVanishes
<1> QED
  <2> DEFINE k1 == D * x1 * y1
             k3 == D * x3 * y3
  <2>1. k1 \in Int /\ k3 \in Int
    BY DIsInt
  <2>2. k1 * M1 * M2 = T12 * s3 + T13 * s2 /\ k3 * N1 * N2 = T23 * s1 + T13 * s2
    BY <1>3
  <2> HIDE DEF k1, k3
  <2>3. N1 * (1 - T12) * y3 + x3 * N2 * (1 + T12) = W - T12 * V
    BY <1>2, <1>6
  <2>4. x1 * M2 * (1 + T23) + M1 * (1 - T23) * y1 = W + T23 * U
    BY <1>2, <1>6
  <2>5. (1 + T23) * (1 - T23) + k1 * M1 * M2 = 1 - T23 * T23 + T12 * s3 + T13 * s2
    BY <1>6, <2>1, <2>2
  <2>6. (1 + T12) * (1 - T12) + k3 * N1 * N2 = 1 - T12 * T12 + T23 * s1 + T13 * s2
    BY <1>6, <2>1, <2>2
  <2>7. CrossProduct(x1, y1, x3, y3, k1, k3, N1, N2, M1, M2, T12, T23)
          = Difference(W, V, U, T12, T23, T13, s1, s2, s3)
    BY <2>3, <2>4, <2>5, <2>6 DEF CrossProduct, Difference
  <2> QED
    BY <1>7, <2>7 DEF k1, k3

LEMMA AssociatesInY ==
  ASSUME NEW x1 \in Int, NEW y1 \in Int, NEW x2 \in Int, NEW y2 \in Int,
         NEW x3 \in Int, NEW y3 \in Int,
         Vanishes(Equation(x1, y1)), Vanishes(Equation(x2, y2)), Vanishes(Equation(x3, y3)),
         NEW N1 \in Int, NEW N2 \in Int, NEW M1 \in Int, NEW M2 \in Int,
         NEW T12 \in Int, NEW T23 \in Int,
         Parts(x1, y1, x2, y2, x3, y3, N1, N2, M1, M2, T12, T23)
  PROVE  Vanishes(CrossProduct(y1, x1, y3, x3, -(D * x1 * y1), -(D * x3 * y3), N1, N2, M1, M2, T12, T23))
<1> DEFINE a == y1 * y2 * y3
           b == x1 * x2 * y3
           c == x1 * x3 * y2
           e == x2 * x3 * y1
           W == a + b + c + e
           V == c + e - a - b
           U == a + e - b - c
           s1 == -(x1 * x1 + y1 * y1)
           s2 == -(x2 * x2 + y2 * y2)
           s3 == -(x3 * x3 + y3 * y3)
           d1 == y1 * y1 - x1 * x1
           d2 == y2 * y2 - x2 * x2
           d3 == y3 * y3 - x3 * x3
           g1 == x1 * y1
           g2 == x2 * y2
           g3 == x3 * y3
           T13 == D * g1 * g3
<1>1. /\ FirstIdentity(W, V, U, g1, g3, s1, s3, d1, d3) = 0
      /\ SecondIdentity(W, V, U, g1, g2, g3, s1, s2, s3, d1, d2, d3) = 0
  <2>1. FirstIdentity(W, V, U, g1, g3, s1, s3, d1, d3) = 0
    BY SMTT(60) DEF FirstIdentity
  <2>2. SecondIdentity(W, V, U, g1, g2, g3, s1, s2, s3, d1, d2, d3) = 0
    BY SMTT(60) DEF SecondIdentity
  <2> QED
    BY <2>1, <2>2
<1>2. /\ W = N1 * x3 + y3 * N2 /\ V = N1 * x3 - y3 * N2
      /\ W = y1 * M2 + M1 * x1 /\ U = y1 * M2 - M1 * x1
  BY DEF Parts
<1>3. /\ (-(D * x1 * y1)) * M1 * M2 = T12 * s3 + T13 * s2
      /\ (-(D * x3 * y3)) * N1 * N2 = T23 * s1 + T13 * s2
  BY DIsInt DEF Parts
<1>4. T12 = D * g1 * g2 /\ T23 = D * g2 * g3 /\ T13 = D * g1 * g3
  BY DIsInt DEF Parts
<1>5. /\ d1 - 1 - D * g1 * g1 = Equation(x1, y1)
      /\ d2 - 1 - D * g2 * g2 = Equation(x2, y2)
      /\ d3 - 1 - D * g3 * g3 = Equation(x3, y3)
  BY DIsInt DEF Equation
<1>6. /\ W \in Int /\ V \in Int /\ U \in Int /\ g1 \in Int /\ g2 \in Int /\ g3 \in Int
      /\ s1 \in Int /\ s2 \in Int /\ s3 \in Int /\ d1 \in Int /\ d2 \in Int /\ d3 \in Int
      /\ T13 \in Int
  BY DIsInt
<1> HIDE DEF W, V, U, s1, s2, s3, d1, d2, d3, g1, g2, g3, T13
<1>7. Vanishes(Difference(W, V, U, T12, T23, T13, s1, s2, s3))
  BY <1>1, <1>4, <1>5, <1>6, DifferenceVanishes
<1> QED
  <2> DEFINE k1 == -(D * x1 * y1)
             k3 == -(D * x3 * y3)
  <2>1. k1 \in Int /\ k3 \in Int
    BY DIsInt
  <2>2. k1 * M1 * M2 = T12 * s3 + T13 * s2 /\ k3 * N1 * N2 = T23 * s1 + T13 * s2
    BY <1>3
  <2> HIDE DEF k1, k3
  <2>3. N1 * (1 - T12) * x3 + y3 * N2 * (1 + T12) = W - T12 * V
    BY <1>2, <1>6
  <2>4. y1 * M2 * (1 + T23) + M1 * (1 - T23) * x1 = W + T23 * U
    BY <1>2, <1>6
  <2>5. (1 + T23) * (1 - T23) + k1 * M1 * M2 = 1 - T23 * T23 + T12 * s3 + T13 * s2
    BY <1>6, <2>1, <2>2
  <2>6. (1 + T12) * (1 - T12) + k3 * N1 * N2 = 1 - T12 * T12 + T23 * s1 + T13 * s2
    BY <1>6, <2>1, <2>2
  <2>7. CrossProduct(y1, x1, y3, x3, k1, k3, N1, N2, M1, M2, T12, T23)
          = Difference(W, V, U, T12, T23, T13, s1, s2, s3)
    BY <2>3, <2>4, <2>5, <2>6 DEF CrossProduct, Difference
  <2> QED
    BY <1>7, <2>7 DEF k1, k3

\* A sum with its denominators: of the fractions f / p and g / m, cleared.
LEMMA ClearedSum ==
  ASSUME NEW x \in Int, NEW y \in Int, NEW p \in Int, NEW m \in Int,
         NEW f \in Int, NEW g \in Int, NEW u \in Int, NEW v \in Int,
         Same(x * p, f), Same(y * m, g)
  PROVE  Same((x * v + u * y) * (p * m), f * m * v + u * g * p)
<1> DEFINE a == x * p
           b == y * m
           c == m * v
           d == u * p
<1>1. a \in Int /\ b \in Int /\ c \in Int /\ d \in Int
  OBVIOUS
<1>2. (x * v + u * y) * (p * m) = a * c + b * d /\ f * m * v + u * g * p = f * c + g * d
  OBVIOUS
<1>3. Same(a, f) /\ Same(b, g)
  OBVIOUS
<1> HIDE DEF a, b, c, d
<1>4. Same(a * c, f * c) /\ Same(b * d, g * d)
  BY <1>1, <1>3, SameItself, SameProduct
<1>5. a * c \in Int /\ f * c \in Int /\ b * d \in Int /\ g * d \in Int
  BY <1>1
<1> QED
  BY <1>2, <1>4, <1>5, SameSum

\* And their product.
LEMMA ClearedProduct ==
  ASSUME NEW x \in Int, NEW y \in Int, NEW p \in Int, NEW m \in Int,
         NEW f \in Int, NEW g \in Int, NEW k \in Int,
         Same(x * p, f), Same(y * m, g)
  PROVE  Same((1 + k * x * y) * (p * m), p * m + k * f * g)
<1> DEFINE a == x * p
           b == y * m
           e == p * m
<1>1. a \in Int /\ b \in Int /\ e \in Int
  OBVIOUS
<1> DEFINE i == a * b
           j == f * g
<1>2. (1 + k * x * y) * (p * m) = e + i * k /\ p * m + k * f * g = e + j * k
  OBVIOUS
<1>3. Same(a, f) /\ Same(b, g)
  OBVIOUS
<1> HIDE DEF a, b, e
<1>4. Same(i, j) /\ i \in Int /\ j \in Int
  BY <1>1, <1>3, SameProduct
<1> HIDE DEF i, j
<1>5. Same(i * k, j * k) /\ i * k \in Int /\ j * k \in Int
  <2>1. Same(k, k)
    BY SameItself
  <2> QED
    BY <1>4, <2>1, SameProduct
<1>6. Same(e + i * k, e + j * k)
  BY <1>1, <1>5, SameItself, SameSum
<1> QED
  BY <1>2, <1>6

Clears(w, S, F, e, f, s) == Same(w * S, F) /\ Same(F * e, f) /\ Same(S * e, s)

\* Two fractions w = F / S and z = G / R whose cross product vanishes, after the
\* clearing, are congruent.
LEMMA FractionsMeet ==
  ASSUME NEW w \in Int, NEW z \in Int, NEW S \in Int, NEW R \in Int, NEW F \in Int, NEW G \in Int,
         NEW e \in Int, NEW h \in Int, NEW f \in Int, NEW g \in Int, NEW s \in Int, NEW r \in Int,
         Clears(w, S, F, e, f, s), Clears(z, R, G, h, g, r),
         Vanishes(f * r - g * s),
         ~Vanishes(S), ~Vanishes(R), ~Vanishes(e), ~Vanishes(h)
  PROVE  Same(w, z)
<1> DEFINE a == w * S
           b == z * R
           c == F * e
           d == G * h
           i == S * e
           j == R * h
<1>1. a \in Int /\ b \in Int /\ c \in Int /\ d \in Int /\ i \in Int /\ j \in Int
  OBVIOUS
<1>2. Same(a, F) /\ Same(b, G) /\ Same(c, f) /\ Same(d, g) /\ Same(i, s) /\ Same(j, r)
  BY DEF Clears
<1>3. ~Vanishes(i) /\ ~Vanishes(j)
  BY VanishingProduct
<1>4. (a * e) * j - (b * h) * i = (w - z) * (i * j)
  OBVIOUS
<1>5. c = F * e /\ d = G * h
  OBVIOUS
<1> HIDE DEF a, b, c, d, i, j
<1>6. Same((a * e) * j, f * r)
  <2>1. Same(a * e, c) /\ a * e \in Int
    BY <1>1, <1>2, <1>5, SameItself, SameProduct
  <2>2. Same(a * e, f)
    BY <1>1, <1>2, <2>1, SameOrder
  <2> QED
    BY <1>1, <1>2, <2>1, <2>2, SameProduct
<1>7. Same((b * h) * i, g * s)
  <2>1. Same(b * h, d) /\ b * h \in Int
    BY <1>1, <1>2, <1>5, SameItself, SameProduct
  <2>2. Same(b * h, g)
    BY <1>1, <1>2, <2>1, SameOrder
  <2> QED
    BY <1>1, <1>2, <2>1, <2>2, SameProduct
<1>8. Vanishes((w - z) * (i * j))
  <2> DEFINE k == (a * e) * j
             l == (b * h) * i
             m == f * r
             n == g * s
  <2>1. k \in Int /\ l \in Int /\ m \in Int /\ n \in Int
    BY <1>1
  <2>2. Same(k, m) /\ Same(l, n) /\ Vanishes(m - n) /\ (w - z) * (i * j) = k - l
    BY <1>4, <1>6, <1>7
  <2> HIDE DEF k, l, m, n
  <2>3. Vanishes((k - l) - (m - n)) /\ k - l \in Int /\ m - n \in Int /\ (k - l) - (m - n) \in Int
    <3>1. Same(k - l, m - n)
      BY <2>1, <2>2, SameSum
    <3> QED
      BY <2>1, <3>1 DEF Same
  <2>4. ((k - l) - (m - n)) + (m - n) = k - l
    BY <2>1
  <2> QED
    BY <2>2, <2>3, <2>4, VanishingSum
<1>9. ~Vanishes(i * j) /\ i * j \in Int /\ w - z \in Int
  BY <1>1, <1>3, VanishingProduct
<1> QED
  BY <1>8, <1>9, VanishingProduct DEF Same

\* x, y is the sum of two points, T the term that its denominators have.
IsSum(x1, y1, x2, y2, T, x, y) ==
  /\ T = D * x1 * x2 * y1 * y2
  /\ Same(x * (1 + T), x1 * y2 + x2 * y1)
  /\ Same(y * (1 - T), y1 * y2 + x1 * x2)
  /\ ~Vanishes(1 + T) /\ ~Vanishes(1 - T)

LEMMA SumIsSum ==
  ASSUME NEW a, NEW b, OnCurve(a), OnCurve(b)
  PROVE  /\ AddPoint(a, b) \in [x : Residues, y : Residues] /\ OnCurve(AddPoint(a, b))
         /\ \E T \in Int : IsSum(a.x, a.y, b.x, b.y, T, AddPoint(a, b).x, AddPoint(a, b).y)
<1>1. /\ a.x \in Int /\ a.y \in Int /\ b.x \in Int /\ b.y \in Int
      /\ Vanishes(Equation(a.x, a.y)) /\ Vanishes(Equation(b.x, b.y))
  BY DEF OnCurve
<1>2. PICK T \in Int : T = D * a.x * b.x * a.y * b.y
  BY <1>1, DIsInt
<1>3. /\ AddPoint(a, b) \in [x : Residues, y : Residues]
      /\ Vanishes(AddPoint(a, b).x * (1 + T) - (a.x * b.y + b.x * a.y))
      /\ Vanishes(AddPoint(a, b).y * (1 - T) - (a.y * b.y + a.x * b.x))
  BY <1>2, SumIs
<1>4. OnCurve(AddPoint(a, b))
  BY AdditionIsComplete
<1>5. ~Vanishes(1 - T * T)
  <2>1. T - D * a.x * b.x * a.y * b.y = 0
    BY <1>2
  <2>2. Vanishes(0)
    BY Prime DEF Vanishes
  <2>3. Vanishes(T - D * a.x * b.x * a.y * b.y)
    BY <2>1, <2>2, Zenon
  <2> QED
    BY <1>1, <2>3, Complete
<1>6. ~Vanishes(1 + T) /\ ~Vanishes(1 - T)
  <2>1. 1 - T * T = (1 + T) * (1 - T) /\ 1 + T \in Int /\ 1 - T \in Int
    OBVIOUS
  <2> QED
    BY <1>5, <2>1, VanishingMultiple
<1>7. IsSum(a.x, a.y, b.x, b.y, T, AddPoint(a, b).x, AddPoint(a, b).y)
  BY <1>2, <1>3, <1>6 DEF IsSum, Same
<1> QED
  BY <1>3, <1>4, <1>7

\* The addition of the curve is associative (addPoint): the rounds of scalarMult
\* may add in any grouping.
THEOREM AdditionIsAssociative ==
  ASSUME NEW a, NEW b, NEW c, OnCurve(a), OnCurve(b), OnCurve(c)
  PROVE  AddPoint(AddPoint(a, b), c) = AddPoint(a, AddPoint(b, c))
<1> DEFINE ab  == AddPoint(a, b)
           bc  == AddPoint(b, c)
           abc == AddPoint(ab, c)
           cba == AddPoint(a, bc)
<1>1. /\ OnCurve(ab) /\ OnCurve(bc)
      /\ \E T \in Int : IsSum(a.x, a.y, b.x, b.y, T, ab.x, ab.y)
      /\ \E T \in Int : IsSum(b.x, b.y, c.x, c.y, T, bc.x, bc.y)
  BY SumIsSum
<1> HIDE DEF ab, bc
<1>2. /\ abc \in [x : Residues, y : Residues] /\ OnCurve(abc)
      /\ cba \in [x : Residues, y : Residues] /\ OnCurve(cba)
      /\ \E T \in Int : IsSum(ab.x, ab.y, c.x, c.y, T, abc.x, abc.y)
      /\ \E T \in Int : IsSum(a.x, a.y, bc.x, bc.y, T, cba.x, cba.y)
  BY <1>1, SumIsSum
<1> HIDE DEF abc, cba
<1>3. PICK x1, y1, x2, y2, x3, y3 \in Int :
        x1 = a.x /\ y1 = a.y /\ x2 = b.x /\ y2 = b.y /\ x3 = c.x /\ y3 = c.y
  BY DEF OnCurve
<1>4. PICK sx, sy, rx, ry, lx, ly, ux, uy \in Int :
        /\ sx = ab.x /\ sy = ab.y /\ rx = bc.x /\ ry = bc.y
        /\ lx = abc.x /\ ly = abc.y /\ ux = cba.x /\ uy = cba.y
  BY <1>1, <1>2 DEF OnCurve
<1>5. PICK T12, T23, TL, TU \in Int :
        /\ IsSum(x1, y1, x2, y2, T12, sx, sy) /\ IsSum(x2, y2, x3, y3, T23, rx, ry)
        /\ IsSum(sx, sy, x3, y3, TL, lx, ly) /\ IsSum(x1, y1, rx, ry, TU, ux, uy)
  BY <1>1, <1>2, <1>3, <1>4
<1>6. Vanishes(Equation(x1, y1)) /\ Vanishes(Equation(x2, y2)) /\ Vanishes(Equation(x3, y3))
  BY <1>3 DEF OnCurve
<1>7. PICK N1, N2, M1, M2 \in Int : Parts(x1, y1, x2, y2, x3, y3, N1, N2, M1, M2, T12, T23)
  <2> DEFINE N1 == x1 * y2 + x2 * y1
             N2 == y1 * y2 + x1 * x2
             M1 == x2 * y3 + x3 * y2
             M2 == y2 * y3 + x2 * x3
  <2>1. N1 \in Int /\ N2 \in Int /\ M1 \in Int /\ M2 \in Int
    OBVIOUS
  <2>2. T12 = D * x1 * x2 * y1 * y2 /\ T23 = D * x2 * x3 * y2 * y3
    BY <1>5 DEF IsSum
  <2>3. Parts(x1, y1, x2, y2, x3, y3, N1, N2, M1, M2, T12, T23)
    BY <2>2 DEF Parts
  <2> HIDE DEF N1, N2, M1, M2
  <2> QED
    BY <2>1, <2>3
<1> DEFINE p == 1 + T12
           m == 1 - T12
           q == 1 + T23
           n == 1 - T23
<1>8. p \in Int /\ m \in Int /\ q \in Int /\ n \in Int
  OBVIOUS
<1>9. /\ Same(sx * p, N1) /\ Same(sy * m, N2) /\ Same(rx * q, M1) /\ Same(ry * n, M2)
      /\ ~Vanishes(p) /\ ~Vanishes(m) /\ ~Vanishes(q) /\ ~Vanishes(n)
  BY <1>5, <1>7 DEF IsSum, Parts
<1>10. Same(lx, ux)
  <2> DEFINE k1 == D * x1 * y1
             k3 == D * x3 * y3
             F  == sx * y3 + x3 * sy
             G  == rx * y1 + x1 * ry
             S  == 1 + k3 * sx * sy
             R  == 1 + k1 * rx * ry
             f  == N1 * m * y3 + x3 * N2 * p
             g  == M1 * n * y1 + x1 * M2 * q
             e  == p * m
             h  == q * n
             s  == e + k3 * N1 * N2
             r  == h + k1 * M1 * M2
  <2>1. k1 \in Int /\ k3 \in Int
    BY DIsInt
  <2>2. 1 + TL = S /\ 1 + TU = R
    BY <1>5, DIsInt DEF IsSum
  <2>3. Same(lx * S, F) /\ Same(ux * R, G) /\ ~Vanishes(S) /\ ~Vanishes(R)
    <3>1. /\ Same(lx * (1 + TL), F) /\ ~Vanishes(1 + TL)
      <4>1. Same(lx * (1 + TL), sx * y3 + x3 * sy) /\ ~Vanishes(1 + TL)
        BY <1>5 DEF IsSum
      <4>2. sx * y3 + x3 * sy = F
        OBVIOUS
      <4> HIDE DEF F
      <4> QED
        BY <4>1, <4>2
    <3>2. /\ Same(ux * (1 + TU), G) /\ ~Vanishes(1 + TU)
      <4>1. Same(ux * (1 + TU), x1 * ry + rx * y1) /\ ~Vanishes(1 + TU)
        BY <1>5 DEF IsSum
      <4>2. x1 * ry + rx * y1 = G
        OBVIOUS
      <4> HIDE DEF G
      <4> QED
        BY <4>1, <4>2
    <3> HIDE DEF S, R
    <3> QED
      BY <2>2, <3>1, <3>2
  <2>4. Vanishes(f * r - g * s)
    <3>1. Vanishes(CrossProduct(x1, y1, x3, y3, k1, k3, N1, N2, M1, M2, T12, T23))
      BY <1>6, <1>7, AssociatesInX
    <3> HIDE DEF k1, k3
    <3>2. CrossProduct(x1, y1, x3, y3, k1, k3, N1, N2, M1, M2, T12, T23)
            = f * r - (x1 * M2 * q + M1 * n * y1) * s
      BY DEF CrossProduct
    <3>3. x1 * M2 * q + M1 * n * y1 = g
      BY <1>8
    <3> QED
      BY <3>1, <3>2, <3>3
  <2> HIDE DEF k1, k3, p, m, q, n
  <2>5. Same(F * e, f) /\ Same(G * h, g)
    <3>1. Same(F * e, f)
      BY <1>8, <1>9, ClearedSum, ZenonT(40)
    <3>2. Same(G * h, g)
      BY <1>8, <1>9, ClearedSum, ZenonT(40)
    <3> QED
      BY <3>1, <3>2
  <2>6. Same(S * e, s) /\ Same(R * h, r)
    <3>1. Same(S * e, s)
      BY <1>8, <1>9, <2>1, ClearedProduct, ZenonT(40)
    <3>2. Same(R * h, r)
      BY <1>8, <1>9, <2>1, ClearedProduct, ZenonT(40)
    <3> QED
      BY <3>1, <3>2
  <2>7. ~Vanishes(e) /\ ~Vanishes(h)
    BY <1>8, <1>9, VanishingProduct
  <2>8. /\ F \in Int /\ G \in Int /\ S \in Int /\ R \in Int /\ f \in Int /\ g \in Int
        /\ e \in Int /\ h \in Int /\ s \in Int /\ r \in Int
    BY <1>8, <2>1
  <2> HIDE DEF F, G, S, R, f, g, e, h, s, r
  <2>9. Clears(lx, S, F, e, f, s) /\ Clears(ux, R, G, h, g, r)
    BY <2>3, <2>5, <2>6 DEF Clears
  <2> QED
    BY <2>3, <2>4, <2>7, <2>8, <2>9, FractionsMeet
<1>11. Same(ly, uy)
  <2> DEFINE k1 == -(D * x1 * y1)
             k3 == -(D * x3 * y3)
             F  == sx * x3 + y3 * sy
             G  == rx * x1 + y1 * ry
             S  == 1 + k3 * sx * sy
             R  == 1 + k1 * rx * ry
             f  == N1 * m * x3 + y3 * N2 * p
             g  == M1 * n * x1 + y1 * M2 * q
             e  == p * m
             h  == q * n
             s  == e + k3 * N1 * N2
             r  == h + k1 * M1 * M2
  <2>1. k1 \in Int /\ k3 \in Int
    BY DIsInt
  <2>2. 1 - TL = S /\ 1 - TU = R
    BY <1>5, DIsInt DEF IsSum
  <2>3. Same(ly * S, F) /\ Same(uy * R, G) /\ ~Vanishes(S) /\ ~Vanishes(R)
    <3>1. /\ Same(ly * (1 - TL), F) /\ ~Vanishes(1 - TL)
      <4>1. Same(ly * (1 - TL), sy * y3 + sx * x3) /\ ~Vanishes(1 - TL)
        BY <1>5 DEF IsSum
      <4>2. sy * y3 + sx * x3 = F
        OBVIOUS
      <4> HIDE DEF F
      <4> QED
        BY <4>1, <4>2
    <3>2. /\ Same(uy * (1 - TU), G) /\ ~Vanishes(1 - TU)
      <4>1. Same(uy * (1 - TU), y1 * ry + x1 * rx) /\ ~Vanishes(1 - TU)
        BY <1>5 DEF IsSum
      <4>2. y1 * ry + x1 * rx = G
        OBVIOUS
      <4> HIDE DEF G
      <4> QED
        BY <4>1, <4>2
    <3> HIDE DEF S, R
    <3> QED
      BY <2>2, <3>1, <3>2
  <2>4. Vanishes(f * r - g * s)
    <3>1. Vanishes(CrossProduct(y1, x1, y3, x3, k1, k3, N1, N2, M1, M2, T12, T23))
      BY <1>6, <1>7, AssociatesInY
    <3> HIDE DEF k1, k3
    <3>2. CrossProduct(y1, x1, y3, x3, k1, k3, N1, N2, M1, M2, T12, T23)
            = f * r - (y1 * M2 * q + M1 * n * x1) * s
      BY DEF CrossProduct
    <3>3. y1 * M2 * q + M1 * n * x1 = g
      BY <1>8
    <3> QED
      BY <3>1, <3>2, <3>3
  <2> HIDE DEF k1, k3, p, m, q, n
  <2>5. Same(F * e, f) /\ Same(G * h, g)
    <3>1. Same(F * e, f)
      BY <1>8, <1>9, ClearedSum, ZenonT(40)
    <3>2. Same(G * h, g)
      BY <1>8, <1>9, ClearedSum, ZenonT(40)
    <3> QED
      BY <3>1, <3>2
  <2>6. Same(S * e, s) /\ Same(R * h, r)
    <3>1. Same(S * e, s)
      BY <1>8, <1>9, <2>1, ClearedProduct, ZenonT(40)
    <3>2. Same(R * h, r)
      BY <1>8, <1>9, <2>1, ClearedProduct, ZenonT(40)
    <3> QED
      BY <3>1, <3>2
  <2>7. ~Vanishes(e) /\ ~Vanishes(h)
    BY <1>8, <1>9, VanishingProduct
  <2>8. /\ F \in Int /\ G \in Int /\ S \in Int /\ R \in Int /\ f \in Int /\ g \in Int
        /\ e \in Int /\ h \in Int /\ s \in Int /\ r \in Int
    BY <1>8, <2>1
  <2> HIDE DEF F, G, S, R, f, g, e, h, s, r
  <2>9. Clears(ly, S, F, e, f, s) /\ Clears(uy, R, G, h, g, r)
    BY <2>3, <2>5, <2>6 DEF Clears
  <2> QED
    BY <2>3, <2>4, <2>7, <2>8, <2>9, FractionsMeet
<1>12. lx \in Residues /\ ly \in Residues /\ ux \in Residues /\ uy \in Residues
  BY <1>2, <1>4
<1>13. lx = ux /\ ly = uy
  BY <1>10, <1>11, <1>12, SameResidue
<1>14. abc = cba
  <2>1. abc = [x |-> abc.x, y |-> abc.y] /\ cba = [x |-> cba.x, y |-> cba.y]
    BY <1>2
  <2> QED
    BY <1>4, <1>13, <2>1
<1> QED
  BY <1>14 DEF ab, bc, abc, cba

LEMMA CurveIs == \A p : p \in Curve <=> p \in [x : Residues, y : Residues] /\ OnCurve(p)
<1> SUFFICES ASSUME NEW p \in [x : Residues, y : Residues]
             PROVE  p \in Curve <=> OnCurve(p)
  BY DEF Curve
<1>1. PICK x, y \in Int : x = p.x /\ y = p.y
  BY ResiduesAreInts
<1> DEFINE f == D * x * x
           g == y * y
           i == f % P
           j == g % P
           e == y * y - x * x - 1 - i * j
<1>2. f \in Int /\ g \in Int /\ Equation(x, y) \in Int /\ f * g = D * x * x * y * y
  BY DIsInt DEF Equation
<1>3. p \in [x : Int, y : Int]
  BY ResiduesAreInts
<1>4. p \in Curve <=> e % P = 0
  BY <1>1 DEF Curve
<1> HIDE DEF f, g
<1>5. i \in Int /\ j \in Int /\ Same(i, f) /\ Same(j, g)
  BY <1>2, Reduced, ResiduesAreInts DEF Same
<1> HIDE DEF i, j
<1>6. Same(i * j, f * g)
  BY <1>2, <1>5, SameProduct
<1>7. e \in Int /\ i * j - f * g \in Int
  BY <1>2, <1>5
<1>8. e + (i * j - f * g) = Equation(x, y) /\ Equation(x, y) - (i * j - f * g) = e
  BY <1>2, <1>5, DIsInt DEF Equation
<1> HIDE DEF e
<1>9. Vanishes(e) <=> Vanishes(Equation(x, y))
  BY <1>2, <1>6, <1>7, <1>8, VanishingSum DEF Same
<1> QED
  BY <1>1, <1>3, <1>4, <1>7, <1>9, ZeroResidue DEF OnCurve

LEMMA IdentityOnCurve == Identity \in Curve
<1>1. Equation(0, 1) = 0
  BY DIsInt DEF Equation
<1>2. Vanishes(0)
  BY Prime DEF Vanishes
<1>3. OnCurve(Identity)
  BY <1>1, <1>2 DEF OnCurve, Identity
<1>4. Identity \in [x : Residues, y : Residues]
  BY Prime DEF Identity, Residues
<1> QED
  BY <1>3, <1>4, CurveIs

LEMMA SumOnCurve == \A a, b \in Curve : AddPoint(a, b) \in Curve
<1> SUFFICES ASSUME NEW a \in Curve, NEW b \in Curve
             PROVE  AddPoint(a, b) \in Curve
  OBVIOUS
<1>1. OnCurve(a) /\ OnCurve(b)
  BY CurveIs
<1>2. AddPoint(a, b) \in [x : Residues, y : Residues] /\ OnCurve(AddPoint(a, b))
  BY <1>1, SumIsSum
<1> QED
  BY <1>2, CurveIs

LEMMA Associates ==
  \A a, b, c \in Curve : AddPoint(AddPoint(a, b), c) = AddPoint(a, AddPoint(b, c))
<1> SUFFICES ASSUME NEW a \in Curve, NEW b \in Curve, NEW c \in Curve
             PROVE  AddPoint(AddPoint(a, b), c) = AddPoint(a, AddPoint(b, c))
  OBVIOUS
<1>1. OnCurve(a) /\ OnCurve(b) /\ OnCurve(c)
  BY CurveIs
<1> QED
  BY <1>1, AdditionIsAssociative

\* The identity is one, on both sides.
LEMMA IdentityAdds ==
  ASSUME NEW p \in Curve
  PROVE  AddPoint(p, Identity) = p /\ AddPoint(Identity, p) = p
<1> DEFINE l == AddPoint(p, Identity)
           r == AddPoint(Identity, p)
<1>1. /\ OnCurve(p) /\ OnCurve(Identity) /\ p \in [x : Residues, y : Residues]
      /\ Identity.x = 0 /\ Identity.y = 1
  BY CurveIs, IdentityOnCurve DEF Identity
<1>2. /\ l \in [x : Residues, y : Residues] /\ r \in [x : Residues, y : Residues]
      /\ \E T \in Int : IsSum(p.x, p.y, Identity.x, Identity.y, T, l.x, l.y)
      /\ \E T \in Int : IsSum(Identity.x, Identity.y, p.x, p.y, T, r.x, r.y)
  BY <1>1, SumIsSum
<1> HIDE DEF l, r
<1>3. PICK x, y \in Int : x = p.x /\ y = p.y
  BY <1>1, ResiduesAreInts
<1>4. PICK lx, ly, rx, ry \in Int : lx = l.x /\ ly = l.y /\ rx = r.x /\ ry = r.y
  BY <1>2, ResiduesAreInts
<1>5. PICK T, U \in Int : IsSum(x, y, 0, 1, T, lx, ly) /\ IsSum(0, 1, x, y, U, rx, ry)
  BY <1>1, <1>2, <1>3, <1>4
<1>6. Same(lx, x) /\ Same(ly, y)
  <2>1. T = 0
    BY <1>5, DIsInt DEF IsSum
  <2>2. Same(lx * (1 + T), x * 1 + 0 * y) /\ Same(ly * (1 - T), y * 1 + x * 0)
    BY <1>5 DEF IsSum
  <2>3. lx * (1 + T) = lx /\ ly * (1 - T) = ly /\ x * 1 + 0 * y = x /\ y * 1 + x * 0 = y
    BY <2>1
  <2> QED
    BY <2>2, <2>3
<1>7. Same(rx, x) /\ Same(ry, y)
  <2>1. U = 0
    BY <1>5, DIsInt DEF IsSum
  <2>2. Same(rx * (1 + U), 0 * y + x * 1) /\ Same(ry * (1 - U), 1 * y + 0 * x)
    BY <1>5 DEF IsSum
  <2>3. rx * (1 + U) = rx /\ ry * (1 - U) = ry /\ 0 * y + x * 1 = x /\ 1 * y + 0 * x = y
    BY <2>1
  <2> QED
    BY <2>2, <2>3
<1>8. /\ x \in Residues /\ y \in Residues /\ lx \in Residues /\ ly \in Residues
      /\ rx \in Residues /\ ry \in Residues
  BY <1>1, <1>2, <1>3, <1>4
<1>9. lx = x /\ ly = y /\ rx = x /\ ry = y
  BY <1>6, <1>7, <1>8, SameResidue
<1>10. /\ p = [x |-> p.x, y |-> p.y] /\ l = [x |-> l.x, y |-> l.y] /\ r = [x |-> r.x, y |-> r.y]
  BY <1>1, <1>2
<1>11. l = p /\ r = p
  BY <1>3, <1>4, <1>9, <1>10
<1> QED
  BY <1>11 DEF l, r

-----------------------------------------------------------------------------
\* Decoding.

LEMMA RootType == \A a \in Int : RootCandidate(a) \in Residues
<1> SUFFICES ASSUME NEW a \in Int
             PROVE  RootCandidate(a) \in Residues
  OBVIOUS
<1>1. (P + 3) \div 8 \in Nat /\ (P - 1) \div 4 \in Nat
  BY Prime
<1> DEFINE r == Power(a, (P + 3) \div 8)
           i == RootOfMinusOne
<1>2. r \in Residues /\ i \in Residues
  BY <1>1, PowerType DEF RootOfMinusOne
<1>3. RootCandidate(a) = IF (r * r) % P = a THEN r ELSE (r * i) % P
  BY DEF RootCandidate
<1> HIDE DEF r, i
<1>4. r * i \in Int
  BY <1>2, ResiduesAreInts
<1>5. (r * i) % P \in Residues
  BY <1>4, Reduced
<1> QED
  BY <1>2, <1>3, <1>5

\* The other root has the other sign.
LEMMA OtherRoot ==
  ASSUME NEW x \in Int, NEW y \in Int, Vanishes(Equation(x, y))
  PROVE  Vanishes(Equation(P - x, y))
<1> DEFINE k == (P - 2 * x) * (1 + D * y * y)
<1>1. k \in Int /\ Equation(x, y) \in Int /\ P * k \in Int
  BY DIsInt DEF Equation
<1>2. Equation(P - x, y) = Equation(x, y) - P * k
  BY DIsInt DEF Equation
<1> HIDE DEF k
<1>3. Vanishes(P * k)
  BY <1>1 DEF Vanishes
<1> QED
  BY <1>1, <1>2, <1>3, VanishingSum

\* The number whose root is taken is x^2 for the given y.
LEMMA SquareOfX ==
  ASSUME NEW x \in Int, NEW y \in Int,
         (x * x) % P = ((y * y - 1) * ModInverse(XDenominator(y))) % P
  PROVE  Vanishes(Equation(x, y))
<1> DEFINE den == XDenominator(y)
           n   == y * y - 1
           xx  == (n * ModInverse(den)) % P
           e   == D * y * y + 1
<1>1. n \in Int /\ e \in Int /\ den = e % P
  BY DIsInt DEF XDenominator
<1> HIDE DEF n, e
<1>2. den \in Residues /\ Vanishes(den - e)
  BY <1>1, Reduced
<1>3. den \in Int /\ den # 0
  BY <1>2, ResiduesAreInts, DecodeDivides
<1> HIDE DEF den
<1>4. ~Vanishes(den)
  BY <1>2, <1>3, NoSmallVanishes, Prime DEF Residues
<1>5. xx \in Residues /\ Vanishes(xx * den - n)
  BY <1>1, <1>3, <1>4, Quotient
<1>6. xx \in Int
  BY <1>5, ResiduesAreInts
<1>7. (x * x) % P = xx /\ x * x \in Int
  BY DEF den, n
<1> HIDE DEF xx
<1>8. Vanishes(xx - x * x)
  BY <1>5, <1>7, ResidueOf
<1> DEFINE f == xx - x * x
           g == xx * den - n
           h == den - e
           one == 1
           m == -(x * x)
<1>9. f \in Int /\ g \in Int /\ h \in Int /\ one \in Int /\ m \in Int
  BY <1>1, <1>3, <1>6
<1>10. Equation(x, y) = f * den - g * one - h * m
  <2>1. Equation(x, y) = n - x * x * e
    BY DIsInt DEF Equation, n, e
  <2>2. n - x * x * e = f * den - g * one - h * m
    BY <1>1, <1>3, <1>6
  <2> QED
    BY <2>1, <2>2
<1>11. Vanishes(f) /\ Vanishes(g) /\ Vanishes(h)
  BY <1>2, <1>5, <1>8
<1> HIDE DEF f, g, h, one, m
<1>12. Vanishes(f * den - g * one - h * m)
  BY <1>3, <1>9, <1>11, ThreeVanish
<1> QED
  BY <1>10, <1>12

\* What an encoding is made of.
LEMMA Split ==
  ASSUME NEW raw \in Nat
  PROVE  /\ raw % SignBit \in Nat /\ raw \div SignBit \in Nat
         /\ raw % SignBit < SignBit
         /\ raw = SignBit * (raw \div SignBit) + (raw % SignBit)
         /\ raw \in Encodings => raw \div SignBit \in {0, 1}
<1>1. SignBit \in Nat /\ SignBit > 0
  BY FieldAssumption, Prime
<1> DEFINE y == raw % SignBit
           s == raw \div SignBit
<1>2. y \in 0..SignBit - 1 /\ s \in Int /\ raw = SignBit * s + y
  BY <1>1, Division
<1> HIDE DEF y, s
<1>3. y \in Nat /\ y < SignBit
  BY <1>1, <1>2
<1>4. s >= 0
  <2> SUFFICES ASSUME s <= -1
               PROVE  FALSE
    BY <1>2
  <2>1. SignBit * s <= -SignBit
    BY <1>1, <1>2
  <2> QED
    BY <1>1, <1>2, <1>3, <2>1
<1>5. raw \in Encodings => s \in {0, 1}
  <2> SUFFICES ASSUME raw < 2 * SignBit, s >= 2
               PROVE  FALSE
    BY <1>1, <1>2, <1>4 DEF Encodings
  <2>1. SignBit * s >= 2 * SignBit
    BY <1>1, <1>2
  <2> QED
    BY <1>1, <1>2, <1>3, <2>1
<1>6. s \in Nat /\ raw = SignBit * s + y
  BY <1>2, <1>4
<1>7. /\ y \in Nat /\ s \in Nat /\ y < SignBit /\ raw = SignBit * s + y
      /\ raw \in Encodings => s \in {0, 1}
  BY <1>3, <1>5, <1>6
<1> QED
  BY <1>7 DEF y, s

\* What decodePoint returns, if it returns a point.
LEMMA Decoded ==
  ASSUME NEW raw \in Nat, DecodePoint(raw) # NoPoint
  PROVE  LET y    == raw % SignBit
             sign == raw \div SignBit
             x    == RootCandidate(((y * y - 1) * ModInverse(XDenominator(y))) % P)
         IN /\ y < P /\ ~(x = 0 /\ sign = 1)
            /\ x \in Residues
            /\ Vanishes(Equation(x, y))
            /\ DecodePoint(raw) = [x |-> IF x % 2 # sign THEN P - x ELSE x, y |-> y]
<1> DEFINE y    == raw % SignBit
           sign == raw \div SignBit
           xx   == ((y * y - 1) * ModInverse(XDenominator(y))) % P
           x    == RootCandidate(xx)
<1>1. y \in Int
  BY Split
<1>2. /\ y < P /\ (x * x) % P = xx /\ ~(x = 0 /\ sign = 1)
      /\ DecodePoint(raw) = [x |-> IF x % 2 # sign THEN P - x ELSE x, y |-> y]
  <2>1. DecodePoint(raw)
          = IF y >= P \/ (x * x) % P # xx \/ (x = 0 /\ sign = 1) THEN NoPoint
            ELSE [x |-> IF x % 2 # sign THEN P - x ELSE x, y |-> y]
    BY DEF DecodePoint
  <2>2. y >= P \/ y < P
    BY <1>1, Prime
  <2> HIDE DEF x, y, xx, sign
  <2> QED
    BY <2>1, <2>2
<1>3. xx \in Int
  <2> DEFINE n == (y * y - 1) * ModInverse(XDenominator(y))
  <2>1. XDenominator(y) \in Int
    <3>1. D * y * y + 1 \in Int
      BY <1>1, DIsInt
    <3> QED
      BY <3>1, Reduced, ResiduesAreInts DEF XDenominator
  <2>2. XDenominator(y) # 0 /\ XDenominator(y) \in Residues
    <3>1. D * y * y + 1 \in Int
      BY <1>1, DIsInt
    <3> QED
      BY <1>1, <3>1, Reduced, DecodeDivides DEF XDenominator
  <2>3. ~Vanishes(XDenominator(y))
    BY <2>1, <2>2, NoSmallVanishes, Prime DEF Residues
  <2>4. y * y - 1 \in Int
    BY <1>1
  <2> HIDE DEF y
  <2> QED
    BY <2>1, <2>3, <2>4, Quotient, ResiduesAreInts
<1>4. x \in Residues /\ x \in Int
  BY <1>3, RootType, ResiduesAreInts
<1>5. Vanishes(Equation(x, y))
  <2> HIDE DEF x, y
  <2> QED
    BY <1>1, <1>2, <1>4, SquareOfX DEF xx
<1> QED
  BY <1>2, <1>4, <1>5

\* Every key that is decoded is a point of the curve (decodePoint).
THEOREM DecodedIsOnTheCurve ==
  ASSUME NEW raw \in Nat, DecodePoint(raw) # NoPoint
  PROVE  /\ OnCurve(DecodePoint(raw))
         /\ raw \in Encodings => DecodePoint(raw) \in Curve
<1> DEFINE y    == raw % SignBit
           sign == raw \div SignBit
           x    == RootCandidate(((y * y - 1) * ModInverse(XDenominator(y))) % P)
           r    == IF x % 2 # sign THEN P - x ELSE x
<1>1. y \in Residues /\ y \in Int /\ (raw \in Encodings => sign \in {0, 1})
  <2>1. y \in Nat /\ y < P
    BY Split, Decoded
  <2> QED
    BY <2>1, Split, Prime DEF Residues
<1>2. /\ x \in Residues /\ ~(x = 0 /\ sign = 1)
      /\ Vanishes(Equation(x, y)) /\ DecodePoint(raw) = [x |-> r, y |-> y]
  BY Decoded
<1> HIDE DEF x, y
<1>3. x \in Int
  BY <1>2, ResiduesAreInts
<1>4. raw \in Encodings => r \in Residues
  <2> SUFFICES ASSUME sign \in {0, 1}
               PROVE  r \in Residues
    BY <1>1
  <2> HIDE DEF sign
  <2> QED
    BY <1>2, Prime DEF Residues
<1>5. r \in Int /\ Vanishes(Equation(r, y))
  BY <1>1, <1>2, <1>3, OtherRoot, DIsInt
<1> HIDE DEF r
<1>6. OnCurve([x |-> r, y |-> y])
  BY <1>1, <1>5 DEF OnCurve
<1>7. raw \in Encodings => [x |-> r, y |-> y] \in Curve
  BY <1>1, <1>4, <1>6, CurveIs
<1> QED
  BY <1>2, <1>6, <1>7

\* A point has one encoding: what is decoded is encoded to the number it was
\* decoded from, so no owner has two keys that are accepted (decodePoint's checks
\* of y, and of the sign where x is 0).
THEOREM OneKeyPerPoint ==
  ASSUME NEW raw \in Encodings, DecodePoint(raw) # NoPoint
  PROVE  Encode(DecodePoint(raw)) = raw
<1> DEFINE y    == raw % SignBit
           sign == raw \div SignBit
           x    == RootCandidate(((y * y - 1) * ModInverse(XDenominator(y))) % P)
           r    == IF x % 2 # sign THEN P - x ELSE x
<1>1. raw \in Nat
  BY FieldAssumption DEF Encodings
<1>2. y \in Int /\ sign \in {0, 1} /\ raw = SignBit * sign + y
  <2>1. /\ raw % SignBit \in Nat /\ raw \div SignBit \in {0, 1}
        /\ raw = SignBit * (raw \div SignBit) + (raw % SignBit)
    BY <1>1, Split
  <2> QED
    BY <2>1
<1>3. x \in Residues /\ ~(x = 0 /\ sign = 1) /\ DecodePoint(raw) = [x |-> r, y |-> y]
  BY <1>1, Decoded
<1> HIDE DEF x, y, sign
<1>4. r % 2 = sign
  BY <1>2, <1>3, Prime DEF Residues
<1> HIDE DEF r
<1> QED
  BY <1>2, <1>3, <1>4, FieldAssumption DEF Encode

-----------------------------------------------------------------------------
\* Multiples.

\* The recursion behind Shifted.
LEMMA ShiftedUnfolds ==
  ASSUME NEW n \in Nat, NEW i \in Nat
  PROVE  \E f : /\ f[0] = n /\ Shifted(n, i) = f[i]
                /\ \A k \in 1..i : f[k] = f[k - 1] \div 2
                /\ \A k \in 0..i : f[k] \in Nat
<1> DEFINE step == [k \in 1..i |-> [s \in Nat |-> s \div 2]]
           rest == CHOOSE f : f = [k \in 0..i |-> IF k = 0 THEN n ELSE f[k - 1] \div 2]
<1>1. \A k \in 1..i : \A s \in Nat : step[k][s] \in Nat
  OBVIOUS
<1>2. PICK f : Follows(f, i, n, step) /\ \A k \in 0..i : f[k] \in Nat
  <2> HIDE DEF step
  <2> QED
    BY <1>1, Recursion
<1>3. f = [k \in 0..i |-> IF k = 0 THEN n ELSE f[k - 1] \div 2]
  <2>1. \A k \in 0..i : k # 0 => k \in 1..i /\ f[k - 1] \in Nat
    BY <1>2
  <2>2. [k \in 0..i |-> IF k = 0 THEN n ELSE step[k][f[k - 1]]]
          = [k \in 0..i |-> IF k = 0 THEN n ELSE f[k - 1] \div 2]
    BY <2>1
  <2> QED
    BY <1>2, <2>2 DEF Follows
<1>4. rest = [k \in 0..i |-> IF k = 0 THEN n ELSE rest[k - 1] \div 2]
  BY <1>3
<1> HIDE DEF rest
<1>5. rest[0] = n /\ \A k \in 1..i : rest[k] = rest[k - 1] \div 2
  <2>1. \A k \in 0..i : rest[k] = IF k = 0 THEN n ELSE rest[k - 1] \div 2
    BY <1>4, Zenon
  <2>2. 0 \in 0..i /\ \A k \in 1..i : k \in 0..i /\ k # 0
    OBVIOUS
  <2> QED
    BY <2>1, <2>2, Zenon
<1>6. \A k \in 0..i : rest[k] \in Nat
  <2>1. \A k \in 1..i : rest[k - 1] \in Nat => rest[k] \in Nat
    BY <1>5
  <2> QED
    BY <1>5, <2>1, StaysIn
<1>7. Shifted(n, i) = rest[i]
  BY DEF Shifted, rest
<1> QED
  BY <1>5, <1>6, <1>7

\* Shifting n as often as n leaves nothing.
LEMMA ShiftedOut == \A n \in Nat : Shifted(n, n) = 0
<1> SUFFICES ASSUME NEW n \in Nat
             PROVE  Shifted(n, n) = 0
  OBVIOUS
<1>1. PICK rest : /\ rest[0] = n /\ Shifted(n, n) = rest[n]
                  /\ \A k \in 1..n : rest[k] = rest[k - 1] \div 2
                  /\ \A k \in 0..n : rest[k] \in Nat
  BY ShiftedUnfolds
<1> DEFINE Large == {k \in 0..n : rest[k] \notin 0..n - k}
<1>2. Large = {}
  <2> SUFFICES ASSUME Large # {}
               PROVE  FALSE
    OBVIOUS
  <2>1. PICK k \in Large : \A j \in Large : k <= j
    <3>1. Large \in SUBSET Nat
      OBVIOUS
    <3> HIDE DEF Large
    <3> QED
      BY <3>1, Least
  <2>2. k \in 0..n /\ rest[k] \notin 0..n - k
    OBVIOUS
  <2>3. k # 0
    BY <1>1, <2>2
  <2>4. k \in 1..n /\ k - 1 \in 0..n /\ k - 1 \notin Large
    BY <2>1, <2>2, <2>3
  <2>5. rest[k - 1] \in 0..n - (k - 1)
    BY <2>4
  <2>6. rest[k] = rest[k - 1] \div 2
    BY <1>1, <2>4
  <2> QED
    BY <2>2, <2>4, <2>5, <2>6
<1>3. n \in 0..n /\ n - n = 0
  OBVIOUS
<1>4. rest[n] = 0
  BY <1>2, <1>3
<1> QED
  BY <1>1, <1>4

\* Each shift halves.
LEMMA ShiftedIs ==
  ASSUME NEW n \in Nat, NEW i \in Nat
  PROVE  /\ Shifted(n, 0) = n /\ Shifted(n, i) \in Nat
         /\ Shifted(n, i + 1) = Shifted(n, i) \div 2
<1>1. Shifted(n, 0) = n
  <2> DEFINE z == 0
  <2>1. z \in Nat
    OBVIOUS
  <2> HIDE DEF z
  <2>2. PICK f : /\ f[0] = n /\ Shifted(n, z) = f[z]
                 /\ \A k \in 1..z : f[k] = f[k - 1] \div 2
                 /\ \A k \in 0..z : f[k] \in Nat
    BY <2>1, ShiftedUnfolds
  <2> QED
    BY <2>2 DEF z
<1>2. PICK f : /\ f[0] = n /\ Shifted(n, i) = f[i]
               /\ \A k \in 1..i : f[k] = f[k - 1] \div 2
               /\ \A k \in 0..i : f[k] \in Nat
  BY ShiftedUnfolds
<1> DEFINE m == i + 1
<1>3. m \in Nat /\ i \in 0..i /\ m \in 1..m /\ m - 1 = i /\ \A k \in 1..i : k \in 1..m
  OBVIOUS
<1> HIDE DEF m
<1>4. PICK g : /\ g[0] = n /\ Shifted(n, m) = g[m]
               /\ \A k \in 1..m : g[k] = g[k - 1] \div 2
               /\ \A k \in 0..m : g[k] \in Nat
  <2>1. m \in Nat
    BY <1>3
  <2> QED
    BY <2>1, ShiftedUnfolds
<1>5. \A k \in 0..i : f[k] = g[k]
  <2>1. f[0] = g[0]
    BY <1>2, <1>4
  <2>2. \A k \in 1..i : f[k - 1] = g[k - 1] => f[k] = g[k]
    BY <1>2, <1>3, <1>4
  <2>3. StepAlike(f, g, i)
    BY <2>1, <2>2, Zenon DEF StepAlike
  <2> QED
    BY <2>3, StayAlike
<1>6. Shifted(n, m) = Shifted(n, i) \div 2
  BY <1>2, <1>3, <1>4, <1>5
<1>7. Shifted(n, i) \in Nat
  BY <1>2, <1>3
<1> QED
  BY <1>1, <1>6, <1>7 DEF m

LEMMA BitLenIs == \A n \in Nat : BitLen(n) \in Nat /\ Shifted(n, BitLen(n)) = 0
<1> SUFFICES ASSUME NEW n \in Nat
             PROVE  BitLen(n) \in Nat /\ Shifted(n, BitLen(n)) = 0
  OBVIOUS
<1> DEFINE Lengths == {k \in 0..n : Shifted(n, k) = 0}
<1>1. n \in Lengths /\ Lengths \in SUBSET Nat
  BY ShiftedOut
<1>2. PICK k \in Lengths : \A j \in Lengths : k <= j
  <2> HIDE DEF Lengths
  <2> QED
    BY <1>1, Least
<1>3. k \in 0..n /\ Shifted(n, k) = 0
  OBVIOUS
<1>4. \A j \in 0..k - 1 : j \in 0..n /\ ~(k <= j)
  BY <1>3
<1>5. \A j \in 0..k - 1 : Shifted(n, j) # 0
  BY <1>2, <1>4
<1>6. BitLen(n) \in 0..n /\ Shifted(n, BitLen(n)) = 0
  BY <1>3, <1>5, Zenon DEF BitLen
<1> QED
  BY <1>6

Points == {p \in [x : Int, y : Int] : OnCurve(p)}

\* A round after the last one.
NextRound(last, bit) ==
  [result |-> IF bit = 1 THEN AddPoint(last.result, last.addend) ELSE last.result,
   addend |-> AddPoint(last.addend, last.addend)]

\* Each round has two points of S and follows from the one before.
RoundsFollow(p, n, S) ==
  /\ \A k \in 0..BitLen(n) : Rounds(p, n)[k] \in [result : S, addend : S]
  /\ Rounds(p, n)[0] = [result |-> Identity, addend |-> p]
  /\ \A k \in 1..BitLen(n) : Rounds(p, n)[k] = NextRound(Rounds(p, n)[k - 1], Bit(n, k - 1))

\* The recursion behind Rounds: each round has two points of a set that the
\* additions stay in.
LEMMA RoundsUnfold ==
  ASSUME NEW Closed, Identity \in Closed, \A a, b \in Closed : AddPoint(a, b) \in Closed,
         NEW p \in Closed, NEW n \in Nat
  PROVE  RoundsFollow(p, n, Closed)
<1> DEFINE len == BitLen(n)
           S == [result : Closed, addend : Closed]
           first == [result |-> Identity, addend |-> p]
           step == [k \in 1..len |-> [last \in S |->
                     [result |-> IF Bit(n, k - 1) = 1 THEN AddPoint(last.result, last.addend)
                                 ELSE last.result,
                      addend |-> AddPoint(last.addend, last.addend)]]]
           round == CHOOSE f : f = [i \in 0..len |->
                      IF i = 0 THEN [result |-> Identity, addend |-> p]
                      ELSE LET last == f[i - 1]
                           IN [result |-> IF Bit(n, i - 1) = 1 THEN AddPoint(last.result, last.addend)
                                          ELSE last.result,
                               addend |-> AddPoint(last.addend, last.addend)]]
<1>1. len \in Nat
  BY BitLenIs
<1> HIDE DEF len
<1>2. Identity \in Closed
  OBVIOUS
<1>3. \A a, b \in Closed : AddPoint(a, b) \in Closed
  OBVIOUS
<1>4. first \in S
  BY <1>2
<1>5. \A k \in 1..len : \A last \in S : step[k][last] \in S
  BY <1>3
<1>6. PICK f : Follows(f, len, first, step) /\ \A k \in 0..len : f[k] \in S
  <2> HIDE DEF step, S, first
  <2> QED
    BY <1>1, <1>4, <1>5, Recursion
<1>7. f = [i \in 0..len |->
             IF i = 0 THEN [result |-> Identity, addend |-> p]
             ELSE LET last == f[i - 1]
                  IN [result |-> IF Bit(n, i - 1) = 1 THEN AddPoint(last.result, last.addend)
                                 ELSE last.result,
                      addend |-> AddPoint(last.addend, last.addend)]]
  <2>1. \A k \in 0..len : k # 0 => k \in 1..len /\ f[k - 1] \in S
    BY <1>1, <1>6
  <2> HIDE DEF S
  <2>2. [k \in 0..len |-> IF k = 0 THEN first ELSE step[k][f[k - 1]]]
          = [i \in 0..len |->
             IF i = 0 THEN [result |-> Identity, addend |-> p]
             ELSE LET last == f[i - 1]
                  IN [result |-> IF Bit(n, i - 1) = 1 THEN AddPoint(last.result, last.addend)
                                 ELSE last.result,
                      addend |-> AddPoint(last.addend, last.addend)]]
    BY <2>1
  <2> QED
    BY <1>6, <2>2 DEF Follows
<1>8. round = [i \in 0..len |->
             IF i = 0 THEN [result |-> Identity, addend |-> p]
             ELSE LET last == round[i - 1]
                  IN [result |-> IF Bit(n, i - 1) = 1 THEN AddPoint(last.result, last.addend)
                                 ELSE last.result,
                      addend |-> AddPoint(last.addend, last.addend)]]
  BY <1>7
<1> HIDE DEF round
<1>9. /\ round[0] = first
      /\ \A k \in 1..len : round[k] =
           [result |-> IF Bit(n, k - 1) = 1 THEN AddPoint(round[k - 1].result, round[k - 1].addend)
                       ELSE round[k - 1].result,
            addend |-> AddPoint(round[k - 1].addend, round[k - 1].addend)]
  <2>1. \A k \in 0..len : round[k] =
          IF k = 0 THEN first
          ELSE [result |-> IF Bit(n, k - 1) = 1 THEN AddPoint(round[k - 1].result, round[k - 1].addend)
                           ELSE round[k - 1].result,
                addend |-> AddPoint(round[k - 1].addend, round[k - 1].addend)]
    BY <1>8, Zenon
  <2>2. 0 \in 0..len /\ \A k \in 1..len : k \in 0..len /\ k # 0
    BY <1>1
  <2> HIDE DEF first
  <2> QED
    BY <2>1, <2>2
<1>10. \A k \in 1..len : round[k - 1] \in S => round[k] \in S
  <2> SUFFICES ASSUME NEW k \in 1..len, round[k - 1] \in S
               PROVE  round[k] \in S
    OBVIOUS
  <2> DEFINE a == round[k - 1].result
             b == round[k - 1].addend
  <2>1. a \in Closed /\ b \in Closed
    OBVIOUS
  <2>2. round[k] = [result |-> IF Bit(n, k - 1) = 1 THEN AddPoint(a, b) ELSE a,
                    addend |-> AddPoint(b, b)]
    BY <1>9
  <2> HIDE DEF a, b
  <2>3. AddPoint(a, b) \in Closed /\ AddPoint(b, b) \in Closed
    BY <1>3, <2>1
  <2> QED
    BY <2>1, <2>2, <2>3
<1>11. \A k \in 0..len : round[k] \in S
  <2> HIDE DEF S, first
  <2> QED
    BY <1>1, <1>4, <1>9, <1>10, StaysIn
<1>12. Rounds(p, n) = round
  BY DEF Rounds, round, len
<1> QED
  BY <1>9, <1>11, <1>12, Zenon DEF len, NextRound, RoundsFollow

LEMMA PointsAreClosed == Identity \in Points /\ \A a, b \in Points : AddPoint(a, b) \in Points
<1>1. Identity \in Points
  BY IdentityOnCurve, CurveIs DEF Points, OnCurve
<1>2. ASSUME NEW a \in Points, NEW b \in Points
      PROVE  AddPoint(a, b) \in Points
  <2>1. OnCurve(a) /\ OnCurve(b)
    BY DEF Points
  <2>2. OnCurve(AddPoint(a, b))
    BY <2>1, AdditionIsComplete
  <2> QED
    BY <2>2 DEF Points, OnCurve
<1> QED
  BY <1>1, <1>2

\* Checking a key never divides by zero, whatever number the key is: decodePoint
\* does not, nor does any round of scalarMult.
THEOREM KeyChecksNeverDivideByZero ==
  ASSUME NEW raw \in Nat
  PROVE  ~DividesByZero(raw)
<1>1. XDenominator(raw % SignBit) # 0
  <2>1. raw % SignBit \in Int
    BY Split
  <2> QED
    BY <2>1, DecodeDivides
<1>2. ASSUME DecodePoint(raw) # NoPoint, NEW k \in 0..BitLen(L) - 1
      PROVE  LET rounds == Rounds(DecodePoint(raw), L)
             IN /\ Twist(rounds[k].result, rounds[k].addend) \notin {1, P - 1}
                /\ Twist(rounds[k].addend, rounds[k].addend) \notin {1, P - 1}
  <2> DEFINE p == DecodePoint(raw)
             round == Rounds(p, L)[k]
  <2>1. p \in Points
    BY <1>2, DecodedIsOnTheCurve DEF Points, OnCurve
  <2>2. L \in Nat /\ BitLen(L) \in Nat
    BY FieldAssumption, BitLenIs
  <2> HIDE DEF p
  <2>3. k \in 0..BitLen(L)
    BY <2>2
  <2>4. round \in [result : Points, addend : Points]
    <3>1. RoundsFollow(p, L, Points)
      BY <2>1, <2>2, PointsAreClosed, RoundsUnfold
    <3> QED
      BY <2>3, <3>1 DEF RoundsFollow
  <2>5. OnCurve(round.result) /\ OnCurve(round.addend)
    BY <2>4 DEF Points
  <2> HIDE DEF round
  <2>6. /\ Twist(round.result, round.addend) \notin {1, P - 1}
        /\ Twist(round.addend, round.addend) \notin {1, P - 1}
    BY <2>5, AdditionIsComplete
  <2> QED
    BY <2>6, Zenon DEF round, p
<1> QED
  BY <1>1, <1>2, Zenon DEF DividesByZero

\* The recursion behind Number, from the last digit on.
LEMMA NumberUnfolds ==
  ASSUME NEW raw \in Seq(Nat)
  PROVE  LET n == Len(raw)
         IN \E f : /\ f[0] = 0 /\ Number(raw) = f[n]
                  /\ \A k \in 1..n : f[k] = raw[n - k + 1] + 256 * f[k - 1]
<1> DEFINE n == Len(raw)
           step == [k \in 1..n |-> [s \in Nat |-> raw[n - k + 1] + 256 * s]]
           value == CHOOSE f : f = [k \in 0..n |-> IF k = n THEN 0 ELSE raw[k + 1] + 256 * f[k + 1]]
<1>1. n \in Nat /\ raw \in [1..n -> Nat]
  OBVIOUS
<1> HIDE DEF n
<1>2. \A k \in 1..n : n - k + 1 \in 1..n /\ raw[n - k + 1] \in Nat
  BY <1>1
<1>3. \A k \in 1..n : \A s \in Nat : step[k][s] = raw[n - k + 1] + 256 * s /\ step[k][s] \in Nat
  BY <1>2
<1>4. PICK g : Follows(g, n, 0, step) /\ \A k \in 0..n : g[k] \in Nat
  <2>1. \A k \in 1..n : \A s \in Nat : step[k][s] \in Nat
    BY <1>3
  <2>2. 0 \in Nat
    OBVIOUS
  <2> HIDE DEF step
  <2> QED
    BY <1>1, <2>1, <2>2, Recursion
<1>5. g[0] = 0 /\ \A k \in 1..n : g[k] = raw[n - k + 1] + 256 * g[k - 1]
  <2>1. \A k \in 0..n : g[k] = IF k = 0 THEN 0 ELSE step[k][g[k - 1]]
    BY <1>4 DEF Follows
  <2>2. 0 \in 0..n /\ \A k \in 1..n : k \in 0..n /\ k # 0 /\ k - 1 \in 0..n
    BY <1>1
  <2> HIDE DEF step
  <2>3. \A k \in 1..n : g[k] = step[k][g[k - 1]] /\ g[k - 1] \in Nat
    BY <1>4, <2>1, <2>2
  <2>4. ASSUME NEW k \in 1..n
        PROVE  step[k][g[k - 1]] = raw[n - k + 1] + 256 * g[k - 1]
    <3>1. PICK s \in Nat : s = g[k - 1]
      BY <2>3
    <3>2. step[k][s] = raw[n - k + 1] + 256 * s
      BY <1>3, ZenonT(60)
    <3> QED
      BY <3>1, <3>2
  <2>5. g[0] = 0
    BY <2>1, <2>2
  <2> QED
    BY <2>3, <2>4, <2>5
<1> DEFINE h == [k \in 0..n |-> g[n - k]]
<1>6. h = [k \in 0..n |-> IF k = n THEN 0 ELSE raw[k + 1] + 256 * h[k + 1]]
  <2> SUFFICES ASSUME NEW k \in 0..n
               PROVE  h[k] = IF k = n THEN 0 ELSE raw[k + 1] + 256 * h[k + 1]
    OBVIOUS
  <2>1. h[k] = g[n - k] /\ (k = n => n - k = 0)
    BY <1>1
  <2>2. CASE k = n
    BY <1>5, <2>1, <2>2
  <2>3. CASE k # n
    <3>1. n - k \in 1..n /\ k + 1 \in 0..n /\ n - (k + 1) = n - k - 1 /\ n - (n - k) + 1 = k + 1
      BY <1>1, <2>3
    <3>2. h[k + 1] = g[n - k - 1]
      BY <3>1
    <3> QED
      BY <1>5, <2>1, <2>3, <3>1, <3>2
  <2> QED
    BY <2>2, <2>3
<1>7. value = [k \in 0..n |-> IF k = n THEN 0 ELSE raw[k + 1] + 256 * value[k + 1]]
  <2> HIDE DEF h
  <2> QED
    BY <1>6, ZenonT(40)
<1> HIDE DEF value
<1>8. \A k \in 0..n : value[k] = IF k = n THEN 0 ELSE raw[k + 1] + 256 * value[k + 1]
  BY <1>7, Zenon
<1> DEFINE back == [k \in 0..n |-> value[n - k]]
<1>9. back[0] = 0
  <2>1. back[0] = value[n] /\ n \in 0..n
    BY <1>1
  <2> QED
    BY <1>8, <2>1
<1>10. ASSUME NEW k \in 1..n
       PROVE  back[k] = raw[n - k + 1] + 256 * back[k - 1]
  <2>1. n - k \in 0..n /\ n - k # n /\ n - (k - 1) = n - k + 1 /\ k \in 0..n /\ k - 1 \in 0..n
    BY <1>1
  <2>2. back[k] = value[n - k] /\ back[k - 1] = value[n - k + 1]
    BY <2>1
  <2> HIDE DEF back
  <2>3. value[n - k] = raw[n - k + 1] + 256 * value[n - k + 1]
    BY <1>8, <2>1
  <2> QED
    BY <2>2, <2>3
<1>11. back[n] = value[0] /\ n \in 0..n
  BY <1>1
<1>12. Number(raw) = value[0]
  BY DEF Number, value, n
<1>13. Number(raw) = back[n]
  BY <1>11, <1>12
<1> HIDE DEF back
<1> QED
  BY <1>9, <1>10, <1>13 DEF n

\* Number is a natural number, however many digits it has, and 0 if all of them are.
LEMMA NumberIs ==
  ASSUME NEW raw \in Seq(Nat)
  PROVE  /\ Number(raw) \in Nat
         /\ (\A k \in 1..Len(raw) : raw[k] = 0) => Number(raw) = 0
<1> DEFINE n == Len(raw)
<1>1. PICK f : /\ f[0] = 0 /\ Number(raw) = f[n]
               /\ \A k \in 1..n : f[k] = raw[n - k + 1] + 256 * f[k - 1]
  BY NumberUnfolds
<1>2. n \in Nat /\ \A k \in 1..n : raw[k] \in Nat
  OBVIOUS
<1>3. n \in 0..n /\ 0 \in Nat
  BY <1>2
<1> HIDE DEF n
<1>4. \A k \in 1..n : n - k + 1 \in 1..n
  BY <1>2
<1>5. Number(raw) \in Nat
  <2>1. ASSUME NEW k \in 1..n, f[k - 1] \in Nat
        PROVE  f[k] \in Nat
    <3>1. PICK d \in Nat : d = raw[n - k + 1]
      BY <1>2, <1>4
    <3>2. f[k] = d + 256 * f[k - 1]
      BY <1>1, <3>1
    <3> QED
      BY <2>1, <3>2
  <2>2. f[0] \in Nat
    BY <1>1
  <2>3. \A k \in 0..n : f[k] \in Nat
    BY <1>2, <2>1, <2>2, StaysIn
  <2> QED
    BY <1>1, <1>3, <2>3
<1>6. ASSUME \A k \in 1..n : raw[k] = 0
      PROVE  Number(raw) = 0
  <2> DEFINE S == {0}
  <2>1. \A k \in 1..n : f[k - 1] \in S => f[k] \in S
    BY <1>1, <1>4, <1>6
  <2>2. f[0] \in S
    BY <1>1
  <2> HIDE DEF S
  <2>3. \A k \in 0..n : f[k] \in S
    BY <1>2, <2>1, <2>2, StaysIn
  <2> QED
    BY <1>1, <1>3, <2>3 DEF S
<1> QED
  BY <1>5, <1>6 DEF n

-----------------------------------------------------------------------------
\* Multiples by repeated addition.

\* The recursion behind Times.
LEMMA TimesUnfolds ==
  ASSUME NEW p \in Curve, NEW n \in Nat
  PROVE  \E f : /\ f[0] = Identity /\ Times(n, p) = f[n]
                /\ \A k \in 1..n : f[k] = AddPoint(f[k - 1], p)
                /\ \A k \in 0..n : f[k] \in Curve
<1> DEFINE step == [k \in 1..n |-> [s \in Curve |-> AddPoint(s, p)]]
           sum  == CHOOSE f : f = [k \in 0..n |-> IF k = 0 THEN Identity ELSE AddPoint(f[k - 1], p)]
<1>1. Identity \in Curve /\ \A s \in Curve : AddPoint(s, p) \in Curve
  BY IdentityOnCurve, SumOnCurve
<1>2. PICK f : Follows(f, n, Identity, step) /\ \A k \in 0..n : f[k] \in Curve
  <2>1. \A k \in 1..n : \A s \in Curve : step[k][s] \in Curve
    BY <1>1
  <2> HIDE DEF step
  <2> QED
    BY <1>1, <2>1, Recursion
<1>3. f = [k \in 0..n |-> IF k = 0 THEN Identity ELSE AddPoint(f[k - 1], p)]
  <2>1. \A k \in 0..n : k # 0 => k \in 1..n /\ f[k - 1] \in Curve
    BY <1>2
  <2>2. [k \in 0..n |-> IF k = 0 THEN Identity ELSE step[k][f[k - 1]]]
          = [k \in 0..n |-> IF k = 0 THEN Identity ELSE AddPoint(f[k - 1], p)]
    BY <2>1
  <2> QED
    BY <1>2, <2>2 DEF Follows
<1>4. sum = [k \in 0..n |-> IF k = 0 THEN Identity ELSE AddPoint(sum[k - 1], p)]
  BY <1>3
<1> HIDE DEF sum
<1>5. sum[0] = Identity /\ \A k \in 1..n : sum[k] = AddPoint(sum[k - 1], p)
  <2>1. \A k \in 0..n : sum[k] = IF k = 0 THEN Identity ELSE AddPoint(sum[k - 1], p)
    BY <1>4, Zenon
  <2>2. 0 \in 0..n /\ \A k \in 1..n : k \in 0..n /\ k # 0
    OBVIOUS
  <2> QED
    BY <2>1, <2>2, Zenon
<1>6. \A k \in 0..n : sum[k] \in Curve
  <2>1. \A k \in 1..n : sum[k - 1] \in Curve => sum[k] \in Curve
    BY <1>1, <1>5
  <2> QED
    BY <1>1, <1>5, <2>1, StaysIn
<1>7. Times(n, p) = sum[n]
  BY DEF Times, sum
<1> QED
  BY <1>5, <1>6, <1>7

\* Each multiple adds p to the one before.
LEMMA TimesIs ==
  ASSUME NEW p \in Curve, NEW n \in Nat
  PROVE  /\ Times(0, p) = Identity /\ Times(n, p) \in Curve
         /\ Times(n + 1, p) = AddPoint(Times(n, p), p)
<1>1. Times(0, p) = Identity
  <2>1. 0 \in Nat
    OBVIOUS
  <2>2. PICK f : f[0] = Identity /\ Times(0, p) = f[0]
    BY <2>1, TimesUnfolds
  <2> QED
    BY <2>2
<1>2. PICK f : /\ f[0] = Identity /\ Times(n, p) = f[n]
               /\ \A k \in 1..n : f[k] = AddPoint(f[k - 1], p)
               /\ \A k \in 0..n : f[k] \in Curve
  BY TimesUnfolds
<1> DEFINE m == n + 1
<1>3. m \in Nat /\ n \in 0..n /\ m \in 1..m /\ m - 1 = n /\ \A k \in 1..n : k \in 1..m
  OBVIOUS
<1> HIDE DEF m
<1>4. PICK g : /\ g[0] = Identity /\ Times(m, p) = g[m]
               /\ \A k \in 1..m : g[k] = AddPoint(g[k - 1], p)
               /\ \A k \in 0..m : g[k] \in Curve
  <2>1. m \in Nat
    BY <1>3
  <2> QED
    BY <2>1, TimesUnfolds
<1>5. \A k \in 0..n : f[k] = g[k]
  <2>1. f[0] = g[0]
    BY <1>2, <1>4
  <2>2. \A k \in 1..n : f[k - 1] = g[k - 1] => f[k] = g[k]
    BY <1>2, <1>3, <1>4
  <2>3. StepAlike(f, g, n)
    BY <2>1, <2>2, Zenon DEF StepAlike
  <2> QED
    BY <2>3, StayAlike
<1>6. Times(m, p) = AddPoint(Times(n, p), p)
  BY <1>2, <1>3, <1>4, <1>5
<1>7. Times(n, p) \in Curve
  BY <1>2, <1>3
<1> QED
  BY <1>1, <1>6, <1>7 DEF m

\* Multiples add like numbers.
LEMMA TimesSum ==
  ASSUME NEW p \in Curve, NEW m \in Nat
  PROVE  \A n \in Nat : Times(m + n, p) = AddPoint(Times(m, p), Times(n, p))
<1> DEFINE Out == {n \in Nat : Times(m + n, p) # AddPoint(Times(m, p), Times(n, p))}
<1> SUFFICES ASSUME Out # {}
             PROVE  FALSE
  OBVIOUS
<1>1. PICK n \in Out : \A j \in Out : n <= j
  <2>1. Out \in SUBSET Nat
    OBVIOUS
  <2> HIDE DEF Out
  <2> QED
    BY <2>1, Least
<1>2. n \in Nat /\ Times(m + n, p) # AddPoint(Times(m, p), Times(n, p))
  OBVIOUS
<1>3. n # 0
  <2>1. m + 0 = m /\ 0 \in Nat
    OBVIOUS
  <2>2. Times(0, p) = Identity /\ Times(m, p) \in Curve
    BY <2>1, TimesIs
  <2>3. AddPoint(Times(m, p), Identity) = Times(m, p)
    BY <2>2, IdentityAdds
  <2> QED
    BY <1>2, <2>1, <2>2, <2>3
<1>4. PICK k \in Nat : n = k + 1 /\ k \notin Out
  <2>1. n - 1 \in Nat /\ n = (n - 1) + 1 /\ ~(n <= n - 1)
    BY <1>2, <1>3
  <2> QED
    BY <1>1, <2>1
<1>5. Times(m + k, p) = AddPoint(Times(m, p), Times(k, p))
  BY <1>4
<1>6. m + k \in Nat /\ m + n = (m + k) + 1
  BY <1>4
<1>7. /\ Times(m, p) \in Curve /\ Times(k, p) \in Curve
      /\ Times(n, p) = AddPoint(Times(k, p), p)
  BY <1>4, TimesIs
<1>8. Times(m + n, p) = AddPoint(Times(m + k, p), p)
  BY <1>6, TimesIs
<1>9. AddPoint(AddPoint(Times(m, p), Times(k, p)), p) = AddPoint(Times(m, p), AddPoint(Times(k, p), p))
  BY <1>7, Associates
<1> QED
  BY <1>2, <1>5, <1>7, <1>8, <1>9

\* And multiply like numbers.
LEMMA TimesProduct ==
  ASSUME NEW p \in Curve, NEW n \in Nat
  PROVE  \A m \in Nat : Times(m * n, p) = Times(m, Times(n, p))
<1> DEFINE Out == {m \in Nat : Times(m * n, p) # Times(m, Times(n, p))}
<1> SUFFICES ASSUME Out # {}
             PROVE  FALSE
  OBVIOUS
<1>1. PICK m \in Out : \A j \in Out : m <= j
  <2>1. Out \in SUBSET Nat
    OBVIOUS
  <2> HIDE DEF Out
  <2> QED
    BY <2>1, Least
<1>2. m \in Nat /\ Times(m * n, p) # Times(m, Times(n, p))
  OBVIOUS
<1>3. Times(n, p) \in Curve
  BY TimesIs
<1>4. m # 0
  <2>1. 0 * n = 0 /\ 0 \in Nat
    OBVIOUS
  <2>2. Times(0, p) = Identity /\ Times(0, Times(n, p)) = Identity
    BY <1>3, <2>1, TimesIs
  <2> QED
    BY <1>2, <2>1, <2>2
<1>5. PICK k \in Nat : m = k + 1 /\ k \notin Out
  <2>1. m - 1 \in Nat /\ m = (m - 1) + 1 /\ ~(m <= m - 1)
    BY <1>2, <1>4
  <2> QED
    BY <1>1, <2>1
<1>6. Times(k * n, p) = Times(k, Times(n, p))
  BY <1>5
<1>7. k * n \in Nat /\ m * n = k * n + n
  BY <1>5
<1>8. Times(m * n, p) = AddPoint(Times(k * n, p), Times(n, p))
  <2> DEFINE j == k * n
  <2>1. j \in Nat /\ m * n = j + n
    BY <1>7
  <2> HIDE DEF j
  <2>2. Times(j + n, p) = AddPoint(Times(j, p), Times(n, p))
    BY <2>1, TimesSum
  <2> QED
    BY <2>1, <2>2 DEF j
<1>9. Times(m, Times(n, p)) = AddPoint(Times(k, Times(n, p)), Times(n, p))
  BY <1>3, <1>5, TimesIs
<1> QED
  BY <1>2, <1>6, <1>8, <1>9

LEMMA TimesOne ==
  ASSUME NEW p \in Curve
  PROVE  Times(1, p) = p /\ Times(2, p) = AddPoint(p, p)
<1>1. 0 \in Nat /\ 1 \in Nat /\ 0 + 1 = 1 /\ 1 + 1 = 2
  OBVIOUS
<1>2. Times(1, p) = AddPoint(Identity, p)
  BY <1>1, TimesIs
<1>3. Times(1, p) = p
  BY <1>2, IdentityAdds
<1>4. Times(2, p) = AddPoint(Times(1, p), p)
  BY <1>1, TimesIs
<1> QED
  BY <1>3, <1>4

\* Every multiple of the identity is the identity.
LEMMA TimesIdentity == \A n \in Nat : Times(n, Identity) = Identity
<1>1. Times(0, Identity) = Identity /\ Identity \in Curve
  <2>1. Identity \in Curve /\ 0 \in Nat
    BY IdentityOnCurve
  <2> QED
    BY <2>1, TimesIs
<1> SUFFICES ASSUME NEW n \in Nat
             PROVE  Times(n, Identity) = Identity
  OBVIOUS
<1>2. n * 0 = 0 /\ 0 \in Nat
  OBVIOUS
<1>3. Times(n * 0, Identity) = Times(n, Times(0, Identity))
  BY <1>1, <1>2, TimesProduct
<1> QED
  BY <1>1, <1>2, <1>3

\* One round of scalarMult: from what is left of the number, half remains.
LEMMA RoundKeepsTheProduct ==
  ASSUME NEW a \in Curve, NEW q \in Curve, NEW rest \in Nat, NEW half \in Nat,
         half = rest \div 2
  PROVE  AddPoint(a, Times(rest, q))
           = AddPoint(IF rest % 2 = 1 THEN AddPoint(a, q) ELSE a, Times(half, AddPoint(q, q)))
<1>1. half * 2 \in Nat /\ 2 \in Nat /\ 1 \in Nat
      /\ rest = half * 2 + (rest % 2) /\ (rest % 2 = 1 \/ rest % 2 = 0)
  OBVIOUS
<1> DEFINE double == half * 2
           t == Times(double, q)
<1>2. Times(half, AddPoint(q, q)) = t
  BY <1>1, TimesProduct, TimesOne
<1>3. double \in Nat
  BY <1>1
<1>4. rest % 2 = 1 => rest = 1 + double
  BY <1>1
<1>5. rest % 2 # 1 => rest = double
  BY <1>1
<1> HIDE DEF double
<1>6. t \in Curve
  BY <1>3, TimesIs
<1>7. CASE rest % 2 = 1
  <2>1. Times(1 + double, q) = AddPoint(Times(1, q), t)
    BY <1>1, <1>3, TimesSum
  <2>2. Times(rest, q) = AddPoint(q, t)
    BY <1>4, <1>7, <2>1, TimesOne
  <2>3. AddPoint(a, AddPoint(q, t)) = AddPoint(AddPoint(a, q), t)
    BY <1>6, Associates
  <2> QED
    BY <1>2, <1>7, <2>2, <2>3
<1>8. CASE rest % 2 # 1
  BY <1>2, <1>5, <1>8
<1> QED
  BY <1>7, <1>8

\* What scalarMult computes by doubling and adding is the multiple.
THEOREM ScalarMultIsTimes ==
  ASSUME NEW p \in Curve, NEW n \in Nat
  PROVE  ScalarMult(p, n) = Times(n, p)
<1> DEFINE len == BitLen(n)
           round == Rounds(p, n)
           total == [k \in 0..len |-> AddPoint(round[k].result, Times(Shifted(n, k), round[k].addend))]
<1>1. len \in Nat /\ Shifted(n, len) = 0
  BY BitLenIs
<1>2. /\ \A k \in 0..len : round[k] \in [result : Curve, addend : Curve]
      /\ round[0] = [result |-> Identity, addend |-> p]
      /\ \A k \in 1..len : round[k] = NextRound(round[k - 1], Bit(n, k - 1))
  <2>1. Identity \in Curve /\ \A a, b \in Curve : AddPoint(a, b) \in Curve
    BY IdentityOnCurve, SumOnCurve
  <2> HIDE DEF len, round
  <2>2. RoundsFollow(p, n, Curve)
    BY <2>1, RoundsUnfold
  <2> QED
    BY <2>2, Zenon DEF len, round, RoundsFollow
<1> HIDE DEF len, round
<1>3. \A k \in 0..len : total[k] = AddPoint(round[k].result, Times(Shifted(n, k), round[k].addend))
  OBVIOUS
<1>4. 0 \in 0..len /\ len \in 0..len
  BY <1>1
<1> HIDE DEF total
<1>5. total[0] = Times(n, p)
  <2>1. Shifted(n, 0) = n /\ Times(n, p) \in Curve
    <3>1. 0 \in Nat
      OBVIOUS
    <3> QED
      BY <3>1, ShiftedIs, TimesIs
  <2>2. total[0] = AddPoint(Identity, Times(n, p))
    BY <1>2, <1>3, <1>4, <2>1
  <2> QED
    BY <2>1, <2>2, IdentityAdds
<1>6. ASSUME NEW k \in 1..len
      PROVE  total[k] = total[k - 1]
  <2> DEFINE j    == k - 1
             rest == Shifted(n, j)
             half == Shifted(n, k)
             a    == round[j].result
             q    == round[j].addend
  <2>1. j \in Nat /\ j + 1 = k /\ k \in Nat /\ j \in 0..len /\ k \in 0..len
    BY <1>1
  <2>2. rest \in Nat /\ half \in Nat /\ half = rest \div 2
    <3> HIDE DEF j
    <3>1. rest \in Nat /\ Shifted(n, j + 1) = rest \div 2
      BY <2>1, ShiftedIs
    <3>2. half \in Nat
      BY <2>1, ShiftedIs
    <3> QED
      BY <2>1, <3>1, <3>2
  <2>3. a \in Curve /\ q \in Curve
    BY <1>2, <2>1
  <2>4. round[k] = [result |-> IF rest % 2 = 1 THEN AddPoint(a, q) ELSE a, addend |-> AddPoint(q, q)]
    BY <1>2 DEF Bit, NextRound
  <2>5. total[j] = AddPoint(a, Times(rest, q))
    BY <1>3, <2>1
  <2>6. total[k] = AddPoint(round[k].result, Times(half, round[k].addend))
    BY <1>3, <2>1
  <2> HIDE DEF rest, half, a, q
  <2>7. AddPoint(a, Times(rest, q))
          = AddPoint(IF rest % 2 = 1 THEN AddPoint(a, q) ELSE a, Times(half, AddPoint(q, q)))
    BY <2>2, <2>3, RoundKeepsTheProduct
  <2> QED
    BY <2>4, <2>5, <2>6, <2>7
<1>7. \A k \in 0..len : total[k] \in {Times(n, p)}
  <2> DEFINE S == {Times(n, p)}
  <2>1. \A k \in 1..len : total[k - 1] \in S => total[k] \in S
    BY <1>6
  <2>2. total[0] \in S
    BY <1>5
  <2> HIDE DEF S
  <2>3. \A k \in 0..len : total[k] \in S
    BY <1>1, <2>1, <2>2, StaysIn
  <2> QED
    BY <2>3 DEF S
<1>8. total[len] = round[len].result
  <2>1. round[len].result \in Curve /\ round[len].addend \in Curve
    BY <1>2, <1>4
  <2>2. Times(0, round[len].addend) = Identity
    <3>1. 0 \in Nat
      OBVIOUS
    <3> QED
      BY <2>1, <3>1, TimesIs
  <2>3. total[len] = AddPoint(round[len].result, Identity)
    BY <1>1, <1>3, <1>4, <2>2
  <2> QED
    BY <2>1, <2>3, IdentityAdds
<1>9. ScalarMult(p, n) = round[len].result
  BY DEF ScalarMult, round, len
<1> QED
  BY <1>4, <1>7, <1>8, <1>9

-----------------------------------------------------------------------------
\* Fermat's little theorem, from the product of all residues but 0.

Units == 1..P - 1

\* The product of the members of S.
Product(S) ==
  LET part[k \in 0..P - 1] ==
        IF k = 0 THEN 1 ELSE IF k \in S THEN (part[k - 1] * k) % P ELSE part[k - 1]
  IN part[P - 1]

LEMMA UnitsAre ==
  /\ \A u \in Units : u \in Int /\ u \in Residues /\ ~Vanishes(u)
  /\ \A a \in Int : ~Vanishes(a) => a % P \in Units
<1>1. \A u \in Units : u \in Int /\ u \in Residues /\ -P < u /\ u < P /\ u # 0
  BY Prime DEF Units, Residues
<1>2. \A u \in Units : u \in Int /\ u \in Residues /\ ~Vanishes(u)
  BY <1>1, NoSmallVanishes
<1>3. ASSUME NEW a \in Int, ~Vanishes(a)
      PROVE  a % P \in Units
  <2>1. a % P \in Residues /\ a % P # 0
    BY <1>3, Reduced, ZeroResidue
  <2> QED
    BY <2>1, Prime DEF Units, Residues
<1> QED
  BY <1>2, <1>3

\* The recursion behind Product.
LEMMA ProductUnfolds ==
  ASSUME NEW S
  PROVE  \E f : /\ f[0] = 1 /\ Product(S) = f[P - 1]
                /\ \A k \in Units : f[k] = IF k \in S THEN (f[k - 1] * k) % P ELSE f[k - 1]
                /\ \A k \in 0..P - 1 : f[k] \in Units
<1> DEFINE n    == P - 1
           step == [k \in 1..n |-> [s \in Units |-> IF k \in S THEN (s * k) % P ELSE s]]
           part == CHOOSE f : f = [k \in 0..P - 1 |->
                     IF k = 0 THEN 1 ELSE IF k \in S THEN (f[k - 1] * k) % P ELSE f[k - 1]]
<1>1. n \in Nat /\ 1 \in Units /\ P - 1 = n /\ Units = 1..n
  BY Prime DEF Units
<1> HIDE DEF n
<1>2. \A k \in 1..n : \A s \in Units : s \in Int /\ k \in Int /\ (s * k) % P \in Units
  <2> SUFFICES ASSUME NEW k \in Units, NEW s \in Units
               PROVE  s \in Int /\ k \in Int /\ (s * k) % P \in Units
    BY <1>1
  <2>1. s \in Int /\ k \in Int /\ ~Vanishes(s) /\ ~Vanishes(k)
    BY UnitsAre
  <2>2. s * k \in Int /\ ~Vanishes(s * k)
    BY <2>1, VanishingProduct
  <2> QED
    BY <2>1, <2>2, UnitsAre
<1>3. PICK f : Follows(f, n, 1, step) /\ \A k \in 0..n : f[k] \in Units
  <2>1. \A k \in 1..n : \A s \in Units : step[k][s] \in Units
    BY <1>2
  <2> HIDE DEF step
  <2> QED
    BY <1>1, <2>1, Recursion
<1>4. f = [k \in 0..P - 1 |->
             IF k = 0 THEN 1 ELSE IF k \in S THEN (f[k - 1] * k) % P ELSE f[k - 1]]
  <2>1. \A k \in 0..n : k # 0 => k \in 1..n /\ f[k - 1] \in Units
    BY <1>1, <1>3
  <2> HIDE DEF Units
  <2>2. [k \in 0..n |-> IF k = 0 THEN 1 ELSE step[k][f[k - 1]]]
          = [k \in 0..n |-> IF k = 0 THEN 1 ELSE IF k \in S THEN (f[k - 1] * k) % P ELSE f[k - 1]]
    BY <2>1
  <2> QED
    BY <1>1, <1>3, <2>2 DEF Follows
<1>5. part = [k \in 0..P - 1 |->
                IF k = 0 THEN 1 ELSE IF k \in S THEN (part[k - 1] * k) % P ELSE part[k - 1]]
  BY <1>4
<1>6. Product(S) = part[P - 1]
  BY DEF Product, part
<1> HIDE DEF part
<1>7. part[0] = 1 /\ \A k \in 1..n : part[k] = IF k \in S THEN (part[k - 1] * k) % P ELSE part[k - 1]
  <2>1. \A k \in 0..P - 1 : part[k] =
          IF k = 0 THEN 1 ELSE IF k \in S THEN (part[k - 1] * k) % P ELSE part[k - 1]
    BY <1>5, Zenon
  <2>2. 0 \in 0..P - 1 /\ \A k \in 1..n : k \in 0..P - 1 /\ k # 0
    BY <1>1
  <2> QED
    BY <2>1, <2>2, Zenon
<1>8. \A k \in 0..n : part[k] \in Units
  <2>1. \A k \in 1..n : part[k - 1] \in Units => part[k] \in Units
    BY <1>2, <1>7
  <2> QED
    BY <1>1, <1>7, <2>1, StaysIn
<1> QED
  BY <1>1, <1>6, <1>7, <1>8, Zenon

LEMMA ProductType == \A S : Product(S) \in Units
<1> TAKE S
<1>1. PICK f : Product(S) = f[P - 1] /\ \A k \in 0..P - 1 : f[k] \in Units
  BY ProductUnfolds
<1>2. P - 1 \in 0..P - 1
  BY Prime
<1> QED
  BY <1>1, <1>2
LEMMA SameReduced == \A a \in Int : Same(a % P, a) /\ a % P \in Int /\ a % P \in Residues
BY Reduced, ResiduesAreInts DEF Same

LEMMA ProductInsert ==
  ASSUME NEW S, NEW x \in Units, x \notin S
  PROVE  Same(Product(S \cup {x}), Product(S) * x)
<1>1. PICK f : /\ f[0] = 1 /\ Product(S) = f[P - 1]
               /\ \A k \in Units : f[k] = IF k \in S THEN (f[k - 1] * k) % P ELSE f[k - 1]
               /\ \A k \in 0..P - 1 : f[k] \in Units
  BY ProductUnfolds
<1> DEFINE T == S \cup {x}
<1>2. x \in T /\ \A k : k # x => (k \in T <=> k \in S)
  OBVIOUS
<1> HIDE DEF T
<1>3. PICK g : /\ g[0] = 1 /\ Product(T) = g[P - 1]
               /\ \A k \in Units : g[k] = IF k \in T THEN (g[k - 1] * k) % P ELSE g[k - 1]
               /\ \A k \in 0..P - 1 : g[k] \in Units
  BY ProductUnfolds
<1> DEFINE Alike(k) == IF k < x THEN g[k] = f[k] ELSE Same(g[k], f[k] * x)
           Out == {k \in 0..P - 1 : ~Alike(k)}
<1>4. x \in Int /\ x > 0 /\ P \in Nat /\ P > 4
  BY Prime, UnitsAre DEF Units
<1>5. Out = {}
  <2> SUFFICES ASSUME Out # {}
               PROVE  FALSE
    OBVIOUS
  <2>1. PICK k \in Out : \A j \in Out : k <= j
    <3>1. Out \in SUBSET Nat
      BY <1>4
    <3> HIDE DEF Out
    <3> QED
      BY <3>1, Least
  <2>2. k \in 0..P - 1 /\ ~Alike(k)
    OBVIOUS
  <2>3. k # 0
    BY <1>1, <1>3, <1>4, <2>2
  <2>4. k \in Units /\ k - 1 \in 0..P - 1 /\ Alike(k - 1) /\ k \in Int
    BY <1>4, <2>1, <2>2, <2>3 DEF Units
  <2> DEFINE c == f[k - 1]
             d == g[k - 1]
  <2>5. /\ c \in Int /\ d \in Int /\ f[k] \in Int
        /\ f[k] = IF k \in S THEN (c * k) % P ELSE c
        /\ g[k] = IF k \in T THEN (d * k) % P ELSE d
    BY <1>1, <1>3, <2>2, <2>4, UnitsAre
  <2> HIDE DEF c, d
  <2>6. CASE k < x
    <3>1. c = d /\ k # x
      BY <1>4, <2>4, <2>6 DEF c, d
    <3> QED
      BY <1>2, <2>2, <2>5, <2>6, <3>1
  <2>7. CASE k = x
    <3>1. c = d
      BY <1>4, <2>4, <2>7 DEF c, d
    <3>2. f[k] = c /\ g[k] = (c * x) % P /\ c * x \in Int
      BY <1>2, <1>4, <2>5, <2>7, <3>1
    <3>3. Same(g[k], f[k] * x)
      BY <3>2, SameReduced
    <3> QED
      BY <1>4, <2>2, <2>7, <3>3
  <2>8. CASE k > x
    <3>1. Same(d, c * x) /\ k # x
      BY <1>4, <2>4, <2>8 DEF c, d
    <3>2. CASE k \notin S
      BY <1>2, <1>4, <2>2, <2>4, <2>5, <2>8, <3>1, <3>2
    <3>3. CASE k \in S
      <4> DEFINE m == d * k
                 n == (c * x) * k
                 r == c * k
      <4>1. m \in Int /\ n \in Int /\ r \in Int /\ r * x = n /\ c * x \in Int
        BY <1>4, <2>4, <2>5
      <4>2. Same(m, n)
        BY <2>4, <2>5, <3>1, <4>1, SameItself, SameProduct
      <4>3. f[k] = r % P /\ g[k] = m % P
        BY <1>2, <2>5, <3>1, <3>3
      <4> HIDE DEF m, n, r
      <4>4. Same(g[k], m) /\ Same(f[k], r) /\ g[k] \in Int
        BY <4>1, <4>3, SameReduced
      <4>5. Same(f[k] * x, r * x) /\ f[k] * x \in Int
        <5>1. PICK e \in Int : e = f[k]
          BY <2>5
        <5>2. Same(e, r) /\ Same(x, x)
          BY <1>4, <4>4, <5>1, SameItself
        <5>3. Same(e * x, r * x)
          BY <1>4, <4>1, <5>2, SameProduct
        <5> QED
          BY <1>4, <5>1, <5>3
      <4>6. Same(n, f[k] * x)
        BY <4>1, <4>5, SameOrder
      <4>7. Same(g[k], n)
        BY <4>1, <4>2, <4>4, SameOrder
      <4>8. Same(g[k], f[k] * x)
        BY <4>1, <4>4, <4>5, <4>6, <4>7, SameOrder
      <4> QED
        BY <1>4, <2>2, <2>4, <2>8, <4>8
    <3> QED
      BY <3>2, <3>3
  <2> QED
    BY <1>4, <2>4, <2>6, <2>7, <2>8
<1>6. P - 1 \in 0..P - 1 /\ ~(P - 1 < x)
  BY <1>4, Prime DEF Units
<1>7. Same(g[P - 1], f[P - 1] * x)
  BY <1>5, <1>6
<1> QED
  BY <1>1, <1>3, <1>7 DEF T
\* The residues of the first j multiples of a.
FirstMultiples(a, j) == {(a * i) % P : i \in 1..j}

LEMMA MultiplesDiffer ==
  ASSUME NEW a \in Int, ~Vanishes(a)
  PROVE  \A i, j \in Units : (a * i) % P \in Units /\ ((a * i) % P = (a * j) % P => i = j)
<1> SUFFICES ASSUME NEW i \in Units, NEW j \in Units
             PROVE  (a * i) % P \in Units /\ ((a * i) % P = (a * j) % P => i = j)
  OBVIOUS
<1> DEFINE m == a * i
           n == a * j
<1>1. i \in Int /\ j \in Int /\ i \in Residues /\ j \in Residues /\ ~Vanishes(i)
  BY UnitsAre
<1>2. m \in Int /\ n \in Int /\ ~Vanishes(m) /\ m - n = a * (i - j) /\ i - j \in Int
  BY <1>1, VanishingProduct
<1> HIDE DEF m, n
<1>3. m % P \in Units
  BY <1>2, UnitsAre
<1>4. ASSUME m % P = n % P
      PROVE  i = j
  <2>1. Same(m % P, m) /\ Same(m % P, n) /\ m % P \in Int
    BY <1>2, <1>4, SameReduced
  <2>2. Same(m, n)
    BY <1>2, <2>1, SameOrder
  <2>3. Vanishes(i - j)
    BY <1>2, <2>2, VanishingProduct DEF Same
  <2> QED
    BY <1>1, <2>3, SameResidue DEF Same
<1> QED
  BY <1>3, <1>4 DEF m, n

LEMMA ProductOfMultiples ==
  ASSUME NEW a \in Int, ~Vanishes(a)
  PROVE  \A j \in 0..P - 1 : Same(Product(FirstMultiples(a, j)), Power(a, j) * Product(1..j))
<1> DEFINE Alike(j) == Same(Product(FirstMultiples(a, j)), Power(a, j) * Product(1..j))
           Out == {j \in 0..P - 1 : ~Alike(j)}
<1> SUFFICES ASSUME Out # {}
             PROVE  FALSE
  OBVIOUS
<1>1. PICK j \in Out : \A i \in Out : j <= i
  <2>1. Out \in SUBSET Nat
    BY Prime
  <2> HIDE DEF Out
  <2> QED
    BY <2>1, Least
<1>2. j \in 0..P - 1 /\ ~Alike(j)
  OBVIOUS
<1>3. j # 0
  <2>1. FirstMultiples(a, 0) = 1..0
    <3>1. 1..0 = {}
      OBVIOUS
    <3>2. FirstMultiples(a, 0) = {}
      BY <3>1 DEF FirstMultiples
    <3> QED
      BY <3>1, <3>2
  <2>2. Power(a, 0) = 1
    <3>1. 0 \in Nat
      OBVIOUS
    <3> QED
      BY <3>1, PowerIs
  <2>3. Product(1..0) \in Int
    BY ProductType, UnitsAre
  <2>4. 1 * Product(1..0) = Product(1..0)
    BY <2>3
  <2>5. Alike(0)
    BY <2>1, <2>2, <2>3, <2>4, SameItself
  <2> QED
    BY <1>2, <2>5
<1>4. PICK k \in 0..P - 1 : j = k + 1 /\ Alike(k)
  <2>1. j - 1 \in 0..P - 1 /\ j = (j - 1) + 1 /\ ~(j <= j - 1)
    BY <1>2, <1>3, Prime
  <2> QED
    BY <1>1, <2>1
<1> DEFINE x == (a * j) % P
           M == FirstMultiples(a, k)
           F == 1..k
<1>5. k \in Nat /\ j \in Nat /\ j \in Units /\ F \subseteq Units /\ j \notin F /\ 1..j = F \cup {j}
  BY <1>2, <1>4, Prime DEF Units
<1>6. x \in Units /\ x \notin M /\ FirstMultiples(a, j) = M \cup {x}
  <2>1. x \in Units /\ \A i \in F : (a * i) % P = x => i = j
    BY <1>5, MultiplesDiffer
  <2>2. x \notin M
    BY <1>5, <2>1 DEF FirstMultiples
  <2>3. FirstMultiples(a, j) = M \cup {x}
    BY <1>5 DEF FirstMultiples
  <2> QED
    BY <2>1, <2>2, <2>3
<1> HIDE DEF M, F
<1> DEFINE p == Power(a, k)
           f == Product(F)
           m == Product(M)
<1>7. a * j \in Int /\ x \in Int /\ p \in Int /\ f \in Int /\ m \in Int
  <2>1. j \in Int /\ x \in Int
    BY <1>5, <1>6, UnitsAre
  <2>2. f \in Int /\ m \in Int
    BY UnitsAre, ProductType
  <2>3. p \in Int
    BY <1>5, PowerType, ResiduesAreInts
  <2> HIDE DEF x, f, m, p
  <2> QED
    BY <2>1, <2>2, <2>3
<1>8. Same(x, a * j)
  BY <1>7, SameReduced
<1>9. Same(m, p * f)
  BY <1>4 DEF M, F
<1>10. Same(Product(FirstMultiples(a, j)), m * x)
  BY <1>6, ProductInsert
<1>11. Same(Product(1..j), f * j)
  BY <1>5, ProductInsert
<1>12. Same(Power(a, j), p * a)
  <2>1. Power(a, k + 1) = (p * a) % P
    BY <1>5, PowerIs
  <2>2. p * a \in Int
    BY <1>7
  <2> QED
    BY <1>4, <2>1, <2>2, SameReduced
<1> DEFINE u == Product(FirstMultiples(a, j))
           v == Product(1..j)
           w == Power(a, j)
<1>13. u \in Int /\ v \in Int /\ w \in Int
  BY <1>5, UnitsAre, PowerType, ProductType, ResiduesAreInts
<1>14. ~Same(u, w * v)
  BY <1>2
<1> HIDE DEF u, v, w, p, f, m, x
<1>15. Same(m * x, (p * f) * (a * j))
  <2>1. p * f \in Int
    BY <1>7
  <2> QED
    BY <1>7, <1>8, <1>9, <2>1, SameProduct
<1>16. Same(w * v, (p * a) * (f * j))
  <2>1. p * a \in Int /\ f * j \in Int
    BY <1>5, <1>7
  <2> QED
    BY <1>11, <1>12, <1>13, <2>1, SameProduct DEF v, w
<1> DEFINE s == m * x
           t == (p * f) * (a * j)
           z == w * v
<1>17. s \in Int /\ t \in Int /\ z \in Int /\ t = (p * a) * (f * j)
  BY <1>5, <1>7, <1>13
<1>18. Same(u, s) /\ Same(s, t) /\ Same(z, t)
  BY <1>10, <1>15, <1>16, <1>17 DEF u
<1> HIDE DEF s, t
<1>19. Same(u, z)
  <2> HIDE DEF z
  <2>1. Same(t, z)
    BY <1>17, <1>18, SameOrder
  <2>2. Same(u, t)
    BY <1>13, <1>17, <1>18, SameOrder
  <2> QED
    BY <1>13, <1>17, <2>1, <2>2, SameOrder
<1> QED
  BY <1>14, <1>19

\* What RootCandidate rests on.
THEOREM FermatsLittleTheorem ==
  ASSUME NEW a \in Int, ~Vanishes(a)
  PROVE  Power(a, P - 1) = 1
<1> DEFINE n == P - 1
<1>1. n \in Nat /\ n \in 0..P - 1 /\ Units = 1..n
  BY Prime DEF Units
<1>2. FirstMultiples(a, n) = Units
  <2>1. FirstMultiples(a, n) \subseteq Units
    BY <1>1, MultiplesDiffer DEF FirstMultiples
  <2>2. ASSUME NEW u \in Units
        PROVE  u \in FirstMultiples(a, n)
    <3>1. u \in Int /\ u \in Residues /\ ~Vanishes(u)
      BY UnitsAre
    <3>2. PICK c \in Int : Vanishes(a * c - 1)
      BY InverseExists
    <3> DEFINE d == c * u
               i == d % P
               e == a * c - 1
    <3>3. d \in Int /\ e \in Int /\ a * d - u = e * u /\ a * d \in Int /\ Vanishes(e)
      BY <3>1, <3>2
    <3> HIDE DEF d, e
    <3>4. Same(a * d, u)
      BY <3>1, <3>3, VanishingMultiple DEF Same
    <3>5. Same(i, d) /\ i \in Int /\ i \in Residues
      BY <3>3, SameReduced
    <3> HIDE DEF i
    <3>6. Same(a * i, a * d) /\ a * i \in Int
      BY <3>3, <3>5, SameItself, SameProduct
    <3> DEFINE m == a * i
               k == a * d
    <3>7. m \in Int /\ k \in Int
      BY <3>3, <3>6
    <3>8. Same(m, u)
      <4> HIDE DEF m, k
      <4>1. Same(m, k) /\ Same(k, u)
        BY <3>4, <3>6 DEF m, k
      <4> QED
        BY <3>1, <3>7, <4>1, SameOrder
    <3>9. i # 0
      <4> SUFFICES ASSUME i = 0
                   PROVE  FALSE
        OBVIOUS
      <4>1. Same(0, u) /\ 0 \in Int
        BY <3>8
      <4>2. Same(u, 0) /\ u - 0 = u
        BY <3>1, <4>1, SameOrder
      <4> QED
        BY <3>1, <4>2 DEF Same
    <3>10. i \in 1..n
      BY <1>1, <3>5, <3>9, Prime DEF Residues
    <3>11. m % P = u
      <4> HIDE DEF m
      <4>1. Same(m % P, m) /\ m % P \in Int /\ m % P \in Residues
        BY <3>7, SameReduced
      <4>2. Same(m % P, u)
        BY <3>1, <3>7, <3>8, <4>1, SameOrder
      <4> QED
        BY <3>1, <4>1, <4>2, SameResidue
    <3> QED
      BY <3>10, <3>11 DEF FirstMultiples
  <2> QED
    BY <2>1, <2>2
<1> DEFINE f == Product(Units)
           p == Power(a, n)
<1>3. f \in Int /\ ~Vanishes(f) /\ p \in Int /\ p \in Residues
  BY <1>1, UnitsAre, PowerType, ProductType, ResiduesAreInts
<1>4. Same(f, p * f)
  BY <1>1, <1>2, ProductOfMultiples
<1> HIDE DEF f
<1>5. p = 1
  <2> HIDE DEF p
  <2>1. f - p * f = (1 - p) * f /\ 1 - p \in Int
    BY <1>3
  <2>2. Same(1, p)
    BY <1>3, <1>4, <2>1, VanishingProduct DEF Same
  <2>3. 1 \in Residues
    BY Prime DEF Residues
  <2> QED
    BY <1>3, <2>2, <2>3, SameResidue
<1> QED
  BY <1>5
-----------------------------------------------------------------------------
\* Square roots.

\* Products of powers.
LEMMA PowerSum ==
  ASSUME NEW a \in Int, NEW m \in Nat
  PROVE  \A n \in Nat : Same(Power(a, m + n), Power(a, m) * Power(a, n))
<1> DEFINE Out == {n \in Nat : ~Same(Power(a, m + n), Power(a, m) * Power(a, n))}
<1> SUFFICES ASSUME Out # {}
             PROVE  FALSE
  OBVIOUS
<1>1. PICK n \in Out : \A j \in Out : n <= j
  <2>1. Out \in SUBSET Nat
    OBVIOUS
  <2> HIDE DEF Out
  <2> QED
    BY <2>1, Least
<1>2. n \in Nat /\ ~Same(Power(a, m + n), Power(a, m) * Power(a, n))
  OBVIOUS
<1>3. n # 0
  <2>1. m + 0 = m /\ 0 \in Nat
    OBVIOUS
  <2>2. Power(a, 0) = 1 /\ Power(a, m) \in Int
    BY <2>1, PowerIs, PowerType, ResiduesAreInts
  <2>3. Power(a, m) * 1 = Power(a, m)
    BY <2>2
  <2> QED
    BY <1>2, <2>1, <2>2, <2>3, SameItself
<1>4. PICK k \in Nat : n = k + 1 /\ k \notin Out
  <2>1. n - 1 \in Nat /\ n = (n - 1) + 1 /\ ~(n <= n - 1)
    BY <1>2, <1>3
  <2> QED
    BY <1>1, <2>1
<1> DEFINE p == Power(a, m)
           q == Power(a, k)
           s == Power(a, m + k)
           t == Power(a, n)
           u == Power(a, m + n)
<1>5. p \in Int /\ q \in Int /\ s \in Int /\ t \in Int /\ u \in Int
  <2>1. m + k \in Nat /\ m + n \in Nat
    BY <1>2, <1>4
  <2> QED
    BY <1>2, <1>4, <2>1, PowerType, ResiduesAreInts
<1>6. Same(s, p * q)
  BY <1>4
<1>7. t = (q * a) % P
  BY <1>4, PowerIs
<1>8. u = (s * a) % P
  <2>1. m + k \in Nat /\ m + n = (m + k) + 1
    BY <1>4
  <2> QED
    BY <2>1, PowerIs
<1>9. ~Same(u, p * t)
  BY <1>2
<1> HIDE DEF p, q, s, t, u
<1> DEFINE sa == s * a
           qa == q * a
           pq == p * q
<1>10. sa \in Int /\ qa \in Int /\ pq \in Int /\ pq * a = p * qa /\ p * qa \in Int /\ p * t \in Int
  BY <1>5
<1>11. Same(sa, pq * a)
  <2> HIDE DEF pq
  <2>1. Same(s, pq) /\ Same(a, a)
    BY <1>6, SameItself DEF pq
  <2> QED
    BY <1>5, <1>10, <2>1, SameProduct
<1> HIDE DEF sa, qa, pq
<1>12. Same(u, sa) /\ Same(t, qa)
  BY <1>7, <1>8, <1>10, SameReduced DEF sa, qa
<1>13. Same(p * t, p * qa)
  BY <1>5, <1>10, <1>12, SameItself, SameProduct
<1> DEFINE y == p * t
           z == p * qa
<1>14. y \in Int /\ z \in Int /\ Same(y, z) /\ Same(sa, z)
  BY <1>10, <1>11, <1>13
<1> HIDE DEF y, z
<1>15. Same(u, z) /\ Same(z, y)
  BY <1>5, <1>10, <1>12, <1>14, SameOrder
<1>16. Same(u, y)
  BY <1>5, <1>14, <1>15, SameOrder
<1> QED
  BY <1>9, <1>16 DEF y

\* A power of a square is twice that power of the root.
LEMMA PowerOfSquare ==
  ASSUME NEW s \in Int, NEW xx \in Int, Same(xx, s * s)
  PROVE  \A n \in Nat : Same(Power(xx, n), Power(s, n + n))
<1> DEFINE Out == {n \in Nat : ~Same(Power(xx, n), Power(s, n + n))}
<1> SUFFICES ASSUME Out # {}
             PROVE  FALSE
  OBVIOUS
<1>1. PICK n \in Out : \A j \in Out : n <= j
  <2>1. Out \in SUBSET Nat
    OBVIOUS
  <2> HIDE DEF Out
  <2> QED
    BY <2>1, Least
<1>2. n \in Nat /\ ~Same(Power(xx, n), Power(s, n + n))
  OBVIOUS
<1>3. n # 0
  <2>1. 0 + 0 = 0 /\ 0 \in Nat /\ 1 \in Int
    OBVIOUS
  <2>2. Power(xx, 0) = 1 /\ Power(s, 0) = 1
    BY <2>1, PowerIs
  <2> QED
    BY <1>2, <2>1, <2>2, SameItself
<1>4. PICK k \in Nat : n = k + 1 /\ k \notin Out
  <2>1. n - 1 \in Nat /\ n = (n - 1) + 1 /\ ~(n <= n - 1)
    BY <1>2, <1>3
  <2> QED
    BY <1>1, <2>1
<1> DEFINE p == Power(xx, k)
           q == Power(s, k + k)
           v == Power(s, k + k + 1)
           t == Power(xx, n)
           u == Power(s, n + n)
<1>5. k + k \in Nat /\ k + k + 1 \in Nat /\ n + n \in Nat /\ n + n = (k + k + 1) + 1
  BY <1>4
<1>6. p \in Int /\ q \in Int /\ v \in Int /\ t \in Int /\ u \in Int
  BY <1>2, <1>4, <1>5, PowerType, ResiduesAreInts
<1>7. Same(p, q)
  BY <1>4
<1>8. t = (p * xx) % P
  BY <1>4, PowerIs
<1>9. v = (q * s) % P /\ u = (v * s) % P
  BY <1>5, PowerIs
<1>10. ~Same(t, u)
  BY <1>2
<1> HIDE DEF p, q, v, t, u
<1> DEFINE ss == s * s
           px == p * xx
           qs == q * s
           vs == v * s
           z  == q * ss
<1>11. ss \in Int /\ px \in Int /\ qs \in Int /\ vs \in Int /\ z \in Int /\ qs * s = z
  BY <1>6
<1>12. Same(px, z)
  <2> HIDE DEF ss
  <2>1. Same(xx, ss)
    BY DEF ss
  <2> QED
    BY <1>6, <1>7, <1>11, <2>1, SameProduct
<1>13. Same(v, qs)
  <2> HIDE DEF qs
  <2>1. v = qs % P
    BY <1>9 DEF qs
  <2> QED
    BY <1>11, <2>1, SameReduced
<1>14. Same(vs, z)
  <2> HIDE DEF qs, z
  <2>1. Same(s, s)
    BY SameItself
  <2> QED
    BY <1>6, <1>11, <1>13, <2>1, SameProduct
<1> HIDE DEF ss, px, qs, vs, z
<1>15. Same(t, px) /\ Same(u, vs)
  BY <1>8, <1>9, <1>11, SameReduced DEF px, vs
<1>16. Same(t, z) /\ Same(u, z)
  BY <1>6, <1>11, <1>12, <1>14, <1>15, SameOrder
<1>17. Same(z, u)
  BY <1>6, <1>11, <1>16, SameOrder
<1> QED
  BY <1>6, <1>10, <1>11, <1>16, <1>17, SameOrder

LEMMA SquaresMeet ==
  ASSUME NEW a \in Int, NEW b \in Int, Same(a * a, b * b)
  PROVE  Same(a, b) \/ Same(a, -b)
<1>1. a * a - b * b = (a - b) * (a + b) /\ a - b \in Int /\ a + b \in Int /\ a - (-b) = a + b
  OBVIOUS
<1>2. Vanishes(a - b) \/ Vanishes(a + b)
  BY <1>1, VanishingProduct DEF Same
<1> QED
  BY <1>1, <1>2 DEF Same
\* The square of a power has twice the exponent.
LEMMA PowerDoubles ==
  ASSUME NEW s \in Int, NEW n \in Nat, NEW c \in Int, Same(c, Power(s, n))
  PROVE  Same(c * c, Power(s, n + n))
<1> DEFINE p == Power(s, n)
           u == Power(s, n + n)
<1>1. p \in Int /\ u \in Int
  <2>1. n + n \in Nat
    OBVIOUS
  <2> QED
    BY <2>1, PowerType, ResiduesAreInts
<1>2. Same(u, p * p)
  BY PowerSum
<1>3. Same(c, p)
  OBVIOUS
<1> HIDE DEF p, u
<1> DEFINE cc == c * c
           pp == p * p
<1>4. cc \in Int /\ pp \in Int
  BY <1>1
<1>5. Same(cc, pp)
  BY <1>1, <1>3, SameProduct
<1>6. Same(u, pp)
  BY <1>2
<1> HIDE DEF cc, pp
<1>7. Same(pp, u)
  BY <1>1, <1>4, <1>6, SameOrder
<1>8. Same(cc, u)
  BY <1>1, <1>4, <1>5, <1>7, SameOrder
<1> QED
  BY <1>8 DEF cc, u

LEMMA PowerTwo == \A a \in Int : Same(Power(a, 2), a * a)
<1> SUFFICES ASSUME NEW a \in Int
             PROVE  Same(Power(a, 2), a * a)
  OBVIOUS
<1>1. 0 \in Nat /\ 1 \in Nat /\ 0 + 1 = 1 /\ 1 + 1 = 2 /\ 1 * a = a
  OBVIOUS
<1> DEFINE p == Power(a, 1)
           q == Power(a, 2)
<1>2. p = a % P
  BY <1>1, PowerIs
<1>3. q = (p * a) % P
  BY <1>1, PowerIs
<1> HIDE DEF p, q
<1>4. Same(p, a) /\ p \in Int
  BY <1>2, SameReduced
<1> DEFINE pa == p * a
           aa == a * a
<1>5. pa \in Int /\ aa \in Int
  BY <1>4
<1>6. Same(pa, aa)
  BY <1>4, SameItself, SameProduct
<1> HIDE DEF pa, aa
<1>7. Same(q, pa) /\ q \in Int
  BY <1>3, <1>5, SameReduced DEF pa
<1>8. Same(q, aa)
  BY <1>5, <1>6, <1>7, SameOrder
<1> QED
  BY <1>8 DEF aa, q

\* The square of the power that RootCandidate takes of a square is the square or
\* its opposite.
LEMMA CandidateSquared ==
  ASSUME NEW s \in Int, NEW xx \in Int, Same(xx, s * s)
  PROVE  LET r == Power(xx, (P + 3) \div 8)
         IN Same(r * r, xx) \/ Same(r * r, -xx)
<1> DEFINE q == (P + 3) \div 8
           r == Power(xx, q)
           f == Power(s, P - 1)
           g == Power(s, 4)
<1>1. q \in Nat /\ P - 1 \in Nat /\ 8 * q = (P - 1) + 4
  BY FieldAssumption, Prime
<1> HIDE DEF q
<1>2. r \in Int /\ f \in Int /\ g \in Int
  BY <1>1, PowerType, ResiduesAreInts
<1>3. Same(r, Power(s, q + q))
  BY <1>1, PowerOfSquare
<1>4. Same(g, xx * xx)
  <2>1. Same(Power(xx, 2), g)
    <3>1. 2 \in Nat /\ 2 + 2 = 4
      OBVIOUS
    <3> HIDE DEF g
    <3> QED
      BY <3>1, PowerOfSquare DEF g
  <2> DEFINE h == Power(xx, 2)
             x4 == xx * xx
  <2>2. h \in Int /\ x4 \in Int /\ Same(h, x4)
    BY PowerType, ResiduesAreInts, PowerTwo
  <2>3. Same(h, g)
    BY <2>1
  <2> HIDE DEF h, x4, g
  <2>4. Same(g, x4)
    BY <1>2, <2>2, <2>3, SameOrder
  <2> QED
    BY <2>4 DEF x4
<1>5. Same(f * g, g)
  <2>1. CASE ~Vanishes(s)
    <3>1. f = 1
      BY <2>1, FermatsLittleTheorem
    <3> HIDE DEF f, g
    <3>2. f * g = g
      BY <1>2, <3>1
    <3> QED
      BY <1>2, <3>2, SameItself
  <2>2. CASE Vanishes(s)
    <3> DEFINE p == Power(s, 3)
    <3>1. p \in Int
      BY PowerType, ResiduesAreInts
    <3>2. g = (p * s) % P
      <4>1. 3 \in Nat /\ 3 + 1 = 4
        OBVIOUS
      <4> QED
        BY <4>1, PowerIs
    <3> HIDE DEF p
    <3>3. p * s \in Int /\ Vanishes(p * s)
      BY <2>2, <3>1, VanishingMultiple
    <3>4. g = 0
      BY <3>2, <3>3, ZeroResidue
    <3> HIDE DEF f, g
    <3>5. f * g = g
      BY <1>2, <3>4
    <3> QED
      BY <1>2, <3>5, SameItself
  <2> QED
    BY <2>1, <2>2
<1> DEFINE rr == r * r
           n  == (q + q) + (q + q)
           u  == Power(s, n + n)
<1>6. n \in Nat /\ n + n = (P - 1) + 4 /\ q + q \in Nat
  BY <1>1
<1>7. Same(u, f * g)
  <2>1. P - 1 \in Nat /\ 4 \in Nat
    BY <1>1
  <2> HIDE DEF n, f, g
  <2>2. Same(Power(s, (P - 1) + 4), Power(s, P - 1) * Power(s, 4))
    BY <2>1, PowerSum
  <2> QED
    BY <1>6, <2>2 DEF f, g
<1>8. rr \in Int /\ Same(rr, Power(s, n))
  <2> HIDE DEF r
  <2>1. Same(r, Power(s, q + q))
    BY <1>3
  <2> QED
    BY <1>2, <1>6, <2>1, PowerDoubles
<1>9. Same(rr * rr, u)
  <2> HIDE DEF rr, n
  <2> QED
    BY <1>6, <1>8, PowerDoubles
<1>10. u \in Int
  <2> HIDE DEF n
  <2>1. n + n \in Nat
    BY <1>6
  <2> QED
    BY <2>1, PowerType, ResiduesAreInts
<1> HIDE DEF u, n, f, g, r
<1> DEFINE fg == f * g
           r4 == rr * rr
           x4 == xx * xx
<1>11. fg \in Int /\ r4 \in Int /\ x4 \in Int
  BY <1>2, <1>8
<1>12. Same(r4, u) /\ Same(u, fg) /\ Same(fg, g) /\ Same(g, x4)
  BY <1>4, <1>5, <1>7, <1>9
<1> HIDE DEF fg, r4, x4
<1>13. Same(u, x4)
  <2>1. Same(u, g)
    BY <1>2, <1>10, <1>11, <1>12, SameOrder
  <2> QED
    BY <1>2, <1>10, <1>11, <1>12, <2>1, SameOrder
<1>14. Same(r4, x4)
  BY <1>10, <1>11, <1>12, <1>13, SameOrder
<1>15. Same(rr, xx) \/ Same(rr, -xx)
  <2> HIDE DEF rr
  <2>1. Same(rr * rr, xx * xx)
    BY <1>14 DEF r4, x4
  <2> QED
    BY <1>8, <2>1, SquaresMeet
<1> QED
  BY <1>15 DEF r, q

\* RootCandidate finds a root of every square: that is the shape of P, 5 modulo
\* 8, and what the code multiplies by a root of -1 for.
THEOREM RootCandidateIsARoot ==
  ASSUME NEW s \in Int, NEW xx \in Residues, Same(xx, s * s)
  PROVE  (RootCandidate(xx) * RootCandidate(xx)) % P = xx
<1> DEFINE r == Power(xx, (P + 3) \div 8)
           i == RootOfMinusOne
<1>1. xx \in Int /\ r \in Int /\ i \in Int
  <2>1. xx \in Int /\ (P + 3) \div 8 \in Nat /\ (P - 1) \div 4 \in Nat /\ 2 \in Int
    BY Prime, ResiduesAreInts
  <2> QED
    BY <2>1, PowerType, ResiduesAreInts DEF RootOfMinusOne
<1>2. Same(r * r, xx) \/ Same(r * r, -xx)
  BY <1>1, CandidateSquared
<1>3. RootCandidate(xx) = IF (r * r) % P = xx THEN r ELSE (r * i) % P
  BY DEF RootCandidate
<1>4. (i * i) % P = P - 1
  BY CurveAssumption
<1> HIDE DEF r, i
<1>5. CASE (r * r) % P = xx
  BY <1>3, <1>5
<1>6. CASE (r * r) % P # xx
  <2> DEFINE rr == r * r
             ii == i * i
             ri == r * i
             x  == ri % P
             ri2 == ri * ri
             x2 == x * x
  <2>1. rr \in Int /\ ii \in Int /\ ri \in Int /\ ri2 \in Int /\ ri2 = rr * ii
    BY <1>1
  <2>2. Same(rr, -xx)
    <3> SUFFICES ASSUME Same(rr, xx)
                 PROVE  FALSE
      BY <1>2
    <3> HIDE DEF rr
    <3>1. Same(xx, rr)
      BY <1>1, <2>1, SameOrder
    <3>2. rr % P = xx
      BY <2>1, <3>1, ResidueOf DEF Same
    <3> QED
      BY <1>6, <3>2 DEF rr
  <2>3. Same(ii, -1)
    <3> HIDE DEF ii
    <3>1. P - 1 \in Residues /\ P - 1 \in Int /\ P \in Int
      BY Prime DEF Residues
    <3>2. Vanishes((P - 1) - ii)
      BY <1>4, <2>1, <3>1, ResidueOf DEF ii
    <3>3. Vanishes(P)
      <4>1. P = P * 1 /\ 1 \in Int
        BY Prime
      <4> QED
        BY <4>1, Zenon DEF Vanishes
    <3>4. /\ P - ((P - 1) - ii) = ii - (-1) /\ (P - 1) - ii \in Int
      BY <2>1, <3>1
    <3> QED
      BY <3>1, <3>2, <3>3, <3>4, VanishingSum DEF Same
  <2>4. Same(ri2, xx)
    <3> HIDE DEF ri2, rr, ii
    <3>1. -xx \in Int /\ -1 \in Int /\ (-xx) * (-1) = xx
      BY <1>1
    <3>2. Same(rr * ii, (-xx) * (-1))
      BY <2>1, <2>2, <2>3, <3>1, SameProduct
    <3> QED
      BY <2>1, <3>1, <3>2
  <2>5. x \in Int /\ Same(x2, ri2) /\ x2 \in Int
    <3> HIDE DEF ri
    <3>1. Same(x, ri) /\ x \in Int
      BY <2>1, SameReduced
    <3> HIDE DEF x
    <3>2. Same(x * x, ri * ri)
      BY <2>1, <3>1, SameProduct
    <3>3. x * x \in Int
      BY <3>1
    <3> QED
      BY <3>1, <3>2, <3>3
  <2>6. x2 % P = xx
    <3> HIDE DEF x2, ri2
    <3>1. Same(x2, xx)
      BY <1>1, <2>1, <2>4, <2>5, SameOrder
    <3>2. Same(xx, x2)
      BY <1>1, <2>5, <3>1, SameOrder
    <3> QED
      BY <2>5, <3>2, ResidueOf DEF Same
  <2> QED
    BY <1>3, <1>6, <2>6
<1> QED
  BY <1>5, <1>6
-----------------------------------------------------------------------------
\* Keys of points.

LEMMA EncodingIs ==
  ASSUME NEW y \in Residues, NEW b \in {0, 1}
  PROVE  LET raw == y + SignBit * b
         IN raw \in Encodings /\ raw % SignBit = y /\ raw \div SignBit = b
<1>1. SignBit \in Nat /\ y \in Nat /\ y < SignBit /\ SignBit > 0
  BY FieldAssumption, Prime DEF Residues
<1>2. CASE b = 0
  <2>1. y + SignBit * b = y
    BY <1>1, <1>2
  <2>2. y \in Encodings /\ y % SignBit = y /\ y \div SignBit = 0
    BY <1>1 DEF Encodings
  <2> QED
    BY <1>2, <2>1, <2>2
<1>3. CASE b = 1
  <2> DEFINE raw == y + SignBit
  <2>1. y + SignBit * b = raw
    BY <1>1, <1>3
  <2>2. raw \in Encodings /\ raw \in Int
    BY <1>1 DEF Encodings
  <2>3. raw % SignBit = y /\ raw \div SignBit = 1
    BY <1>1
  <2> QED
    BY <1>3, <2>1, <2>2, <2>3
<1> QED
  BY <1>2, <1>3

\* The number that decodePoint takes the root of is the square of x.
LEMMA RootOfX ==
  ASSUME NEW x \in Int, NEW y \in Int, Vanishes(Equation(x, y))
  PROVE  LET xx == ((y * y - 1) * ModInverse(XDenominator(y))) % P
         IN xx \in Residues /\ Same(xx, x * x)
<1> DEFINE den == XDenominator(y)
           n   == y * y - 1
           xx  == (n * ModInverse(den)) % P
           e   == D * y * y + 1
           sq  == x * x
<1>1. n \in Int /\ e \in Int /\ den = e % P /\ sq \in Int
  BY DIsInt DEF XDenominator
<1>2. Equation(x, y) = n - sq * e
  BY DIsInt DEF Equation
<1> HIDE DEF n, e, sq
<1>3. den \in Residues /\ den \in Int /\ Same(den, e) /\ den # 0
  BY <1>1, SameReduced, DecodeDivides
<1> HIDE DEF den
<1>4. ~Vanishes(den)
  BY <1>3, NoSmallVanishes, Prime DEF Residues
<1>5. xx \in Residues /\ Vanishes(xx * den - n) /\ xx \in Int
  BY <1>1, <1>3, <1>4, Quotient, ResiduesAreInts
<1> HIDE DEF xx
<1>6. Same(sq * den, sq * e)
  BY <1>1, <1>3, SameItself, SameProduct
<1> DEFINE f == xx * den - n
           g == n - sq * e
           h == sq * den - sq * e
           one == 1
           minus == -1
           z == (xx - sq) * den
<1>7. /\ f \in Int /\ g \in Int /\ h \in Int /\ one \in Int /\ minus \in Int
      /\ z = f * one - g * minus - h * one
  BY <1>1, <1>3, <1>5
<1>8. Vanishes(f) /\ Vanishes(g) /\ Vanishes(h)
  BY <1>2, <1>5, <1>6 DEF Same
<1> HIDE DEF f, g, h, one, minus, z
<1>9. Vanishes((xx - sq) * den)
  <2>1. Vanishes(f * one - g * minus - h * one)
    BY <1>7, <1>8, ThreeVanish
  <2> QED
    BY <1>7, <2>1 DEF z
<1>10. xx - sq \in Int
  BY <1>1, <1>5
<1>11. Same(xx, sq)
  BY <1>3, <1>4, <1>9, <1>10, VanishingProduct DEF Same
<1> QED
  BY <1>5, <1>11 DEF xx, n, den, sq

\* The roots of a square are a residue and its opposite.
LEMMA TwoRoots ==
  ASSUME NEW x \in Residues, NEW c \in Residues, Same(c * c, x * x)
  PROVE  c = x \/ c = P - x
<1>1. x \in Int /\ c \in Int /\ P \in Int /\ P > 0
  BY Prime, ResiduesAreInts
<1>2. Same(c, x) \/ Same(c, -x)
  BY <1>1, SquaresMeet
<1>3. CASE Same(c, x)
  BY <1>3, SameResidue
<1>4. CASE Same(c, -x)
  <2> DEFINE k == c + x - P
  <2>1. c - (-x) = c + x /\ c + x \in Int
    BY <1>1
  <2>2. Vanishes(P)
    <3>1. P = P * 1 /\ 1 \in Int
      BY Prime
    <3> QED
      BY <3>1, Zenon DEF Vanishes
  <2>3. Vanishes(c + x)
    BY <1>4, <2>1 DEF Same
  <2>4. Vanishes(k) /\ k \in Int
    BY <1>1, <2>1, <2>2, <2>3, VanishingSum
  <2>5. CASE c + x = 0
    BY <1>1, <2>5, Prime DEF Residues
  <2>6. CASE c + x # 0
    <3>1. -P < k /\ k < P
      BY <1>1, <2>6, Prime DEF Residues
    <3> HIDE DEF k
    <3>2. k = 0
      BY <2>4, <3>1, NoSmallVanishes
    <3> QED
      BY <1>1, <3>2 DEF k
  <2> QED
    BY <2>5, <2>6
<1> QED
  BY <1>2, <1>3, <1>4

\* Every point of the curve has a key: decodePoint undoes Encode.
THEOREM EveryPointHasAKey ==
  ASSUME NEW p \in Curve
  PROVE  Encode(p) \in Encodings /\ DecodePoint(Encode(p)) = p
<1>1. PICK x, y \in Residues : x = p.x /\ y = p.y /\ p = [x |-> x, y |-> y]
  <2>1. p \in [x : Residues, y : Residues]
    BY CurveIs
  <2>2. p = [x |-> p.x, y |-> p.y] /\ p.x \in Residues /\ p.y \in Residues
    BY <2>1
  <2> QED
    BY <2>2
<1>2. x \in Int /\ y \in Int /\ Vanishes(Equation(x, y))
  BY <1>1, CurveIs, ResiduesAreInts DEF OnCurve
<1> DEFINE raw  == Encode(p)
           sign == x % 2
           xx   == ((y * y - 1) * ModInverse(XDenominator(y))) % P
           c    == RootCandidate(xx)
<1>3. sign \in {0, 1} /\ raw = y + SignBit * sign
  BY <1>1, <1>2 DEF Encode
<1> HIDE DEF raw, sign
<1>4. raw \in Encodings /\ raw % SignBit = y /\ raw \div SignBit = sign
  BY <1>3, EncodingIs
<1>5. DecodePoint(raw) = IF y >= P \/ (c * c) % P # xx \/ (c = 0 /\ sign = 1) THEN NoPoint
                         ELSE [x |-> IF c % 2 # sign THEN P - c ELSE c, y |-> y]
  BY <1>4 DEF DecodePoint
<1>6. xx \in Residues /\ Same(xx, x * x)
  BY <1>2, RootOfX
<1> HIDE DEF xx
<1>7. (c * c) % P = xx /\ c \in Residues /\ xx \in Int /\ c \in Int
  BY <1>2, <1>6, RootCandidateIsARoot, RootType, ResiduesAreInts
<1> HIDE DEF c
<1>8. c = x \/ c = P - x
  <2> DEFINE cc == c * c
             sq == x * x
  <2>1. cc \in Int /\ sq \in Int /\ cc % P = xx
    BY <1>2, <1>7
  <2>2. Same(xx, sq)
    BY <1>6
  <2> HIDE DEF cc, sq
  <2>3. Same(xx, cc)
    BY <2>1, SameReduced
  <2>4. Same(cc, xx)
    BY <1>7, <2>1, <2>3, SameOrder
  <2>5. Same(cc, sq)
    BY <1>7, <2>1, <2>2, <2>4, SameOrder
  <2> QED
    BY <1>7, <2>5, TwoRoots DEF cc, sq
<1>9. y < P /\ ~(y >= P)
  BY <1>2, Prime DEF Residues
<1>10. ~(c = 0 /\ sign = 1)
  BY <1>2, <1>7, <1>8, Prime DEF Residues, sign
<1>11. (IF c % 2 # sign THEN P - c ELSE c) = x
  <2>1. P \in Nat /\ P % 2 = 1 /\ x \in Nat /\ x < P
    BY Prime DEF Residues
  <2>2. CASE c = x
    BY <2>2 DEF sign
  <2>3. CASE c = P - x
    <3>1. c % 2 # x % 2
      BY <2>1, <2>3
    <3>2. P - c = x
      BY <2>1, <2>3
    <3> QED
      BY <3>1, <3>2 DEF sign
  <2> QED
    BY <1>8, <2>2, <2>3
<1>12. DecodePoint(raw) = [x |-> x, y |-> y]
  BY <1>5, <1>7, <1>9, <1>10, <1>11
<1> QED
  BY <1>1, <1>4, <1>12 DEF raw
LEMMA SubgroupOnCurve == \A p \in PrimeSubgroup : p \in Curve
<1> SUFFICES ASSUME NEW q \in Curve
             PROVE  Times(8, q) \in Curve
  BY DEF PrimeSubgroup
<1>1. 8 \in Nat
  OBVIOUS
<1> QED
  BY <1>1, TimesIs

LEMMA SubgroupIsEncoded == \A raw : IsSubgroupEncoding(raw) => raw \in Encodings
BY SubgroupOnCurve, EveryPointHasAKey DEF IsSubgroupEncoding

\* A multiple of L is one less than a multiple of 8, as L is odd.
LEMMA CofactorInverse == \E m, k \in Nat : 8 * m = 1 + k * L
<1> DEFINE j == L \div 8
           r == L % 8
<1>1. L \in Nat /\ j \in Nat /\ L = 8 * j + r /\ r \in {1, 3, 5, 7}
  BY FieldAssumption
<1> HIDE DEF j, r
<1>2. CASE r = 1
  <2>1. 8 * (7 * j + 1) = 1 + 7 * L /\ 7 * j + 1 \in Nat /\ 7 \in Nat
    BY <1>1, <1>2
  <2> QED
    BY <2>1
<1>3. CASE r = 3
  <2>1. 8 * (5 * j + 2) = 1 + 5 * L /\ 5 * j + 2 \in Nat /\ 5 \in Nat
    BY <1>1, <1>3
  <2> QED
    BY <2>1
<1>4. CASE r = 5
  <2>1. 8 * (3 * j + 2) = 1 + 3 * L /\ 3 * j + 2 \in Nat /\ 3 \in Nat
    BY <1>1, <1>4
  <2> QED
    BY <2>1
<1>5. CASE r = 7
  <2>1. 8 * (j + 1) = 1 + 1 * L /\ j + 1 \in Nat /\ 1 \in Nat
    BY <1>1, <1>5
  <2> QED
    BY <2>1
<1> QED
  BY <1>1, <1>2, <1>3, <1>4, <1>5

LEMMA MultipleOfEight ==
  ASSUME NEW p \in Curve, Times(L, p) = Identity,
         NEW m \in Nat, NEW k \in Nat, 8 * m = 1 + k * L
  PROVE  Times(8 * m, p) = p
<1> DEFINE kl == k * L
<1>1. L \in Nat /\ kl \in Nat /\ 1 \in Nat /\ 8 * m = 1 + kl
  BY FieldAssumption
<1>2. Times(kl, p) = Identity
  <2>1. Times(k * L, p) = Times(k, Times(L, p))
    BY <1>1, TimesProduct
  <2> QED
    BY <2>1, TimesIdentity
<1> HIDE DEF kl
<1>3. Times(1 + kl, p) = AddPoint(Times(1, p), Times(kl, p))
  BY <1>1, TimesSum
<1> QED
  BY <1>1, <1>2, <1>3, TimesOne, IdentityAdds

\* A point whose L-th multiple is the identity is the 8th multiple of another.
LEMMA InPrimeSubgroup ==
  ASSUME NEW p \in Curve
  PROVE  Times(L, p) = Identity <=> p \in PrimeSubgroup
<1>1. L \in Nat /\ 8 \in Nat /\ 8 * L = L * 8
  BY FieldAssumption
<1>2. ASSUME Times(L, p) = Identity
      PROVE  p \in PrimeSubgroup
  <2>1. PICK m, k \in Nat : 8 * m = 1 + k * L
    BY CofactorInverse
  <2>2. Times(m, p) \in Curve /\ Times(8, Times(m, p)) = Times(8 * m, p)
    BY <1>1, TimesIs, TimesProduct
  <2>3. Times(8 * m, p) = p
    BY <1>2, <2>1, MultipleOfEight
  <2>4. Times(8, Times(m, p)) = p
    BY <2>2, <2>3
  <2> QED
    BY <2>2, <2>4 DEF PrimeSubgroup
<1>3. ASSUME p \in PrimeSubgroup
      PROVE  Times(L, p) = Identity
  <2>1. PICK q \in Curve : p = Times(8, q)
    BY <1>3 DEF PrimeSubgroup
  <2>2. Times(L, p) = Times(L * 8, q)
    BY <1>1, <2>1, TimesProduct
  <2>3. Times(8 * L, q) = Identity
    BY OrderAssumption
  <2> QED
    BY <1>1, <2>2, <2>3
<1> QED
  BY <1>2, <1>3

\* The keys that are accepted are the encodings of the points of the prime-order
\* subgroup, without the identity, and no others: decoding, doubling and adding,
\* and comparing with the identity say so of every number of 32 bytes
\* (validOwnerPoint).
THEOREM ValidKeysAreTheSubgroup ==
  ASSUME NEW raw \in Encodings
  PROVE  ValidOwnerPoint(raw) <=> IsSubgroupEncoding(raw)
<1>1. raw \in Nat /\ L \in Nat
  BY FieldAssumption DEF Encodings
<1>2. ASSUME ValidOwnerPoint(raw)
      PROVE  IsSubgroupEncoding(raw)
  <2> DEFINE p == DecodePoint(raw)
  <2>1. p # NoPoint /\ p # Identity /\ ScalarMult(p, L) = Identity
    BY <1>2 DEF ValidOwnerPoint
  <2>2. p \in Curve /\ Encode(p) = raw
    BY <1>1, <2>1, DecodedIsOnTheCurve, OneKeyPerPoint
  <2> HIDE DEF p
  <2>3. p \in PrimeSubgroup
    BY <1>1, <2>1, <2>2, ScalarMultIsTimes, InPrimeSubgroup
  <2> QED
    BY <2>1, <2>2, <2>3 DEF IsSubgroupEncoding
<1>3. ASSUME IsSubgroupEncoding(raw)
      PROVE  ValidOwnerPoint(raw)
  <2>1. PICK p \in PrimeSubgroup : p # Identity /\ Encode(p) = raw
    BY <1>3 DEF IsSubgroupEncoding
  <2>2. p \in Curve
    BY SubgroupOnCurve
  <2>3. DecodePoint(raw) = p
    BY <2>1, <2>2, EveryPointHasAKey
  <2>4. p # NoPoint
    <3>1. p.x \in Residues
      BY <2>2, CurveIs
    <3> QED
      BY <3>1 DEF NoPoint, Residues
  <2>5. ScalarMult(p, L) = Identity
    BY <1>1, <2>2, ScalarMultIsTimes, InPrimeSubgroup
  <2> QED
    BY <2>1, <2>3, <2>4, <2>5 DEF ValidOwnerPoint
<1> QED
  BY <1>2, <1>3
\* The number 0 encodes a point of order 4: doubled twice it is the identity.
LEMMA ZeroIsNoKey == ~IsSubgroupEncoding(0)
<1> SUFFICES ASSUME NEW p \in PrimeSubgroup, p # Identity, Encode(p) = 0
             PROVE  FALSE
  BY DEF IsSubgroupEncoding
<1>1. p \in Curve
  BY SubgroupOnCurve
<1>2. PICK x \in Residues : x = p.x /\ p.y = 0 /\ OnCurve(p) /\ x \in Int
  <2>1. p.x \in Residues /\ p.y \in Residues /\ OnCurve(p) /\ p.x \in Int
    BY <1>1, CurveIs, ResiduesAreInts
  <2>2. p.y \in Nat /\ p.x % 2 \in Nat /\ SignBit \in Nat /\ SignBit > 0
    BY <2>1, FieldAssumption, Prime DEF Residues
  <2>3. \A y, s, b \in Nat : y + s * b = 0 => y = 0
    <3>1. \A s, b \in Nat : s * b \in Nat
      OBVIOUS
    <3> QED
      BY <3>1
  <2>4. p.y = 0
    BY <2>2, <2>3 DEF Encode
  <2> QED
    BY <2>1, <2>4
<1>3. Same(x * x, -1)
  <2>1. Equation(x, 0) = (-1) - x * x
    BY <1>2, DIsInt DEF Equation
  <2> DEFINE sq == x * x
  <2>2. sq \in Int /\ -1 \in Int /\ Vanishes((-1) - sq)
    BY <1>2, <2>1 DEF OnCurve
  <2> HIDE DEF sq
  <2>3. Same(sq, -1)
    BY <2>2, SameOrder DEF Same
  <2> QED
    BY <2>3 DEF sq
<1> DEFINE q == AddPoint(p, p)
           r == AddPoint(q, q)
<1>4. /\ OnCurve(p) /\ q \in Curve /\ r \in Curve
      /\ OnCurve(q)
  BY <1>1, CurveIs, SumOnCurve
<1>5. PICK a, b, T \in Int : /\ a = q.x /\ b = q.y /\ a \in Residues /\ b \in Residues
                             /\ IsSum(x, 0, x, 0, T, a, b)
  <2>1. q.x \in Residues /\ q.y \in Residues /\ q.x \in Int /\ q.y \in Int
    BY <1>4, CurveIs, ResiduesAreInts
  <2>2. \E T \in Int : IsSum(p.x, p.y, p.x, p.y, T, q.x, q.y)
    BY <1>4, SumIsSum
  <2> QED
    BY <1>2, <2>1, <2>2
<1>6. PICK c, d, U \in Int : /\ c = r.x /\ d = r.y /\ c \in Residues /\ d \in Residues
                             /\ IsSum(a, b, a, b, U, c, d)
  <2>1. r.x \in Residues /\ r.y \in Residues /\ r.x \in Int /\ r.y \in Int
    BY <1>4, CurveIs, ResiduesAreInts
  <2>2. \E U \in Int : IsSum(q.x, q.y, q.x, q.y, U, r.x, r.y)
    BY <1>4, SumIsSum
  <2> QED
    BY <1>5, <2>1, <2>2
<1>7. a = 0 /\ Same(b, -1)
  <2>1. T = 0 /\ Same(a * (1 + T), x * 0 + x * 0) /\ Same(b * (1 - T), 0 * 0 + x * x)
    BY <1>2, <1>5, DIsInt DEF IsSum
  <2>2. a * (1 + T) = a /\ b * (1 - T) = b /\ x * 0 + x * 0 = 0 /\ 0 * 0 + x * x = x * x
    BY <1>2, <1>5, <2>1
  <2>3. Same(a, 0) /\ 0 \in Residues
    BY <2>1, <2>2, Prime DEF Residues
  <2> DEFINE sq == x * x
  <2>4. Same(b, sq) /\ Same(sq, -1) /\ sq \in Int /\ -1 \in Int
    BY <1>2, <1>3, <2>1, <2>2
  <2> HIDE DEF sq
  <2>5. Same(b, -1)
    BY <2>4, SameOrder
  <2> QED
    BY <1>5, <2>3, <2>5, SameResidue
<1>8. r = Identity
  <2>1. U = 0 /\ Same(c * (1 + U), 0 * b + 0 * b) /\ Same(d * (1 - U), b * b + 0 * 0)
    BY <1>6, <1>7, DIsInt DEF IsSum
  <2>2. c * (1 + U) = c /\ d * (1 - U) = d /\ 0 * b + 0 * b = 0 /\ b * b + 0 * 0 = b * b
    BY <2>1
  <2>3. 0 \in Residues /\ 1 \in Residues /\ -1 \in Int /\ (-1) * (-1) = 1 /\ b * b \in Int
    BY Prime DEF Residues
  <2>4. Same(b * b, (-1) * (-1))
    BY <1>7, <2>3, SameProduct
  <2> DEFINE sq == b * b
  <2>5. Same(d, sq) /\ Same(sq, 1) /\ sq \in Int /\ 1 \in Int
    BY <2>1, <2>2, <2>3, <2>4
  <2> HIDE DEF sq
  <2>6. Same(d, 1) /\ Same(c, 0)
    BY <2>1, <2>2, <2>5, SameOrder
  <2>7. c = 0 /\ d = 1
    BY <1>6, <2>3, <2>6, SameResidue
  <2>8. r = [x |-> r.x, y |-> r.y]
    <3>1. r \in [x : Residues, y : Residues]
      BY <1>4, CurveIs
    <3> HIDE DEF r
    <3> QED
      BY <3>1
  <2> QED
    BY <1>6, <2>7, <2>8 DEF Identity
<1> HIDE DEF q, r
<1>9. Times(4, p) = r
  <2>1. 2 \in Nat /\ 2 * 2 = 4
    OBVIOUS
  <2>2. Times(2, p) = q /\ Times(2, q) = r
    BY <1>1, <1>4, TimesOne DEF q, r
  <2>3. Times(2 * 2, p) = Times(2, Times(2, p))
    BY <1>1, <2>1, TimesProduct
  <2> QED
    BY <2>1, <2>2, <2>3
<1>10. PICK m, k \in Nat : 8 * m = 1 + k * L
  BY CofactorInverse
<1>11. Times(8 * m, p) = p
  BY <1>1, <1>10, MultipleOfEight, InPrimeSubgroup
<1>12. Times((2 * m) * 4, p) = Identity
  <2> DEFINE h == 2 * m
  <2>1. h \in Nat /\ 4 \in Nat
    OBVIOUS
  <2> HIDE DEF h
  <2>2. Times(h * 4, p) = Times(h, Times(4, p))
    BY <1>1, <2>1, TimesProduct
  <2> QED
    BY <1>8, <1>9, <2>1, <2>2, TimesIdentity DEF h
<1>13. 8 * m = (2 * m) * 4
  OBVIOUS
<1> QED
  BY <1>11, <1>12, <1>13
=============================================================================
