-------------------------- MODULE ArithmeticLemmas --------------------------
(***************************************************************************)
(* Facts about remainders and about sets of natural numbers for the        *)
(* proofs: a residue determines a number within a range shorter than the   *)
(* modulus, a set of natural numbers has a least element, and a set with   *)
(* zero and every successor has all of them.  The last one is induction    *)
(* for properties that are written as sets.                                *)
(***************************************************************************)
EXTENDS Integers, WellFoundedInduction, TLAPS

LEMMA Division ==
  ASSUME NEW N \in Nat \ {0}, NEW a \in Int
  PROVE  /\ a % N \in 0 .. N - 1
         /\ a \div N \in Int
         /\ a = (N * (a \div N)) + (a % N)
OBVIOUS

LEMMA Multiple ==
  ASSUME NEW N \in Nat \ {0}, NEW q \in Int, q >= 1
  PROVE  N * q >= N
OBVIOUS

LEMMA Distributes ==
  ASSUME NEW N \in Int, NEW q \in Int, NEW p \in Int
  PROVE  /\ N * (q - p) = (N * q) - (N * p)
         /\ N * (q + p) = (N * q) + (N * p)
OBVIOUS

LEMMA DivisionIsUnique ==
  ASSUME NEW N \in Nat \ {0}, NEW q \in Int, NEW r \in 0 .. N - 1,
         NEW p \in Int, NEW s \in 0 .. N - 1,
         (N * q) + r = (N * p) + s
  PROVE  q = p /\ r = s
<1>1. N * (q - p) = s - r
  OBVIOUS
<1>2. CASE q - p >= 1
  BY <1>1, <1>2, Multiple
<1>3. CASE p - q >= 1
  <2>1. N * (p - q) = r - s
    OBVIOUS
  <2> QED BY <2>1, <1>3, Multiple
<1>4. CASE p = q
  BY <1>4
<1> QED BY <1>2, <1>3, <1>4

LEMMA RemainderOf ==
  ASSUME NEW N \in Nat \ {0}, NEW q \in Int, NEW r \in 0 .. N - 1
  PROVE  ((N * q) + r) % N = r
<1> DEFINE a == (N * q) + r
           d == a \div N
           m == a % N
<1>1. a \in Int
  OBVIOUS
<1>2. m \in 0 .. N - 1 /\ d \in Int /\ a = (N * d) + m
  BY <1>1, Division
<1> HIDE DEF d, m
<1>3. r = m
  BY <1>2, DivisionIsUnique
<1> QED BY <1>3 DEF m

LEMMA RemainderOfDifference ==
  ASSUME NEW N \in Nat \ {0}, NEW a \in Int, NEW b \in Int, 0 <= a - b, a - b < N
  PROVE  ((a % N) - (b % N)) % N = a - b
<1> DEFINE q == a \div N
           p == b \div N
           r == a % N
           s == b % N
<1>1. /\ r \in 0 .. N - 1 /\ s \in 0 .. N - 1
      /\ q \in Int /\ p \in Int
      /\ a = (N * q) + r
      /\ b = (N * p) + s
  BY Division
<1> HIDE DEF q, p, r, s
<1>2. r - s = (N * (p - q)) + (a - b) /\ p - q \in Int
  BY <1>1, Distributes
<1>3. (r - s) % N = a - b
  BY <1>2, RemainderOf
<1> QED BY <1>3 DEF r, s

LEMMA RemainderOfSum ==
  ASSUME NEW N \in Nat \ {0}, NEW a \in Int, NEW k \in Int
  PROVE  ((a % N) + k) % N = (a + k) % N
<1> DEFINE q == a \div N
           r == a % N
<1>1. r \in 0 .. N - 1 /\ q \in Int /\ a = (N * q) + r
  BY Division
<1> HIDE DEF q, r
<1> DEFINE t == r + k
           p == t \div N
           s == t % N
<1>2. t \in Int
  BY <1>1
<1> HIDE DEF t
<1>3. s \in 0 .. N - 1 /\ p \in Int /\ t = (N * p) + s
  BY <1>2, Division
<1> HIDE DEF p, s
<1>4. a + k = (N * (p + q)) + s /\ p + q \in Int
  BY <1>1, <1>2, <1>3, Distributes DEF t
<1>5. (a + k) % N = s
  BY <1>3, <1>4, RemainderOf
<1> QED BY <1>5 DEF s, r, t

LEMMA LeastOf ==
  ASSUME NEW T \in SUBSET Nat, T # {}
  PROVE  \E x \in T : \A y \in T : x <= y
<1> DEFINE R == OpToRel(<, Nat)
<1>1. \E x \in T : \A y \in T : ~ (<<y, x>> \in R)
  BY NatLessThanWellFounded, WFMin
<1>2. \A x, y \in Nat : <<y, x>> \in R <=> y < x
  BY DEF OpToRel
<1> HIDE DEF R
<1>3. PICK x \in T : \A y \in T : ~ (<<y, x>> \in R)
  BY <1>1
<1>4. ASSUME NEW y \in T
      PROVE  x <= y
  <2>1. x \in Nat /\ y \in Nat
    OBVIOUS
  <2>2. ~ (y < x)
    BY <1>2, <1>3, <2>1
  <2> QED BY <2>1, <2>2
<1> QED BY <1>4

LEMMA InductionOnSet ==
  ASSUME NEW S, 0 \in S, \A n \in Nat : n \in S => n + 1 \in S
  PROVE  Nat \subseteq S
<1> DEFINE T == Nat \ S
<1> SUFFICES ASSUME T # {}
             PROVE  FALSE
  OBVIOUS
<1>1. PICK x \in T : \A y \in T : x <= y
  BY LeastOf
<1>2. x \in Nat /\ x # 0
  BY <1>1
<1>3. x - 1 \in Nat /\ x - 1 \notin T
  BY <1>1, <1>2
<1>4. x - 1 \in S /\ (x - 1) + 1 = x
  BY <1>2, <1>3
<1> QED BY <1>1, <1>3, <1>4

=============================================================================
