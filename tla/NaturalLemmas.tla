--------------------------- MODULE NaturalLemmas ----------------------------
(* Facts about least elements and division the other proofs rest on.        *)
EXTENDS Integers, FiniteSetsExt, TLAPS, WellFoundedInduction

(* A non-empty set of naturals has a least element: the search loops of the *)
(* programs stop at the first element that fits.                            *)
LEMMA LeastExists ==
    ASSUME NEW I \in SUBSET Nat, I # {}
    PROVE  \E x \in I : \A y \in I : x <= y
<1>1. PICK x \in I : \A y \in I : ~ (<<y, x>> \in OpToRel(<, Nat))
  BY NatLessThanWellFounded, WFMin, Zenon
<1>2. \A a, b \in Nat : a < b => <<a, b>> \in OpToRel(<, Nat)
  BY Zenon DEF OpToRel
<1>3. \A y \in I : ~(y < x)
  BY <1>1, <1>2, Zenon
<1> QED BY <1>3

LEMMA MinIsLeast ==
    ASSUME NEW I \in SUBSET Nat, I # {}
    PROVE  Min(I) \in I /\ \A y \in I : Min(I) <= y
<1>1. \E x \in I : \A y \in I : x <= y
  BY LeastExists
<1> QED BY <1>1 DEF Min

(* What the quotient is.                                                    *)
LEMMA DivFacts ==
    ASSUME NEW n \in Nat \ {0}, NEW a \in Int
    PROVE  a \div n \in Int /\ n * (a \div n) <= a /\ a < n * (a \div n) + n
BY SMT

LEMMA DivUnique ==
    ASSUME NEW n \in Nat \ {0}, NEW a \in Int, NEW q \in Int,
           n * q <= a, a < n * q + n
    PROVE  a \div n = q
BY SMT

LEMMA DivMonotone ==
    ASSUME NEW n \in Nat \ {0}, NEW a \in Int, NEW b \in Int, a <= b
    PROVE  a \div n <= b \div n
<1> DEFINE q == a \div n
           r == b \div n
<1>1. /\ q \in Int /\ n * q <= a
      /\ r \in Int /\ b < n * r + n
  BY DivFacts
<1> HIDE DEF q, r
<1>2. n * q < n * (r + 1)
  BY <1>1, SMT
<1>3. q < r + 1
  BY <1>1, <1>2, SMT
<1>4. q <= r
  BY <1>1, <1>3
<1> QED BY <1>4 DEF q, r

(* Counting pages from the start of a page or from address 0 is the same.   *)
LEMMA DivShift ==
    ASSUME NEW n \in Nat \ {0}, NEW a \in Int, NEW k \in Int
    PROVE  (a - n * k) \div n = (a \div n) - k
<1> DEFINE q == a \div n
<1>1. q \in Int /\ n * q <= a /\ a < n * q + n
  BY DivFacts
<1>2. n * (q - k) = n * q - n * k
  BY <1>1, SMT
<1>3. n * k \in Int /\ n * q \in Int
  BY <1>1, SMT
<1> HIDE DEF q
<1>4. n * (q - k) <= a - n * k /\ a - n * k < n * (q - k) + n
  BY <1>1, <1>2, <1>3, SMT
<1>5. a - n * k \in Int /\ q - k \in Int
  BY <1>1, <1>3, SMT
<1>6. (a - n * k) \div n = q - k
  BY <1>4, <1>5, DivUnique
<1> QED BY <1>6 DEF q

=============================================================================
