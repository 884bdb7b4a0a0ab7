--------------------------- MODULE RemainderTheorems ---------------------------
(***************************************************************************)
(* Facts about quotients and remainders on which the packing of the short  *)
(* header and the wrapping counter of tokens rest.                         *)
(***************************************************************************)
EXTENDS Integers, TLAPS

\* A field of a mixed-radix number and the rest above it can be read back.
LEMMA FieldAndRest ==
  ASSUME NEW span \in Nat \ {0}, NEW field \in 0 .. span - 1, NEW rest \in Nat
  PROVE  /\ (field + span * rest) % span = field
         /\ (field + span * rest) \div span = rest
  OBVIOUS

\* Every number is a field and a rest.
LEMMA Division ==
  ASSUME NEW span \in Nat \ {0}, NEW a \in Nat
  PROVE  /\ a % span \in 0 .. span - 1
         /\ a \div span \in Nat
         /\ a = (a % span) + span * (a \div span)
  OBVIOUS

\* Of two numbers with one remainder the larger is a whole span away.
LEMMA SameRemainder ==
  ASSUME NEW span \in Nat \ {0}, NEW a \in Nat, NEW b \in Nat,
         a < b, a % span = b % span
  PROVE  b - a >= span
<1> DEFINE q == a \div span
           r == b \div span
<1>1. /\ q \in Nat /\ r \in Nat /\ a % span \in Nat
      /\ a = (a % span) + span * q
      /\ b = (a % span) + span * r
  <2>1. q \in Nat /\ a % span \in Nat /\ a = (a % span) + span * q
    <3>1. a % span \in 0 .. span - 1 /\ q \in Nat /\ a = (a % span) + span * q
      BY Division
    <3> QED
      BY <3>1
  <2>2. r \in Nat /\ b = (b % span) + span * r
    BY Division
  <2> QED
    BY <2>1, <2>2
<1> HIDE DEF q, r
<1>2. r >= q + 1
  <2>1. CASE r <= q
    <3>1. PICK d \in Nat : q = r + d
      BY <1>1, <2>1, q - r \in Nat
    <3>2. span * q = span * r + span * d
      BY <1>1, <3>1
    <3>3. span * d >= 0
      BY <3>1
    <3>4. span * q \in Nat /\ span * r \in Nat
      BY <1>1
    <3> QED
      BY <1>1, <3>2, <3>3, <3>4
  <2> QED
    BY <1>1, <2>1
<1>3. PICK d \in Nat : r = q + 1 + d
  BY <1>1, <1>2, r - q - 1 \in Nat
<1>4. span * r = span * q + span + span * d
  BY <1>1, <1>3
<1>5. span * d >= 0 /\ span * d \in Nat /\ span * q \in Nat
  BY <1>1, <1>3
<1> QED
  BY <1>1, <1>4, <1>5

\* Adding one after taking the remainder or before makes no difference.
LEMMA WrappingAdd ==
  ASSUME NEW span \in Nat \ {0, 1}, NEW a \in Nat
  PROVE  ((a % span) + 1) % span = (a + 1) % span
<1> DEFINE f == a % span
           q == a \div span
<1>1. f \in 0 .. span - 1 /\ q \in Nat /\ a = f + span * q
  BY Division
<1> HIDE DEF f, q
<1>2. CASE f + 1 < span
  <2>1. a + 1 = (f + 1) + span * q
    BY <1>1
  <2>2. (a + 1) % span = f + 1
    BY <1>1, <1>2, <2>1, FieldAndRest
  <2> QED
    BY <1>1, <1>2, <2>2 DEF f
<1>3. CASE f + 1 = span
  <2>1. a + 1 = 0 + span * (q + 1)
    BY <1>1, <1>3
  <2>2. (a + 1) % span = 0
    BY <1>1, <2>1, FieldAndRest
  <2>3. span % span = 0
    OBVIOUS
  <2> QED
    BY <1>3, <2>2, <2>3 DEF f
<1> QED
  BY <1>1, <1>2, <1>3

=============================================================================
