--------------------------- MODULE NetRulesProofs ---------------------------
(***************************************************************************)
(* What is proved about NetRules: IPRangeToCIDRs is right for addresses of *)
(* any width, the 32 bits of the code included.                            *)
(***************************************************************************)
EXTENDS NetRules, WellFoundedInduction, TLAPS

-----------------------------------------------------------------------------
(* Least elements: what stands in for induction                            *)

\* A set of naturals has a least element, unless it is empty.
LEMMA LeastElement ==
  ASSUME NEW T \in SUBSET Nat, T # {}
  PROVE  \E x \in T : \A y \in T : x =< y
  <1>1. PICK x \in T : \A y \in T : ~(<<y, x>> \in OpToRel(<, Nat))
    BY NatLessThanWellFounded, WFMin, Zenon
  <1>2. \A y, z \in Nat : <<y, z>> \in OpToRel(<, Nat) <=> y < z
    BY DEF OpToRel
  <1>3. ASSUME NEW y \in T PROVE x =< y
    <2>1. ~(y < x)
      BY <1>1, <1>2
    <2> QED
      BY <2>1
  <1> QED
    BY <1>3

-----------------------------------------------------------------------------
(* Remainders                                                              *)

\* Division with remainder
LEMMA Division ==
  ASSUME NEW x \in Int, NEW d \in Nat \ {0}
  PROVE  x % d \in 0..(d - 1) /\ \E q \in Int : x = q * d + (x % d)
  <1>1. x = (x \div d) * d + (x % d) /\ x \div d \in Int
    OBVIOUS
  <1>2. x % d \in 0..(d - 1)
    OBVIOUS
  <1>3. \E q \in Int : x = q * d + (x % d)
    BY <1>1, Zenon
  <1> QED
    BY <1>2, <1>3

\* The remainder is the only one.
LEMMA Remainder ==
  ASSUME NEW q \in Int, NEW d \in Nat \ {0}, NEW s \in 0..(d - 1)
  PROVE  (q * d + s) % d = s
  OBVIOUS

\* Twice the divisor
LEMMA Doubling ==
  ASSUME NEW x \in Int, NEW d \in Nat \ {0}
  PROVE  x % (2 * d) = x % d \/ x % (2 * d) = (x % d) + d
  <1>1. PICK q \in Int : x = q * d + (x % d)
    BY Division
  <1>2. PICK p \in Int : q = 2 * p \/ q = 2 * p + 1
    <2>1. q \div 2 \in Int /\ (q = 2 * (q \div 2) \/ q = 2 * (q \div 2) + 1)
      OBVIOUS
    <2> QED
      BY <2>1
  <1>3. /\ (2 * p) * d = p * (2 * d) /\ (2 * p + 1) * d = p * (2 * d) + d
        /\ x % d \in 0..(d - 1) /\ 2 * d \in Nat \ {0}
    BY Division
  <1>4. CASE q = 2 * p
    <2>1. x = p * (2 * d) + (x % d) /\ x % d \in 0..(2 * d - 1)
      BY <1>1, <1>3, <1>4
    <2> QED
      BY <1>3, <2>1, Remainder
  <1>5. CASE q = 2 * p + 1
    <2>1. x = p * (2 * d) + (d + (x % d)) /\ d + (x % d) \in 0..(2 * d - 1)
      BY <1>1, <1>3, <1>5
    <2>2. x % (2 * d) = d + (x % d)
      BY <1>3, <2>1, Remainder
    <2> QED
      BY <1>3, <2>2
  <1> QED
    BY <1>2, <1>4, <1>5

\* Numbers of one block have the same start.
LEMMA SameBlock ==
  ASSUME NEW x \in Int, NEW y \in Int, NEW d \in Nat \ {0},
         x - (x % d) =< y, y =< x - (x % d) + d - 1
  PROVE  y - (y % d) = x - (x % d)
  <1>1. PICK q \in Int : x = q * d + (x % d)
    BY Division
  <1>2. x % d \in Int /\ q * d \in Int
    BY Division
  <1>3. y = q * d + (y - q * d) /\ y - q * d \in 0..(d - 1)
    BY <1>1, <1>2
  <1>4. y % d = y - q * d
    BY <1>3, Remainder
  <1> QED
    BY <1>1, <1>2, <1>4

\* The number after a block starts a block.
LEMMA NextBlock ==
  ASSUME NEW x \in Int, NEW d \in Nat \ {0}, x % d = 0
  PROVE  (x + d) % d = 0
  <1>1. PICK q \in Int : x = q * d + (x % d)
    BY Division
  <1>2. x + d = (q + 1) * d + 0 /\ q + 1 \in Int /\ 0 \in 0..(d - 1)
    BY <1>1
  <1> QED
    BY <1>2, Remainder

-----------------------------------------------------------------------------
(* Blocks                                                                  *)

Lengths == 0..Width

\* The number of addresses of a block with k bits of prefix
size(k) == 2^(Width - k)

\* The power of nothing
LEMMA PowerZero == \A k : k = 0 => 2^k = 1
  <1>1. 2^0 = 1
    OBVIOUS
  <1> QED
    BY <1>1, Zenon

\* Powers of two are positive.
LEMMA PowersPositive == \A k \in Lengths : 2^k \in Nat \ {0}
  <1>1. Width \in Nat
    BY WidthAssumption
  <1> DEFINE T == {k \in Lengths : 2^k \notin Nat \ {0}}
  <1>2. SUFFICES ASSUME T # {} PROVE FALSE
    OBVIOUS
  <1>t. T \in SUBSET Nat
    BY <1>1 DEF Lengths
  <1>3. PICK k \in T : \A j \in T : k =< j
    <2> HIDE DEF T
    <2> QED
      BY <1>2, <1>t, LeastElement
  <1>4. k \in Lengths /\ 2^k \notin Nat \ {0}
    BY <1>3
  <1>5. k # 0
    BY <1>4, PowerZero
  <1>6. k \in 1..Width /\ k - 1 \in Lengths /\ ~(k =< k - 1)
    BY <1>1, <1>4, <1>5 DEF Lengths
  <1>7. 2^(k - 1) \in Nat \ {0}
    BY <1>3, <1>6
  <1>8. 2^k = 2 * 2^(k - 1)
    BY <1>6, PowerAssumption
  <1> QED
    BY <1>4, <1>7, <1>8

\* Sizes of blocks
LEMMA Sizes ==
  /\ \A k \in Lengths : size(k) \in Nat \ {0}
  /\ size(Width) = 1 /\ size(0) = 2^Width
  /\ \A k \in 1..Width : size(k - 1) = 2 * size(k)
  <1>0. Width \in Nat
    BY WidthAssumption
  <1>1. ASSUME NEW k \in Lengths PROVE size(k) \in Nat \ {0}
    <2>1. Width - k \in Lengths
      BY <1>0 DEF Lengths
    <2> QED
      BY <2>1, PowersPositive DEF size
  <1>2. size(Width) = 1 /\ size(0) = 2^Width
    <2>1. Width - Width = 0 /\ Width - 0 = Width
      BY <1>0
    <2> QED
      BY <2>1, PowerZero DEF size
  <1>3. ASSUME NEW k \in 1..Width PROVE size(k - 1) = 2 * size(k)
    <2>1. PICK j \in 1..Width : j = Width - (k - 1) /\ j - 1 = Width - k
      <3>1. Width - (k - 1) \in 1..Width /\ (Width - (k - 1)) - 1 = Width - k
        BY <1>0
      <3> QED
        BY <3>1
    <2>2. 2^j = 2 * 2^(j - 1)
      BY <2>1, PowerAssumption
    <2> QED
      BY <2>1, <2>2 DEF size
  <1> QED
    BY <1>1, <1>2, <1>3

\* first and last, without the mask
LEMMA BlockIs ==
  ASSUME NEW s \in Nat, NEW k \in Lengths
  PROVE  /\ first(s, k) = s - (s % size(k))
         /\ last(s, k) = first(s, k) + size(k) - 1
         /\ s % size(k) \in 0..(size(k) - 1)
         /\ first(s, k) \in Nat /\ last(s, k) \in Nat
         /\ first(s, k) =< s /\ s =< last(s, k)
  <1>1. PICK n \in Nat : n = 2^Width
    BY Sizes, WidthAssumption DEF Lengths
  <1>2. PICK z \in Nat \ {0} : z = size(k)
    BY Sizes
  <1>3. bitMask(k) = n - z
    BY <1>1, <1>2 DEF bitMask, size
  <1>4. n - (n - z) = z /\ n - 1 - (n - z) = z - 1
    BY <1>1, <1>2
  <1>5. first(s, k) = s - (s % z)
    BY <1>1, <1>3, <1>4 DEF first
  <1>6. last(s, k) = first(s, k) + (z - 1)
    BY <1>1, <1>3, <1>4 DEF last
  <1>7. s % z \in 0..(z - 1) /\ s % z =< s
    <2>1. s % z \in 0..(z - 1)
      BY Division
    <2>2. PICK q \in Int : s = q * z + (s % z)
      <3>1. s \in Int
        OBVIOUS
      <3> QED
        BY <3>1, Division
    <2>3. q >= 0
      <3>1. CASE q < 0
        <4>1. q * z + z =< 0
          BY <3>1
        <4> QED
          BY <2>1, <2>2, <4>1
      <3> QED
        BY <3>1
    <2>4. q * z >= 0 /\ q * z \in Int
      BY <2>3
    <2> QED
      BY <2>1, <2>2, <2>4
  <1>8. /\ first(s, k) \in Nat /\ first(s, k) =< s
        /\ last(s, k) = first(s, k) + z - 1 /\ last(s, k) \in Nat /\ s =< last(s, k)
    BY <1>5, <1>6, <1>7
  <1> QED
    BY <1>2, <1>5, <1>7, <1>8

\* A block of one bit less contains it.
LEMMA NestedOnce ==
  ASSUME NEW s \in Nat, NEW k \in 1..Width
  PROVE  first(s, k - 1) =< first(s, k) /\ last(s, k) =< last(s, k - 1)
  <1>0. k \in Lengths /\ k - 1 \in Lengths
    BY WidthAssumption DEF Lengths
  <1>1. PICK z \in Nat \ {0} : z = size(k) /\ size(k - 1) = 2 * z
    BY <1>0, Sizes
  <1>i. s \in Int
    OBVIOUS
  <1>2. PICK x \in Nat : x = s % z /\ x \in 0..(z - 1)
    <2>1. s % z \in 0..(z - 1)
      BY <1>i, Division
    <2>2. s % z \in Nat
      BY <2>1
    <2> QED
      BY <2>1, <2>2
  <1>3. s % (2 * z) = x \/ s % (2 * z) = x + z
    BY <1>2, <1>i, Doubling
  <1>4. first(s, k) = s - x /\ last(s, k) = first(s, k) + z - 1
    BY <1>0, <1>1, <1>2, BlockIs
  <1>5. /\ first(s, k - 1) = s - (s % (2 * z))
        /\ last(s, k - 1) = first(s, k - 1) + (2 * z) - 1
    <2>1. \A y : y = 2 * z => first(s, k - 1) = s - (s % y) \/ y # size(k - 1)
      BY <1>0, BlockIs
    <2>2. last(s, k - 1) = first(s, k - 1) + size(k - 1) - 1
      BY <1>0, BlockIs
    <2> QED
      BY <1>1, <2>1, <2>2
  <1>6. PICK y \in Int : y = s % (2 * z) /\ (y = x \/ y = x + z)
    BY <1>1, <1>2, <1>3
  <1>7. first(s, k - 1) = s - y /\ last(s, k - 1) = (s - y) + (2 * z) - 1
    BY <1>5, <1>6
  <1>8. first(s, k) = s - x /\ last(s, k) = (s - x) + z - 1
    BY <1>4
  <1> QED
    BY <1>2, <1>6, <1>7, <1>8

\* Blocks of an address are nested.
LEMMA Nested ==
  ASSUME NEW s \in Nat, NEW j \in Lengths, NEW k \in Lengths, j =< k
  PROVE  first(s, j) =< first(s, k) /\ last(s, k) =< last(s, j)
  <1>0. Width \in Nat
    BY WidthAssumption
  <1> DEFINE N(d) == first(s, d) =< first(s, k) /\ last(s, k) =< last(s, d)
             T == {n \in Nat : n =< k /\ ~N(k - n)}
  <1>1. SUFFICES ASSUME T # {} PROVE FALSE
    <2>1. k - j \in Nat /\ k - j =< k /\ k - (k - j) = j
      BY <1>0 DEF Lengths
    <2>2. T = {} => N(k - (k - j))
      BY <2>1
    <2> QED
      BY <1>1, <2>1, <2>2
  <1>2. PICK n \in T : \A m \in T : n =< m
    <2>1. T \in SUBSET Nat
      OBVIOUS
    <2> HIDE DEF T
    <2> QED
      BY <1>1, <2>1, LeastElement
  <1>3. n \in Nat /\ n =< k /\ ~N(k - n)
    BY <1>2
  <1>4. n # 0
    <2>1. first(s, k) \in Nat /\ last(s, k) \in Nat
      BY BlockIs
    <2>2. k - 0 = k
      BY DEF Lengths
    <2>3. N(k - 0)
      BY <2>1, <2>2
    <2> QED
      BY <1>3, <2>3
  <1>5. n - 1 \in Nat /\ n - 1 =< k /\ ~(n =< n - 1)
    BY <1>0, <1>3, <1>4 DEF Lengths
  <1>6. N(k - (n - 1))
    BY <1>2, <1>5
  <1>7. PICK d \in 1..Width : d = k - (n - 1) /\ d - 1 = k - n
    <2>1. k - (n - 1) \in 1..Width /\ (k - (n - 1)) - 1 = k - n
      BY <1>0, <1>3, <1>4 DEF Lengths
    <2> QED
      BY <2>1
  <1>8. first(s, d - 1) =< first(s, d) /\ last(s, d) =< last(s, d - 1)
    BY NestedOnce
  <1>9. /\ first(s, d) \in Nat /\ last(s, d) \in Nat /\ first(s, k) \in Nat /\ last(s, k) \in Nat
        /\ first(s, d - 1) \in Nat /\ last(s, d - 1) \in Nat
    <2>1. d \in Lengths /\ d - 1 \in Lengths
      BY <1>0 DEF Lengths
    <2> QED
      BY <2>1, BlockIs
  <1>10. N(d - 1)
    BY <1>6, <1>7, <1>8, <1>9
  <1> QED
    BY <1>3, <1>7, <1>10

\* Addresses of one block
LEMMA SameFirst ==
  ASSUME NEW x \in Nat, NEW y \in Nat, NEW k \in Lengths, first(x, k) =< y, y =< last(x, k)
  PROVE  first(y, k) = first(x, k) /\ last(y, k) = last(x, k)
  <1>1. PICK z \in Nat \ {0} : z = size(k)
    BY Sizes
  <1>2. /\ first(x, k) = x - (x % z) /\ last(x, k) = first(x, k) + z - 1
        /\ first(y, k) = y - (y % z) /\ last(y, k) = first(y, k) + z - 1
    BY <1>1, BlockIs
  <1>3. x - (x % z) =< y /\ y =< x - (x % z) + z - 1
    BY <1>2
  <1>4. y - (y % z) = x - (x % z)
    <2>1. x \in Int /\ y \in Int
      OBVIOUS
    <2> QED
      BY <1>3, <2>1, SameBlock
  <1> QED
    BY <1>2, <1>4

\* The inner loop: the shortest prefix whose block starts at s and ends by e,
\* none longer having failed.
LEMMA MaskLenIs ==
  ASSUME NEW s \in Nat, NEW e \in Nat, s =< e
  PROVE  LET m == MaskLen(s, e)
         IN  /\ m \in Lengths
             /\ first(s, m) = s /\ last(s, m) =< e
             /\ m > 0 => ~Fits(s, e, m - 1)
  <1>0. Width \in Nat
    BY WidthAssumption
  <1> DEFINE All(m) == \A k \in m..(Width - 1) : Fits(s, e, k)
             T == {m \in Lengths : All(m)}
             m0 == MaskLen(s, e)
  <1>1. Width \in T
    BY <1>0 DEF Lengths
  <1>2. PICK m \in T : \A j \in T : m =< j
    <2>1. T \in SUBSET Nat
      BY <1>0 DEF Lengths
    <2> HIDE DEF T
    <2> QED
      BY <1>1, <2>1, LeastElement
  <1>3. m > 0 => ~Fits(s, e, m - 1)
    <2> SUFFICES ASSUME m > 0, Fits(s, e, m - 1) PROVE FALSE
      OBVIOUS
    <2>1. m - 1 \in Lengths /\ ~(m =< m - 1)
      BY <1>0, <1>2 DEF Lengths
    <2>2. \A k \in (m - 1)..(Width - 1) : k = m - 1 \/ k \in m..(Width - 1)
      BY <1>0, <1>2 DEF Lengths
    <2>3. All(m - 1)
      BY <1>2, <2>2
    <2> QED
      BY <1>2, <2>1, <2>3
  <1>4. \E n \in 0..Width : /\ \A k \in n..(Width - 1) : Fits(s, e, k)
                            /\ n > 0 => ~Fits(s, e, n - 1)
    BY <1>2, <1>3 DEF Lengths
  <1>5. /\ m0 \in 0..Width /\ (\A k \in m0..(Width - 1) : Fits(s, e, k))
        /\ m0 > 0 => ~Fits(s, e, m0 - 1)
    BY <1>4 DEF MaskLen
  <1>6. first(s, m0) = s /\ last(s, m0) =< e
    <2>1. CASE m0 \in m0..(Width - 1)
      <3>1. Fits(s, e, m0)
        BY <1>5, <2>1
      <3>2. last(s, m0) \in Nat
        BY <1>5, BlockIs DEF Lengths
      <3> QED
        BY <3>1, <3>2 DEF Fits
    <2>2. CASE m0 \notin m0..(Width - 1)
      <3>1. m0 = Width /\ Width \in Lengths
        BY <1>0, <1>5, <2>2 DEF Lengths
      <3>2. size(Width) = 1
        BY Sizes
      <3>3. s % 1 = 0
        OBVIOUS
      <3>4. first(s, Width) = s - (s % 1) /\ last(s, Width) = first(s, Width) + 1 - 1
        BY <3>1, <3>2, BlockIs
      <3>5. first(s, Width) = s /\ last(s, Width) = s
        BY <3>3, <3>4
      <3> QED
        BY <3>1, <3>5
    <2> QED
      BY <2>1, <2>2
  <1> HIDE DEF m0
  <1> QED
    BY <1>5, <1>6 DEF Lengths, m0

-----------------------------------------------------------------------------
(* The loop                                                                *)

Blocks == [at : Nat, len : Lengths]

Types ==
  /\ from \in Addresses /\ end \in Addresses /\ start \in Nat
  /\ r \in SUBSET Blocks
  /\ pc \in {"loop", "done"}

\* The blocks cover exactly the addresses from..to.
Cover(to) == \A x : (\E b \in r : x \in Block(b)) <=> x \in from..to

\* No block of start that begins earlier, in the range, ends in the range: the loop
\* would have taken it.
Greedy ==
  \A k \in Lengths : from =< first(start, k) /\ first(start, k) < start => last(start, k) > end

Disjoint == \A b, c \in r : b # c => Block(b) \cap Block(c) = {}

\* No block could have a prefix one bit shorter.
Largest ==
  \A b \in r : b.len > 0 =>
    ~(first(b.at, b.len - 1)..last(b.at, b.len - 1) \subseteq from..end)

RangeInv ==
  /\ Types /\ Disjoint /\ Largest
  /\ pc = "loop" =>
       /\ Greedy /\ Cover(start - 1)
       /\ from =< start /\ (start =< end + 1 \/ start = from)
  /\ pc = "done" => Cover(end)

\* Addresses are numbers.
LEMMA AddressesAre == Addresses \in SUBSET Nat /\ Last \in Nat /\ 2^Width = Last + 1
  <1>1. PICK n \in Nat \ {0} : n = 2^Width
    BY PowersPositive, WidthAssumption DEF Lengths
  <1> QED
    BY <1>1 DEF Addresses, Last

\* The block that the loop takes is the largest that starts there.
LEMMA TakenIsLargest ==
  ASSUME NEW f \in Nat, NEW s \in Nat, NEW e \in Nat, NEW m \in Lengths, m > 0,
         ~Fits(s, e, m - 1), s =< e,
         \A k \in Lengths : f =< first(s, k) /\ first(s, k) < s => last(s, k) > e
  PROVE  ~(first(s, m - 1)..last(s, m - 1) \subseteq f..e)
  <1>0. m - 1 \in Lengths
    BY WidthAssumption DEF Lengths
  <1>1. PICK a \in Nat, z \in Nat : a = first(s, m - 1) /\ z = last(s, m - 1) /\ a =< s /\ s =< z
    BY <1>0, BlockIs
  <1>2. a \in a..z /\ z \in a..z
    BY <1>1
  <1>3. CASE e < z
    <2>1. z \notin f..e
      BY <1>1, <1>3
    <2> QED
      BY <1>1, <1>2, <2>1
  <1>4. CASE ~(e < z)
    <2>1. a # s
      BY <1>1, <1>4 DEF Fits
    <2>2. a < s
      BY <1>1, <2>1
    <2>3. ~(f =< a)
      BY <1>0, <1>1, <1>4, <2>2
    <2>4. a \notin f..e
      BY <2>3
    <2> QED
      BY <1>1, <1>2, <2>4
  <1> QED
    BY <1>3, <1>4

\* After a block has been taken, no block that could have been taken instead
\* reaches over its end.
LEMMA GreedyGoesOn ==
  ASSUME NEW f \in Nat, NEW s \in Nat, NEW e \in Nat, NEW m \in Lengths,
         first(s, m) = s, m > 0 => ~Fits(s, e, m - 1),
         \A k \in Lengths : f =< first(s, k) /\ first(s, k) < s => last(s, k) > e,
         NEW t \in Nat, t = last(s, m) + 1,
         NEW k \in Lengths, f =< first(t, k), first(t, k) < t
  PROVE  last(t, k) > e
  <1>0. Width \in Nat
    BY WidthAssumption
  <1>1. SUFFICES ASSUME ~(last(t, k) > e) PROVE FALSE
    OBVIOUS
  <1>2. PICK a \in Nat, z \in Nat : a = first(t, k) /\ z = last(t, k) /\ t =< z
    BY BlockIs
  <1>3. PICK y \in Nat : y = last(s, m) /\ s =< y /\ t = y + 1
    BY BlockIs
  <1>4. first(y, m) = s
    BY <1>3, SameFirst
  \* t starts a block of m bits
  <1>5. first(t, m) = t
    <2>1. PICK c \in Nat \ {0} : c = size(m)
      BY Sizes
    <2>2. s \in Int /\ s % c \in Nat /\ s = s - (s % c) /\ y = s + c - 1
      BY <1>3, <2>1, BlockIs
    <2>3. s % c = 0
      BY <2>2
    <2>4. (s + c) % c = 0
      BY <2>2, <2>3, NextBlock
    <2>5. t = s + c
      BY <1>3, <2>1, <2>2
    <2>6. first(t, m) = t - (t % c)
      BY <2>1, BlockIs
    <2> QED
      BY <2>4, <2>5, <2>6
  <1>6. k < m
    <2>1. CASE m =< k
      <3>1. first(t, m) =< first(t, k)
        BY <2>1, Nested
      <3> QED
        BY <1>2, <1>5, <3>1
    <2> QED
      BY <1>0, <2>1 DEF Lengths
  \* the block of t reaches back to s
  <1>7. first(y, k) = a /\ last(y, k) = z
    <2>1. a =< y /\ y =< z
      BY <1>2, <1>3
    <2> QED
      BY <1>2, <2>1, SameFirst
  <1>8. a =< s
    <2>1. k =< m
      BY <1>0, <1>6 DEF Lengths
    <2> QED
      BY <1>4, <1>7, <2>1, Nested
  <1>9. first(s, k) = a /\ last(s, k) = z
    <2>1. a =< s /\ s =< z
      BY <1>2, <1>3, <1>8
    <2> QED
      BY <1>2, <2>1, SameFirst
  <1>10. CASE a < s
    BY <1>1, <1>2, <1>9, <1>10
  <1>11. CASE a = s
    <2>1. m - 1 \in Lengths /\ k =< m - 1 /\ m > 0
      BY <1>0, <1>6 DEF Lengths
    <2>2. first(s, k) =< first(s, m - 1) /\ last(s, m - 1) =< last(s, k)
      BY <2>1, Nested
    <2>3. PICK b \in Nat, d \in Nat : b = first(s, m - 1) /\ d = last(s, m - 1) /\ b =< s
      BY <2>1, BlockIs
    <2>4. b = s /\ e >= d
      BY <1>1, <1>2, <1>9, <1>11, <2>2, <2>3
    <2> QED
      BY <2>1, <2>3, <2>4 DEF Fits
  <1> QED
    BY <1>2, <1>8, <1>10, <1>11

\* Taking a block keeps RangeInv.
LEMMA TakeBlockKeeps ==
  ASSUME RangeInv, TakeBlock
  PROVE  RangeInv'
  <1>0. /\ Types /\ Disjoint /\ Largest /\ Greedy /\ Cover(start - 1)
        /\ from =< start /\ start =< end /\ pc = "loop" /\ from' = from /\ end' = end
    BY DEF RangeInv, TakeBlock
  <1>1. PICK f \in Nat, s \in Nat, e \in Nat : f = from /\ s = start /\ e = end
    BY <1>0, AddressesAre DEF Types
  <1>2. PICK m : m = MaskLen(s, e)
    OBVIOUS
  <1>3. /\ m \in Lengths /\ first(s, m) = s /\ last(s, m) =< e
        /\ m > 0 => ~Fits(s, e, m - 1)
    BY <1>0, <1>1, <1>2, MaskLenIs
  <1>4. PICK y \in Nat : y = last(s, m) /\ s =< y /\ y =< e
    BY <1>3, BlockIs
  <1>5. PICK n \in Nat : n = Last /\ 2^Width = n + 1 /\ e =< n
    BY <1>0, <1>1, AddressesAre DEF Types, Addresses
  <1>b. PICK b : b = [at |-> s, len |-> m]
    OBVIOUS
  <1>6. /\ r' = r \cup {b}
        /\ \/ y = n /\ start' = n /\ pc' = "done"
           \/ y # n /\ start' = (y + 1) % (n + 1) /\ pc' = pc
    BY <1>1, <1>2, <1>4, <1>5, <1>b DEF TakeBlock
  <1>7. y # n => (y + 1) % (n + 1) = y + 1
    BY <1>4, <1>5
  <1>8. b \in Blocks /\ b.at = s /\ b.len = m /\ Block(b) = s..y
    BY <1>3, <1>4, <1>b DEF Blocks, Block
  <1>9. Types'
    <2>1. r' \in SUBSET Blocks
      BY <1>0, <1>6, <1>8 DEF Types
    <2>2. start' \in Nat /\ pc' \in {"loop", "done"}
      BY <1>0, <1>6, <1>7
    <2> QED
      BY <1>0, <2>1, <2>2 DEF Types
  <1>10. \A x : (\E c \in r : x \in Block(c)) => x \in f..(s - 1)
    BY <1>0, <1>1 DEF Cover
  <1>11. Disjoint'
    <2>1. ASSUME NEW c \in r PROVE Block(c) \cap Block(b) = {}
      <3>1. \A x \in Block(c) : x \in f..(s - 1)
        BY <1>10
      <3>2. \A x \in f..(s - 1) : x \notin s..y
        BY <1>1, <1>4
      <3> QED
        BY <1>8, <3>1, <3>2
    <2>2. \A c, d \in r' : c # d => Block(c) \cap Block(d) = {}
      BY <1>0, <1>6, <2>1 DEF Disjoint
    <2> QED
      BY <2>2 DEF Disjoint
  <1>12. Largest'
    <2>1. ASSUME m > 0 PROVE ~(first(s, m - 1)..last(s, m - 1) \subseteq f..e)
      <3>1. \A k \in Lengths : f =< first(s, k) /\ first(s, k) < s => last(s, k) > e
        BY <1>0, <1>1 DEF Greedy
      <3>2. s =< e
        BY <1>0, <1>1
      <3> QED
        BY <1>3, <2>1, <3>1, <3>2, TakenIsLargest
    <2>2. \A c \in r' : c.len > 0 => ~(first(c.at, c.len - 1)..last(c.at, c.len - 1) \subseteq f..e)
      BY <1>0, <1>1, <1>6, <1>8, <2>1 DEF Largest
    <2> QED
      BY <1>0, <1>1, <2>2 DEF Largest
  <1>13. \A x : (\E c \in r' : x \in Block(c)) <=> x \in f..y
    <2>1. ASSUME NEW x PROVE x \in f..y <=> (x \in f..(s - 1) \/ x \in s..y)
      <3>1. f =< s
        BY <1>0, <1>1
      <3> QED
        BY <1>4, <3>1
    <2>2. ASSUME NEW x PROVE (\E c \in r' : x \in Block(c)) <=> (x \in f..(s - 1) \/ x \in s..y)
      <3>1. (\E c \in r : x \in Block(c)) <=> x \in f..(s - 1)
        BY <1>0, <1>1 DEF Cover
      <3> QED
        BY <1>6, <1>8, <3>1
    <2> QED
      BY <2>1, <2>2
  <1>14. CASE y = n
    <2>1. y = e /\ pc' = "done"
      BY <1>4, <1>5, <1>6, <1>14
    <2>2. Cover(end)'
      BY <1>0, <1>1, <1>13, <2>1 DEF Cover, Block
    <2> QED
      BY <1>9, <1>11, <1>12, <2>1, <2>2 DEF RangeInv
  <1>15. CASE y # n
    <2>1. PICK t \in Nat : t = y + 1 /\ start' = t /\ pc' = "loop" /\ t - 1 = y
      BY <1>0, <1>6, <1>7, <1>15
    <2>2. Greedy'
      <3>1. \A k \in Lengths : f =< first(s, k) /\ first(s, k) < s => last(s, k) > e
        BY <1>0, <1>1 DEF Greedy
      <3>2. t = last(s, m) + 1
        BY <1>4, <2>1
      <3>3. \A k \in Lengths : f =< first(t, k) /\ first(t, k) < t => last(t, k) > e
        BY <1>3, <3>1, <3>2, GreedyGoesOn
      <3> QED
        BY <1>0, <1>1, <2>1, <3>3 DEF Greedy, first, last
    <2>3. Cover(start - 1)'
      BY <1>0, <1>1, <1>13, <2>1 DEF Cover, Block
    <2>4. from' =< start' /\ start' =< end' + 1
      BY <1>0, <1>1, <1>4, <2>1
    <2> QED
      BY <1>9, <1>11, <1>12, <2>1, <2>2, <2>3, <2>4 DEF RangeInv
  <1> QED
    BY <1>14, <1>15

\* Every step keeps RangeInv.
LEMMA RangeStep ==
  ASSUME RangeInv, [Next]_vars
  PROVE  RangeInv'
  <1>1. CASE TakeBlock
    BY <1>1, TakeBlockKeeps
  <1>2. CASE LoopEnds
    <2>1. /\ pc = "loop" /\ pc' = "done" /\ UNCHANGED <<from, start, end, r>>
          /\ start > end
      BY <1>2 DEF LoopEnds
    <2>2. PICK f \in Nat, s \in Nat, e \in Nat : f = from /\ s = start /\ e = end
      BY AddressesAre DEF RangeInv, Types
    <2>3. f..(s - 1) = f..e
      <3>1. f =< s /\ (s =< e + 1 \/ s = f) /\ s > e
        BY <2>1, <2>2 DEF RangeInv
      <3> QED
        BY <3>1
    <2>4. Cover(start - 1)
      BY <2>1 DEF RangeInv
    <2>5. Cover(end)'
      BY <2>1, <2>2, <2>3, <2>4 DEF Cover
    <2>6. Types' /\ Disjoint' /\ Largest'
      BY <2>1 DEF RangeInv, Types, Disjoint, Largest
    <2> QED
      BY <2>1, <2>5, <2>6 DEF RangeInv
  <1>3. CASE UNCHANGED vars
    BY <1>3 DEF vars, RangeInv, Types, Disjoint, Largest, Greedy, Cover
  <1> QED
    BY <1>1, <1>2, <1>3 DEF Next

\* At first there is no block.
LEMMA RangeInit == Init => RangeInv
  <1> SUFFICES ASSUME Init PROVE RangeInv
    OBVIOUS
  <1>1. PICK f \in Nat : f = from /\ start = f /\ r = {} /\ pc = "loop"
    BY AddressesAre DEF Init
  <1>2. Types /\ Disjoint /\ Largest
    BY <1>1 DEF Init, Types, Disjoint, Largest
  <1>3. Cover(start - 1)
    <2>1. \A x : x \notin f..(f - 1)
      OBVIOUS
    <2> QED
      BY <1>1, <2>1 DEF Cover
  <1>4. Greedy
    <2>1. ASSUME NEW k \in Lengths PROVE ~(f =< first(f, k) /\ first(f, k) < f)
      <3>1. first(f, k) \in Nat
        BY BlockIs
      <3> QED
        BY <3>1
    <2> QED
      BY <1>1, <2>1 DEF Greedy
  <1> QED
    BY <1>1, <1>2, <1>3, <1>4 DEF RangeInv

\* IPRangeToCIDRs returns blocks that cover the addresses from Start to End and
\* no others, none of them twice, and none of which could be larger, whatever
\* the width of an address: in particular for the 32 bits of the code, and for ranges
\* that end at the last address.
THEOREM RangeIsCovered == Spec => []CoversExactly
  <1>1. ASSUME RangeInv PROVE CoversExactly
    <2> SUFFICES ASSUME pc = "done"
                 PROVE  /\ UNION {Block(b) : b \in r} = from..end
                        /\ \A b, c \in r : b # c => Block(b) \cap Block(c) = {}
                        /\ \A b \in r : b.len > 0 =>
                             ~(first(b.at, b.len - 1)..last(b.at, b.len - 1) \subseteq from..end)
      BY DEF CoversExactly
    <2>1. Cover(end) /\ Disjoint /\ Largest
      BY <1>1 DEF RangeInv
    <2>2. UNION {Block(b) : b \in r} = from..end
      BY <2>1 DEF Cover
    <2> QED
      BY <2>1, <2>2 DEF Disjoint, Largest
  <1>2. RangeInv /\ [Next]_vars => RangeInv'
    BY RangeStep
  <1> QED
    BY <1>1, <1>2, RangeInit, PTL DEF Spec
=============================================================================
