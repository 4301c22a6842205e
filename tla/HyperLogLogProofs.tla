--------------------------- MODULE HyperLogLogProofs ---------------------------
(***************************************************************************)
(* The registers of HyperLogLog for any word size, hashes and goroutines:  *)
(* the powers of two, the bits of a hash, what an update may leave in a    *)
(* register (Exclusive), what the registers hold in the end (Counting) and *)
(* what an estimate reads while they change (Estimating).                  *)
(***************************************************************************)
EXTENDS HyperLogLog, FiniteSetTheorems, WellFoundedInduction, TLAPS

USE HyperLogLogAssumption

-----------------------------------------------------------------------------
(* Powers of two.                                                          *)

\* A set of numbers that is not empty has a least one.
LEMMA Least ==
    ASSUME NEW T \in SUBSET Nat, T # {}
    PROVE  \E x \in T : \A y \in T : x <= y
PROOF
<1> DEFINE R == OpToRel(<, Nat)
<1>1. IsWellFoundedOn(R, Nat)
  BY NatLessThanWellFounded
<1>2. \A x, y \in Nat : <<x, y>> \in R <=> x < y
  BY DEF OpToRel
<1> HIDE DEF R
<1>3. PICK x \in T : \A y \in T : ~(<<y, x>> \in R)
  BY <1>1, WFMin
<1>4. \A y \in T : ~(y < x)
  BY <1>2, <1>3
<1> QED BY <1>4

\* A set with 0 and the successor of each of its numbers holds them all.
LEMMA Induction ==
    ASSUME NEW T, 0 \in T, \A n \in Nat : n \in T => n + 1 \in T
    PROVE  \A n \in Nat : n \in T
PROOF
<1> DEFINE U == Nat \ T
<1> SUFFICES ASSUME U # {} PROVE FALSE
  OBVIOUS
<1>1. PICK x \in U : \A y \in U : x <= y
  BY Least
<1>2. x # 0 /\ x - 1 \in Nat
  BY <1>1
<1>3. x - 1 \in T
  BY <1>1, <1>2
<1> QED BY <1>1, <1>2, <1>3

\* t is the table of the powers up to the n-th.
Powers(t, n) == t = [k \in 0 .. n |-> IF k = 0 THEN 1 ELSE 2 * t[k - 1]]

\* There is such a table, so that Two is one.
LEMMA PowersExist == \A n \in Nat : \E t : Powers(t, n)
PROOF
<1> DEFINE T == {n \in Nat : \E t : Powers(t, n)}
<1>1. 0 \in T
  <2> DEFINE t == [k \in 0 .. 0 |-> 1]
  <2>1. t = [k \in 0 .. 0 |-> IF k = 0 THEN 1 ELSE 2 * t[k - 1]]
    OBVIOUS
  <2> QED BY <2>1 DEF Powers
<1>2. ASSUME NEW n \in Nat, n \in T PROVE n + 1 \in T
  <2>1. PICK t : Powers(t, n)
    BY <1>2
  <2>2. t = [k \in 0 .. n |-> IF k = 0 THEN 1 ELSE 2 * t[k - 1]]
    BY <2>1 DEF Powers
  <2> DEFINE u == [k \in 0 .. n + 1 |-> IF k = 0 THEN 1 ELSE 2 * t[k - 1]]
  <2>3. \A k \in 0 .. n : u[k] = t[k]
    BY <2>2
  <2>4. u = [k \in 0 .. n + 1 |-> IF k = 0 THEN 1 ELSE 2 * u[k - 1]]
    <3>1. \A k \in 0 .. n + 1 : k = 0 \/ u[k - 1] = t[k - 1]
      <4> SUFFICES ASSUME NEW k \in 0 .. n + 1, k # 0 PROVE u[k - 1] = t[k - 1]
        OBVIOUS
      <4>1. k - 1 \in 0 .. n
        OBVIOUS
      <4> HIDE DEF u
      <4> QED BY <2>3, <4>1
    <3> QED BY <3>1
  <2>5. Powers(u, n + 1)
    BY <2>4 DEF Powers
  <2> QED BY <2>5
<1>3. \A n \in Nat : n \in T
  <2> HIDE DEF T
  <2> QED BY <1>1, <1>2, Induction
<1> QED BY <1>3

\* Each power is twice the one before, and positive.
LEMMA TwoUnfold ==
    /\ Two[0] = 1
    /\ \A n \in 0 .. W - 1 : Two[n + 1] = 2 * Two[n]
PROOF
<1>1. Two = CHOOSE t : Powers(t, W)
  BY DEF Two, Powers
<1>2. Powers(Two, W)
  BY <1>1, PowersExist
<1>3. \A n \in 0 .. W : Two[n] = IF n = 0 THEN 1 ELSE 2 * Two[n - 1]
  BY <1>2 DEF Powers
<1>4. \A n \in 0 .. W - 1 : n + 1 \in 0 .. W /\ n + 1 # 0 /\ (n + 1) - 1 = n
  OBVIOUS
<1> QED BY <1>3, <1>4

\* The powers are positive, and greater than their exponents.
LEMMA TwoGrows == \A n \in 0 .. W : Two[n] \in Nat \ {0} /\ n < Two[n]
PROOF
<1> DEFINE T == {n \in Nat : n <= W => Two[n] \in Nat \ {0} /\ n < Two[n]}
<1>1. 0 \in T
  BY TwoUnfold
<1>2. ASSUME NEW n \in Nat, n \in T PROVE n + 1 \in T
  <2> SUFFICES ASSUME n + 1 <= W PROVE Two[n + 1] \in Nat \ {0} /\ n + 1 < Two[n + 1]
    OBVIOUS
  <2>1. Two[n] \in Nat \ {0} /\ n < Two[n]
    BY <1>2
  <2>2. Two[n + 1] = 2 * Two[n]
    BY TwoUnfold
  <2> QED BY <2>1, <2>2
<1>3. \A n \in Nat : n \in T
  <2> HIDE DEF T
  <2> QED BY <1>1, <1>2, Induction
<1> QED BY <1>3

\* A power divides the greater ones.
LEMMA TwoDivides ==
    \A a, b \in Nat : a + b <= W => \E q \in Nat \ {0} : Two[a + b] = q * Two[a] /\ q = Two[b]
PROOF
<1> SUFFICES ASSUME NEW a \in Nat
             PROVE  \A b \in Nat : a + b <= W => Two[a + b] = Two[b] * Two[a]
  BY TwoGrows
<1> DEFINE T == {b \in Nat : a + b <= W => Two[a + b] = Two[b] * Two[a]}
<1>1. 0 \in T
  <2>1. ASSUME a <= W PROVE Two[a] = 1 * Two[a]
    BY <2>1, TwoGrows
  <2> QED BY <2>1, TwoUnfold
<1>2. ASSUME NEW b \in Nat, b \in T PROVE b + 1 \in T
  <2> SUFFICES ASSUME a + (b + 1) <= W PROVE Two[a + (b + 1)] = Two[b + 1] * Two[a]
    OBVIOUS
  <2>1. Two[a + b] = Two[b] * Two[a]
    BY <1>2
  <2>2. a + (b + 1) = (a + b) + 1 /\ a + b \in 0 .. W - 1 /\ b \in 0 .. W - 1 /\ a \in 0 .. W
    OBVIOUS
  <2>3. Two[a + (b + 1)] = 2 * Two[a + b] /\ Two[b + 1] = 2 * Two[b]
    BY <2>2, TwoUnfold
  <2>4. Two[a] \in Nat /\ Two[b] \in Nat
    BY <2>2, TwoGrows
  <2>5. \A x, y \in Nat : 2 * (y * x) = (2 * y) * x
    OBVIOUS
  <2> QED BY <2>1, <2>3, <2>4, <2>5
<1>3. \A b \in Nat : b \in T
  <2> HIDE DEF T
  <2> QED BY <1>1, <1>2, Induction
<1> QED BY <1>3

LEMMA TwoFactor ==
    ASSUME NEW a \in 0 .. W, NEW b \in 0 .. W, a <= b
    PROVE  \E q \in Nat \ {0} : Two[b] = q * Two[a]
PROOF
<1>1. PICK c \in Nat : a + c = b
  <2>1. b - a \in Nat /\ a + (b - a) = b
    OBVIOUS
  <2> QED BY <2>1
<1>2. a \in Nat /\ a + c <= W
  BY <1>1
<1>3. PICK q \in Nat \ {0} : Two[a + c] = q * Two[a]
  BY <1>2, TwoDivides
<1> QED BY <1>1, <1>3

-----------------------------------------------------------------------------
(* Hashes, and the rank that the loop of getTrailingZeroes finds.          *)

\* Division with a remainder, and that both are unique.
LEMMA Division ==
    ASSUME NEW a \in Nat, NEW n \in Nat \ {0}
    PROVE  /\ a = (a \div n) * n + (a % n)
           /\ a \div n \in Nat /\ a % n \in 0 .. n - 1
PROOF
<1>1. a = (a \div n) * n + (a % n)
  OBVIOUS
<1>2. a % n \in 0 .. n - 1
  OBVIOUS
<1>3. a \div n \in Nat
  BY <1>1, <1>2
<1> QED BY <1>1, <1>2, <1>3

LEMMA Remainder ==
    ASSUME NEW q \in Nat, NEW n \in Nat \ {0}, NEW r \in 0 .. n - 1
    PROVE  (q * n + r) % n = r
PROOF OBVIOUS

\* A hash is an index, which is a register's, and a rest.
LEMMA Split ==
    ASSUME NEW e \in Elements
    PROVE  /\ Hash[e] = Index(e) * Two[W - p] + Rest(e)
           /\ Hash[e] \in Nat /\ Index(e) \in Nat /\ Index(e) \in Registers
           /\ Rest(e) \in 0 .. Two[W - p] - 1
           /\ Two[W - p] \in Nat \ {0}
PROOF
<1>1. p \in 0 .. W /\ W - p \in 0 .. W /\ W \in 0 .. W /\ (W - p) + p = W
  OBVIOUS
<1>2. PICK h \in Nat : h = Hash[e] /\ h < Two[W]
  BY <1>1, TwoGrows
<1>3. PICK n \in Nat \ {0} : n = Two[W - p]
  BY <1>1, TwoGrows
<1>4. PICK m \in Nat \ {0} : m = Two[p]
  BY <1>1, TwoGrows
<1>5. Two[W] = m * n
  BY <1>1, <1>3, <1>4, TwoDivides
<1>6. h = (h \div n) * n + (h % n) /\ h \div n \in Nat /\ h % n \in 0 .. n - 1
  BY Division
<1>7. h \div n < m
  <2>1. PICK d \in Nat : d = h \div n
    BY <1>6
  <2>2. d * n < m * n
    <3>1. h = d * n + (h % n) /\ h < m * n
      BY <1>2, <1>5, <1>6, <2>1
    <3>2. PICK x \in Nat : x = h % n
      BY <1>6
    <3>3. d * n \in Nat /\ m * n \in Nat
      OBVIOUS
    <3> QED BY <3>1, <3>2, <3>3
  <2>3. ASSUME m <= d PROVE m * n <= d * n
    BY <2>3
  <2> QED BY <2>1, <2>2, <2>3
<1>8. h \div n \in 0 .. m - 1
  BY <1>6, <1>7
<1> QED BY <1>2, <1>3, <1>4, <1>6, <1>8 DEF Index, Rest, Registers

\* An element whose hash has its lowest bit at j, below the index, has rank j.
LEMMA RankIs ==
    ASSUME NEW e \in Elements, NEW j \in 0 .. W - p - 1, Hash[e] % Two[j + 1] = Two[j]
    PROVE  Rank(e) = j
PROOF
<1> DEFINE IsRank(k) == Hash[e] % Two[k + 1] = Two[k]
<1>1. ASSUME NEW a \in 0 .. W - p - 1, NEW b \in 0 .. W - p - 1, IsRank(a), IsRank(b), a < b
      PROVE  FALSE
  <2>1. /\ a + 1 \in 0 .. W /\ b + 1 \in 0 .. W /\ a \in 0 .. W /\ b \in 0 .. W
        /\ (a + 1) + (b - (a + 1)) = b /\ (a + 1) + (b - a) = b + 1
        /\ b - (a + 1) \in Nat /\ b - a \in Nat
    BY <1>1
  <2>2. PICK n \in Nat \ {0} : n = Two[a + 1]
    BY <2>1, TwoGrows
  <2>3. PICK x \in Nat : Two[b] = x * n
    BY <2>1, <2>2, TwoFactor, <1>1
  <2>4. PICK y \in Nat : Two[b + 1] = y * n
    BY <2>1, <2>2, TwoFactor, <1>1
  <2>5. PICK d \in Nat \ {0} : d = Two[b + 1]
    BY <2>1, TwoGrows
  <2>6. PICK h \in Nat : h = Hash[e]
    BY Split
  <2>7. PICK z \in Nat : h = z * d + x * n
    <3>1. h = (h \div d) * d + (h % d) /\ h \div d \in Nat
      BY Division
    <3>2. h % d = x * n
      BY <1>1, <2>3, <2>5, <2>6
    <3> QED BY <3>1, <3>2
  <2>8. h = (z * y + x) * n + 0
    <3>1. z * (y * n) + x * n = (z * y + x) * n
      OBVIOUS
    <3> QED BY <2>4, <2>5, <2>7, <3>1
  <2>9. z * y + x \in Nat /\ 0 \in 0 .. n - 1
    OBVIOUS
  <2>10. h % n = 0
    BY <2>8, <2>9, Remainder
  <2>11. Two[a] # 0
    BY <2>1, TwoGrows
  <2> QED BY <1>1, <2>2, <2>6, <2>10, <2>11
<1>2. IsRank(j)
  OBVIOUS
<1>3. ASSUME NEW k \in 0 .. W - p - 1, IsRank(k) PROVE k = j
  BY <1>1, <1>2, <1>3
<1>4. Rank(e) \in 0 .. W - p - 1 /\ IsRank(Rank(e))
  BY <1>2 DEF Rank
<1> HIDE DEF IsRank
<1> QED BY <1>3, <1>4

\* w is what the loop has left of the rest of e after j steps.
Left(e, w, j) == w \in Nat \ {0} /\ j \in Nat /\ w * Two[j] = Rest(e) /\ j < W - p

\* The elements that are counted at all.
Countable == {e \in Elements : Rest(e) # 0}

LEMMA LoopBegins ==
    ASSUME NEW e \in Countable
    PROVE  Left(e, Rest(e), 0)
PROOF
<1>1. Rest(e) \in Nat \ {0} /\ Rest(e) * 1 = Rest(e)
  BY Split DEF Countable
<1> QED BY <1>1, TwoUnfold DEF Left

\* The loop goes on while the lowest bit has not come, and the counter does not
\* overflow.
LEMMA LoopGoesOn ==
    ASSUME NEW e \in Countable, NEW w, NEW j, Left(e, w, j), ~Odd(w)
    PROVE  Left(e, w \div 2, j + 1) /\ (j + 1) % Two[W] = j + 1
PROOF
<1>1. w \in Nat \ {0} /\ j \in Nat /\ j < W - p /\ w * Two[j] = Rest(e)
  BY DEF Left
<1>2. PICK k \in Nat \ {0} : k = w \div 2 /\ w = k * 2
  <2>1. w % 2 \in {0, 1} /\ w = (w \div 2) * 2 + (w % 2) /\ w \div 2 \in Nat
    BY <1>1
  <2> QED BY <1>1, <2>1 DEF Odd
<1>3. j \in 0 .. W - 1 /\ j + 1 \in 0 .. W /\ W \in 0 .. W /\ j \in 0 .. W
  BY <1>1
<1>4. PICK n \in Nat \ {0} : n = Two[j] /\ Two[j + 1] = 2 * n
  BY <1>3, TwoUnfold, TwoGrows
<1>5. k * (2 * n) = Rest(e)
  <2>1. (k * 2) * n = k * (2 * n)
    OBVIOUS
  <2> QED BY <1>1, <1>2, <1>4, <2>1
<1>6. j + 1 < W - p
  <2> SUFFICES ASSUME j + 1 = W - p PROVE FALSE
    BY <1>1
  <2>1. Rest(e) < 2 * n
    BY <1>4, Split DEF Countable
  <2>2. 2 * n <= k * (2 * n)
    OBVIOUS
  <2> QED BY <1>5, <2>1, <2>2
<1>7. (j + 1) % Two[W] = j + 1
  <2>1. PICK t \in Nat \ {0} : t = Two[W] /\ W < t
    BY <1>3, TwoGrows
  <2>2. j + 1 \in 0 .. t - 1 /\ 0 * t + (j + 1) = j + 1
    BY <1>1, <1>6, <2>1
  <2>3. (0 * t + (j + 1)) % t = j + 1
    BY <2>2, Remainder
  <2> QED BY <2>1, <2>2, <2>3
<1> QED BY <1>1, <1>2, <1>4, <1>5, <1>6, <1>7 DEF Left

\* When it ends, it has counted the rank.
LEMMA LoopEnds ==
    ASSUME NEW e \in Countable, NEW w, NEW j, Left(e, w, j), Odd(w)
    PROVE  Rank(e) = j /\ j \in 0 .. W - p - 1
PROOF
<1>1. w \in Nat \ {0} /\ j \in Nat /\ j < W - p /\ w * Two[j] = Rest(e)
  BY DEF Left
<1>2. PICK k \in Nat : w = k * 2 + 1
  <2>1. w % 2 \in {0, 1} /\ w = (w \div 2) * 2 + (w % 2) /\ w \div 2 \in Nat
    BY <1>1
  <2> QED BY <1>1, <2>1 DEF Odd
<1>3. /\ j \in 0 .. W - 1 /\ j + 1 \in 0 .. W /\ j \in 0 .. W /\ j \in 0 .. W - p - 1
      /\ (j + 1) + (W - p - (j + 1)) = W - p /\ W - p - (j + 1) \in Nat
  BY <1>1
<1>4. PICK n \in Nat \ {0} : n = Two[j] /\ Two[j + 1] = 2 * n
  BY <1>3, TwoUnfold, TwoGrows
<1>5. PICK x \in Nat : Two[W - p] = x * (2 * n)
  <2>1. j + 1 <= W - p /\ W - p \in 0 .. W
    BY <1>1
  <2> QED BY <1>3, <1>4, <2>1, TwoFactor
<1>6. PICK i \in Nat, h \in Nat : i = Index(e) /\ h = Hash[e]
  BY Split DEF Countable
<1>7. h = i * (x * (2 * n)) + (k * 2 + 1) * n
  BY <1>1, <1>2, <1>4, <1>5, <1>6, Split DEF Countable
<1>8. i * (x * (2 * n)) + (k * 2 + 1) * n = (i * x + k) * (2 * n) + n
  OBVIOUS
<1>9. i * x + k \in Nat /\ 2 * n \in Nat \ {0} /\ n \in 0 .. 2 * n - 1
  OBVIOUS
<1>10. h % (2 * n) = n
  BY <1>7, <1>8, <1>9, Remainder
<1>11. Rank(e) = j
  BY <1>3, <1>4, <1>6, <1>10, RankIs DEF Countable
<1> QED BY <1>3, <1>11

\* So that it ends: an element that is counted has a rank.
LEMMA RankExists == \A e \in Countable : Rank(e) \in Nat /\ Rank(e) \in 0 .. W
PROOF
<1> SUFFICES ASSUME NEW e \in Countable, ~(Rank(e) \in 0 .. W - p - 1) PROVE FALSE
  OBVIOUS
<1> DEFINE T == {j \in Nat : \E w : Left(e, w, j)}
<1>1. 0 \in T
  BY LoopBegins
<1>2. ASSUME NEW j \in Nat, j \in T PROVE j + 1 \in T
  <2>1. PICK w : Left(e, w, j)
    BY <1>2
  <2>2. ~Odd(w)
    BY <2>1, LoopEnds
  <2>3. Left(e, w \div 2, j + 1)
    BY <2>1, <2>2, LoopGoesOn
  <2> QED BY <2>3
<1>3. \A j \in Nat : j \in T
  <2> HIDE DEF T
  <2> QED BY <1>1, <1>2, Induction
<1>4. W - p \in T
  BY <1>3
<1> QED BY <1>4 DEF Left

-----------------------------------------------------------------------------
(* The value a register should have.                                       *)

\* The ranks of what is in a register are bounded, so that there is a largest.
LEMMA TopIs ==
    ASSUME NEW S \in SUBSET Countable, NEW r
    PROVE  Top(S, r) \in Ranks(S, r) /\ Top(S, r) \in Nat /\ \A k \in Ranks(S, r) : k <= Top(S, r)
PROOF
<1>1. \A e \in Countable : Rank(e) \in 0 .. W
  <2> SUFFICES ASSUME NEW e \in Countable PROVE Rank(e) \in 0 .. W
    OBVIOUS
  <2> QED BY RankExists
<1>2. Ranks(S, r) \subseteq 0 .. W /\ 0 \in Ranks(S, r)
  BY <1>1 DEF Ranks
<1> DEFINE U == {n \in 0 .. W : \A k \in Ranks(S, r) : k <= n}
<1>3. U \in SUBSET Nat /\ W \in U
  BY <1>2
<1>4. PICK n \in U : \A m \in U : n <= m
  BY <1>3, Least
<1>5. n \in Ranks(S, r)
  <2> SUFFICES ASSUME n \notin Ranks(S, r) PROVE FALSE
    OBVIOUS
  <2>1. n # 0
    BY <1>2
  <2>2. n - 1 \in U
    BY <1>2, <1>4, <2>1
  <2> QED BY <1>4, <2>2
<1>6. \A k \in Ranks(S, r) : k <= n
  BY <1>4
<1>7. Top(S, r) \in Ranks(S, r) /\ \A k \in Ranks(S, r) : k <= Top(S, r)
  BY <1>5, <1>6 DEF Top
<1> QED BY <1>2, <1>7

\* More elements, greater ranks.
LEMMA TopGrows ==
    ASSUME NEW T \in SUBSET Countable, NEW S \in SUBSET T, NEW r
    PROVE  Top(S, r) <= Top(T, r)
PROOF
<1>1. Ranks(S, r) \subseteq Ranks(T, r)
  BY DEF Ranks
<1>2. Top(S, r) \in Ranks(S, r)
  BY TopIs
<1> QED BY <1>1, <1>2, TopIs

\* One element more moves its own register, to its rank if that is greater.
LEMMA TopAdded ==
    ASSUME NEW S \in SUBSET Countable, NEW e \in Countable, NEW r
    PROVE  Top(S \cup {e}, r) = IF r = Index(e) THEN Larger(Top(S, r), Rank(e)) ELSE Top(S, r)
PROOF
<1>1. S \cup {e} \in SUBSET Countable
  OBVIOUS
<1>2. PICK old \in Nat : /\ old = Top(S, r) /\ old \in Ranks(S, r)
                         /\ \A k \in Ranks(S, r) : k <= old
  BY TopIs
<1>3. PICK new \in Nat : /\ new = Top(S \cup {e}, r) /\ new \in Ranks(S \cup {e}, r)
                         /\ \A k \in Ranks(S \cup {e}, r) : k <= new
  BY <1>1, TopIs
<1>4. CASE r = Index(e)
  <2>1. Ranks(S \cup {e}, r) = Ranks(S, r) \cup {Rank(e)}
    BY <1>4 DEF Ranks
  <2>2. PICK j \in Nat : j = Rank(e)
    BY RankExists
  <2>3. new \in Ranks(S, r) \cup {j} /\ j <= new /\ old <= new
    BY <1>2, <1>3, <2>1, <2>2
  <2>4. new <= old \/ new = j
    BY <1>2, <2>3
  <2>5. new = IF old > j THEN old ELSE j
    BY <2>3, <2>4
  <2> QED BY <1>2, <1>3, <1>4, <2>2, <2>5 DEF Larger
<1>5. CASE r # Index(e)
  <2>1. Ranks(S \cup {e}, r) = Ranks(S, r)
    BY <1>5 DEF Ranks
  <2>2. Top(S \cup {e}, r) = Top(S, r)
    BY <2>1 DEF Top
  <2> QED BY <1>5, <2>2
<1> QED BY <1>4, <1>5

-----------------------------------------------------------------------------
(* The invariant.                                                          *)

Fields == {"element", "w", "j", "old", "known", "values", "next", "V"}
Element(g) == local[g].element[1]

Types ==
    /\ DOMAIN pc = Goroutines /\ DOMAIN local = Goroutines
    /\ \A g \in Goroutines : DOMAIN local[g] = Fields
    /\ added \in SUBSET Countable

\* Who is between the lock and the unlock has the mutex.
Exclusive == \A g \in Goroutines : pc[g] \in {"store", "unlock"} => hllMutex = g

\* A call of Add counts the rank, or spins; and what it read under the mutex is
\* still there when it writes.
Counting(g) ==
    /\ pc[g] = "zeroes" =>
         \/ local[g].w = 0
         \/ Element(g) \in Countable /\ Left(Element(g), local[g].w, local[g].j)
    /\ pc[g] \in {"lock", "store", "unlock"} =>
         Element(g) \in Countable /\ local[g].j = Rank(Element(g))
    /\ pc[g] = "store" => local[g].old = Top(added, Index(Element(g)))

\* The first n registers that are empty when just the elements of S are there.
Empties(S, n) == {r \in 0 .. n - 1 : Top(S, r) = 0}

Between(call, v, r) == Top(call.known, r) <= v /\ v <= Top(added, r)

\* A call of Cardinality is somewhere in its first or in its second pass.
Estimating(g) ==
    LET call == local[g]
    IN  /\ call.known \subseteq added /\ call.next \in Nat /\ call.values \in Seq(Nat)
        /\ \A k \in 1 .. Len(call.values) : Between(call, call.values[k], k - 1)
        /\ pc[g] = "sum" => Len(call.values) = call.next /\ call.V = 0
        /\ pc[g] = "empties" => /\ call.V \in Nat
                                /\ call.V <= Cardinality(Empties(call.known, call.next))
                                /\ Cardinality(Empties(added, call.next)) <= call.V

IInv == /\ Types /\ Exclusive /\ RegistersExact
        /\ \A g \in Goroutines : Counting(g) /\ Estimating(g)

LEMMA EmptiesFinite ==
    ASSUME NEW S, NEW n \in Nat
    PROVE  IsFiniteSet(Empties(S, n)) /\ Cardinality(Empties(S, n)) \in Nat
PROOF
<1>1. IsFiniteSet(0 .. n - 1) /\ Empties(S, n) \subseteq 0 .. n - 1
  BY FS_Interval DEF Empties
<1> QED BY <1>1, FS_Subset, FS_CardinalityType

\* The more elements, the fewer registers are empty.
LEMMA EmptiesShrink ==
    ASSUME NEW T \in SUBSET Countable, NEW S \in SUBSET T, NEW n \in Nat
    PROVE  Cardinality(Empties(T, n)) <= Cardinality(Empties(S, n))
PROOF
<1>1. \A r : Top(T, r) = 0 => Top(S, r) = 0
  <2> SUFFICES ASSUME NEW r, Top(T, r) = 0 PROVE Top(S, r) = 0
    OBVIOUS
  <2>1. Top(S, r) <= Top(T, r) /\ Top(S, r) \in Nat
    BY TopGrows, TopIs
  <2> QED BY <2>1
<1>2. Empties(T, n) \subseteq Empties(S, n)
  BY <1>1 DEF Empties
<1> QED BY <1>2, EmptiesFinite, FS_Subset

\* One register more.
LEMMA EmptiesNext ==
    ASSUME NEW S, NEW n \in Nat
    PROVE  Cardinality(Empties(S, n + 1))
             = IF Top(S, n) = 0 THEN Cardinality(Empties(S, n)) + 1 ELSE Cardinality(Empties(S, n))
PROOF
<1>1. 0 .. (n + 1) - 1 = (0 .. n - 1) \cup {n} /\ n \notin 0 .. n - 1
  OBVIOUS
<1>2. CASE Top(S, n) = 0
  <2>1. Empties(S, n + 1) = Empties(S, n) \cup {n} /\ n \notin Empties(S, n)
    BY <1>1, <1>2 DEF Empties
  <2> QED BY <1>2, <2>1, EmptiesFinite, FS_AddElement
<1>3. CASE Top(S, n) # 0
  <2>1. Empties(S, n + 1) = Empties(S, n)
    BY <1>1, <1>3 DEF Empties
  <2> QED BY <1>3, <2>1
<1> QED BY <1>2, <1>3

\* More elements leave every estimate that is under way in between.
LEMMA EstimatingKept ==
    ASSUME NEW g \in Goroutines, Estimating(g), pc'[g] = pc[g], local'[g] = local[g],
           added' \in SUBSET Countable, added \subseteq added'
    PROVE  Estimating(g)'
PROOF
<1> DEFINE call == local[g]
<1>1. /\ call.known \subseteq added /\ call.next \in Nat /\ call.values \in Seq(Nat)
      /\ added \in SUBSET Countable
  BY DEF Estimating
<1>2. ASSUME NEW k \in 1 .. Len(call.values)
      PROVE  Top(call.known, k - 1) <= call.values[k] /\ call.values[k] <= Top(added', k - 1)
  <2>1. Top(call.known, k - 1) <= call.values[k] /\ call.values[k] <= Top(added, k - 1)
    BY DEF Estimating, Between
  <2>2. Top(added, k - 1) <= Top(added', k - 1)
    BY TopGrows
  <2>3. call.values[k] \in Nat /\ Top(added, k - 1) \in Nat /\ Top(added', k - 1) \in Nat
    BY <1>1, TopIs
  <2> QED BY <2>1, <2>2, <2>3
<1>3. ASSUME pc[g] = "empties"
      PROVE  /\ call.V \in Nat
             /\ call.V <= Cardinality(Empties(call.known, call.next))
             /\ Cardinality(Empties(added', call.next)) <= call.V
  <2>1. /\ call.V \in Nat
        /\ call.V <= Cardinality(Empties(call.known, call.next))
        /\ Cardinality(Empties(added, call.next)) <= call.V
    BY <1>3 DEF Estimating
  <2>2. Cardinality(Empties(added', call.next)) <= Cardinality(Empties(added, call.next))
    BY <1>1, EmptiesShrink
  <2>3. Cardinality(Empties(added', call.next)) \in Nat /\ Cardinality(Empties(added, call.next)) \in Nat
    BY <1>1, EmptiesFinite
  <2> QED BY <2>1, <2>2, <2>3
<1>4. pc[g] = "sum" => Len(call.values) = call.next /\ call.V = 0
  BY DEF Estimating
<1> QED BY <1>1, <1>2, <1>3, <1>4 DEF Estimating, Between, Empties

\* What the others do not touch stays as it is; only a call that has read its register
\* and not written it yet must not meet another's write.
LEMMA OthersKept ==
    ASSUME IInv, NEW g \in Goroutines,
           \A d \in Goroutines : d # g => pc'[d] = pc[d] /\ local'[d] = local[d],
           added' \in SUBSET Countable, added \subseteq added',
           added' = added \/ pc[g] = "store"
    PROVE  \A d \in Goroutines : d # g => Counting(d)' /\ Estimating(d)'
PROOF
<1> SUFFICES ASSUME NEW d \in Goroutines, d # g PROVE Counting(d)' /\ Estimating(d)'
  OBVIOUS
<1>1. pc'[d] = pc[d] /\ local'[d] = local[d] /\ Element(d)' = Element(d)
  BY DEF Element
<1>2. Counting(d) /\ Estimating(d)
  BY DEF IInv
<1>3. pc[d] = "store" => added' = added
  BY DEF IInv, Exclusive
<1>4. pc[d] = "store" => local[d].old = Top(added', Index(Element(d)))
  BY <1>2, <1>3 DEF Counting
<1>5. Counting(d)'
  BY <1>1, <1>2, <1>4 DEF Counting
<1> QED BY <1>1, <1>2, <1>5, EstimatingKept

\* A call that has no part in an estimate.
LEMMA NoEstimate ==
    ASSUME Types, Types', NEW g \in Goroutines, pc'[g] \notin {"sum", "empties"},
           local'[g].known = {}, local'[g].next = 0, local'[g].values = << >>
    PROVE  Estimating(g)'
PROOF
<1>1. local'[g].values \in Seq(Nat) /\ Len(local'[g].values) = 0
  OBVIOUS
<1> QED BY <1>1 DEF Estimating

\* Only the caller moves.
Moves(g, here, there) ==
    /\ pc[g] = here /\ pc'[g] = there /\ DOMAIN pc' = Goroutines
    /\ \A d \in Goroutines : d # g => pc'[d] = pc[d]

LEMMA GotoMoves ==
    ASSUME IInv, NEW g \in Goroutines, NEW here, NEW there, Goto(g, here, there)
    PROVE  Moves(g, here, there)
PROOF BY DEF Goto, Moves, IInv, Types

LEMMA Sets ==
    ASSUME IInv, NEW g \in Goroutines, NEW call, DOMAIN call = Fields,
           local' = [local EXCEPT ![g] = call]
    PROVE  /\ local'[g] = call /\ DOMAIN local' = Goroutines
           /\ \A d \in Goroutines : d # g => local'[d] = local[d]
           /\ \A d \in Goroutines : DOMAIN local'[d] = Fields
PROOF BY DEF IInv, Types

\* A step that adds nothing, and neither takes nor gives the mutex.
LEMMA QuietStep ==
    ASSUME IInv, NEW g \in Goroutines, UNCHANGED <<M, hllMutex, added>>,
           NEW here, NEW there \in {"idle", "zeroes", "lock", "sum", "empties"},
           Moves(g, here, there),
           DOMAIN local' = Goroutines,
           \A d \in Goroutines : DOMAIN local'[d] = Fields,
           \A d \in Goroutines : d # g => local'[d] = local[d],
           Counting(g)', Estimating(g)'
    PROVE  IInv'
PROOF
<1>1. Types'
  BY DEF IInv, Types, Moves
<1>2. Exclusive'
  BY DEF IInv, Exclusive, Moves
<1>3. RegistersExact'
  BY DEF IInv, RegistersExact
<1>4. \A d \in Goroutines : d # g => Counting(d)' /\ Estimating(d)'
  <2>1. added' \in SUBSET Countable /\ added \subseteq added'
    BY DEF IInv, Types
  <2> QED BY <2>1, OthersKept DEF Moves
<1> QED BY <1>1, <1>2, <1>3, <1>4 DEF IInv

LEMMA AddStep ==
    ASSUME IInv, NEW g \in Goroutines, Add(g)
    PROVE  IInv'
PROOF
<1>1. Moves(g, "idle", "zeroes") /\ UNCHANGED <<M, hllMutex, added>>
  BY GotoMoves DEF Add
<1>2. PICK e \in Elements : local' = [local EXCEPT ![g] = Adding(e)]
  BY DEF Add
<1>3. /\ DOMAIN Adding(e) = Fields /\ Adding(e).element = <<e>> /\ Adding(e).w = Rest(e)
      /\ Adding(e).j = 0 /\ Adding(e).known = {} /\ Adding(e).next = 0
      /\ Adding(e).values = << >>
  BY DEF Adding, NoCall, Fields
<1>4. /\ local'[g] = Adding(e) /\ DOMAIN local' = Goroutines
      /\ \A d \in Goroutines : d # g => local'[d] = local[d]
      /\ \A d \in Goroutines : DOMAIN local'[d] = Fields
  BY <1>2, <1>3, Sets
<1>5. Element(g)' = e
  BY <1>3, <1>4 DEF Element
<1>6. Counting(g)'
  <2>1. pc'[g] = "zeroes" /\ local'[g].w = Rest(e) /\ local'[g].j = 0
    BY <1>1, <1>3, <1>4 DEF Moves
  <2>2. Rest(e) # 0 => e \in Countable /\ Left(e, Rest(e), 0)
    BY LoopBegins DEF Countable
  <2> QED BY <1>5, <2>1, <2>2 DEF Counting
<1>7. Types /\ Types'
  BY <1>1, <1>4 DEF IInv, Types, Moves
<1>8. Estimating(g)'
  BY <1>1, <1>3, <1>4, <1>7, NoEstimate DEF Moves
<1> QED BY <1>1, <1>4, <1>6, <1>8, QuietStep

\* The loop goes round, or it has found the lowest bit.
LEMMA ZeroesStep ==
    ASSUME IInv, NEW g \in Goroutines, getTrailingZeroes(g)
    PROVE  IInv'
PROOF
<1>1. UNCHANGED <<M, hllMutex, added>> /\ pc[g] = "zeroes"
  BY DEF getTrailingZeroes, Goto
<1>2. /\ Counting(g) /\ Estimating(g)
      /\ DOMAIN local = Goroutines /\ \A d \in Goroutines : DOMAIN local[d] = Fields
  BY DEF IInv, Types
<1>3. \/ local[g].w = 0
      \/ Element(g) \in Countable /\ Left(Element(g), local[g].w, local[g].j)
  BY <1>1, <1>2 DEF Counting
<1>4. CASE ~Odd(local[g].w) /\ Goto(g, "zeroes", "zeroes") /\ local' = [local EXCEPT ![g] = Halved(@)]
  <2>1. Moves(g, "zeroes", "zeroes")
    BY <1>4, GotoMoves
  <2> DEFINE call == local[g]
  <2>2. local' = [local EXCEPT ![g] = Halved(call)] /\ DOMAIN call = Fields
    BY <1>2, <1>4
  <2>3. /\ DOMAIN Halved(call) = Fields /\ Halved(call).element = call.element
        /\ Halved(call).w = call.w \div 2 /\ Halved(call).j = (call.j + 1) % Two[W]
        /\ Halved(call).known = call.known /\ Halved(call).next = call.next
        /\ Halved(call).values = call.values
    BY <2>2 DEF Halved, Fields
  <2>4. /\ local'[g] = Halved(call) /\ DOMAIN local' = Goroutines
        /\ \A d \in Goroutines : d # g => local'[d] = local[d]
        /\ \A d \in Goroutines : DOMAIN local'[d] = Fields
    BY <2>2, <2>3, Sets
  <2>5. Element(g)' = Element(g)
    BY <2>3, <2>4 DEF Element
  <2>6. Counting(g)'
    <3>1. CASE call.w = 0
      <4>1. local'[g].w = 0
        BY <2>3, <2>4, <3>1
      <4> QED BY <2>1, <4>1 DEF Counting, Moves
    <3>2. CASE call.w # 0
      <4>1. Left(Element(g), call.w \div 2, (call.j + 1) % Two[W])
        BY <1>3, <1>4, <3>2, LoopGoesOn
      <4> QED BY <1>3, <2>1, <2>3, <2>4, <2>5, <3>2, <4>1 DEF Counting, Moves
    <3> QED BY <3>1, <3>2
  <2>7. Estimating(g)'
    <3>1. /\ call.known \subseteq added' /\ call.next \in Nat /\ call.values \in Seq(Nat)
          /\ \A k \in 1 .. Len(call.values) : Between(call, call.values[k], k - 1)
      BY <1>1, <1>2 DEF Estimating
    <3>2. \A k \in 1 .. Len(call.values) :
             Top(call.known, k - 1) <= call.values[k] /\ call.values[k] <= Top(added', k - 1)
      BY <1>1, <3>1 DEF Between
    <3> QED BY <2>1, <2>3, <2>4, <3>1, <3>2 DEF Estimating, Moves, Between
  <2> QED BY <1>1, <2>1, <2>4, <2>6, <2>7, QuietStep
<1>5. CASE Odd(local[g].w) /\ Goto(g, "zeroes", "lock") /\ UNCHANGED local
  <2>1. Moves(g, "zeroes", "lock")
    BY <1>5, GotoMoves
  <2>2. local[g].w # 0
    BY <1>5 DEF Odd
  <2>3. Element(g)' = Element(g) /\ Element(g) \in Countable /\ local[g].j = Rank(Element(g))
    BY <1>3, <1>5, <2>2, LoopEnds DEF Element
  <2>4. Counting(g)'
    BY <1>5, <2>1, <2>3 DEF Counting, Moves
  <2>5. Estimating(g)'
    BY <1>1, <1>2, <1>5, <2>1 DEF Estimating, Between, Moves
  <2> QED BY <1>1, <1>2, <1>5, <2>1, <2>4, <2>5, QuietStep
<1> QED BY <1>4, <1>5 DEF getTrailingZeroes

\* Nobody is between another's lock and unlock.
LEMMA LockStep ==
    ASSUME IInv, NEW g \in Goroutines, Lock(g)
    PROVE  IInv'
PROOF
<1> DEFINE call == local[g]
           e == call.element[1]
           new == [call EXCEPT !.old = M[Index(e)]]
<1>1. /\ Moves(g, "lock", "store") /\ UNCHANGED <<M, added>>
      /\ hllMutex = 0 /\ hllMutex' = g
      /\ local' = [local EXCEPT ![g].old = M[Index(e)]]
  BY GotoMoves DEF Lock, Free
<1>2. /\ Types /\ Exclusive /\ Counting(g) /\ Estimating(g) /\ RegistersExact
      /\ DOMAIN call = Fields
  BY DEF IInv, Types
<1>3. e \in Countable /\ e = Element(g) /\ call.j = Rank(e)
  BY <1>1, <1>2 DEF Counting, Element, Moves
<1>4. local' = [local EXCEPT ![g] = new] /\ DOMAIN new = Fields
  BY <1>1, <1>2
<1>5. /\ new.element = call.element /\ new.j = call.j /\ new.old = M[Index(e)]
      /\ new.known = call.known /\ new.values = call.values /\ new.next = call.next
  BY <1>2 DEF Fields
<1> HIDE DEF new
<1>6. /\ local'[g] = new /\ DOMAIN local' = Goroutines
      /\ \A d \in Goroutines : d # g => local'[d] = local[d]
      /\ \A d \in Goroutines : DOMAIN local'[d] = Fields
  BY <1>4, Sets
<1>7. Types'
  BY <1>1, <1>2, <1>6 DEF Types, Moves
<1>8. \A d \in Goroutines : pc[d] \notin {"store", "unlock"}
  BY <1>1, <1>2 DEF Exclusive
<1>9. Exclusive'
  BY <1>1, <1>8 DEF Exclusive, Moves
<1>10. RegistersExact'
  BY <1>1, <1>2 DEF RegistersExact
<1>11. Counting(g)'
  <2>1. M[Index(e)] = Top(added, Index(e))
    BY <1>2, <1>3, Split DEF RegistersExact, Countable
  <2>2. Element(g)' = e
    BY <1>5, <1>6 DEF Element
  <2> QED BY <1>1, <1>3, <1>5, <1>6, <2>1, <2>2 DEF Counting, Moves
<1>12. Estimating(g)'
  BY <1>1, <1>2, <1>5, <1>6 DEF Estimating, Between, Moves
<1>13. \A d \in Goroutines : d # g => Counting(d)' /\ Estimating(d)'
  <2>1. added' \in SUBSET Countable /\ added \subseteq added'
    BY <1>1, <1>2 DEF Types
  <2> QED BY <1>1, <1>6, <2>1, OthersKept DEF Moves
<1> QED BY <1>7, <1>9, <1>10, <1>11, <1>12, <1>13 DEF IInv

\* What is written is the larger of the rank and of what is still in the register.
LEMMA StoreStep ==
    ASSUME IInv, NEW g \in Goroutines, Store(g)
    PROVE  IInv'
PROOF
<1> DEFINE call == local[g]
           e == call.element[1]
<1>1. /\ Moves(g, "store", "unlock") /\ UNCHANGED <<hllMutex, local>>
      /\ M' = [M EXCEPT ![Index(e)] = Larger(call.old, call.j)]
      /\ added' = added \cup {e}
  BY GotoMoves DEF Store
<1>2. /\ Types /\ Exclusive /\ Counting(g) /\ Estimating(g) /\ RegistersExact
  BY DEF IInv
<1>3. e \in Countable /\ e = Element(g) /\ call.j = Rank(e) /\ call.old = Top(added, Index(e))
  BY <1>1, <1>2 DEF Counting, Element, Moves
<1>4. added' \in SUBSET Countable /\ added \subseteq added' /\ added \in SUBSET Countable
  BY <1>1, <1>2, <1>3 DEF Types
<1>5. Types'
  BY <1>1, <1>2, <1>4 DEF Types, Moves
<1>6. Exclusive'
  BY <1>1, <1>2 DEF Exclusive, Moves
<1>7. RegistersExact'
  <2>1. M = [r \in Registers |-> Top(added, r)]
    BY <1>2 DEF RegistersExact
  <2>2. ASSUME NEW r \in Registers PROVE M'[r] = Top(added', r)
    <3>1. Top(added', r) = IF r = Index(e) THEN Larger(Top(added, r), Rank(e)) ELSE Top(added, r)
      BY <1>1, <1>3, <1>4, TopAdded
    <3>2. M'[r] = IF r = Index(e) THEN Larger(call.old, call.j) ELSE Top(added, r)
      BY <1>1, <2>1
    <3> QED BY <1>3, <3>1, <3>2
  <2>3. M' = [r \in Registers |-> M'[r]]
    BY <1>1, <2>1
  <2> QED BY <2>2, <2>3 DEF RegistersExact
<1>8. Counting(g)'
  BY <1>1, <1>3 DEF Counting, Element, Moves
<1>9. Estimating(g)'
  <2>1. pc[g] \notin {"sum", "empties"} /\ pc'[g] \notin {"sum", "empties"}
    BY <1>1 DEF Moves
  <2>2. /\ call.known \subseteq added /\ call.next \in Nat /\ call.values \in Seq(Nat)
        /\ \A k \in 1 .. Len(call.values) : Between(call, call.values[k], k - 1)
    BY <1>2 DEF Estimating
  <2>3. ASSUME NEW k \in 1 .. Len(call.values)
        PROVE  Top(call.known, k - 1) <= call.values[k] /\ call.values[k] <= Top(added', k - 1)
    <3>1. Top(call.known, k - 1) <= call.values[k] /\ call.values[k] <= Top(added, k - 1)
      BY <2>2 DEF Between
    <3>2. Top(added, k - 1) <= Top(added', k - 1)
      BY <1>4, TopGrows
    <3>3. call.values[k] \in Nat
      BY <2>2
    <3>4. Top(added, k - 1) \in Nat /\ Top(added', k - 1) \in Nat
      BY <1>4, TopIs
    <3> QED BY <3>1, <3>2, <3>3, <3>4
  <2> QED BY <1>1, <1>4, <2>1, <2>2, <2>3 DEF Estimating, Between
<1>10. \A d \in Goroutines : d # g => Counting(d)' /\ Estimating(d)'
  BY <1>1, <1>4, OthersKept DEF Moves
<1> QED BY <1>5, <1>6, <1>7, <1>8, <1>9, <1>10 DEF IInv

\* A call that returns forgets what it had.
LEMMA Forgets ==
    ASSUME IInv, NEW g \in Goroutines, NEW here, Moves(g, here, "idle"), added' = added,
           local' = [local EXCEPT ![g] = NoCall]
    PROVE  /\ Types' /\ Counting(g)' /\ Estimating(g)'
           /\ DOMAIN local' = Goroutines
           /\ \A d \in Goroutines : DOMAIN local'[d] = Fields
           /\ \A d \in Goroutines : d # g => local'[d] = local[d]
PROOF
<1>1. /\ DOMAIN NoCall = Fields /\ NoCall.known = {} /\ NoCall.next = 0
      /\ NoCall.values = << >>
  BY DEF NoCall, Fields
<1>2. /\ local'[g] = NoCall /\ DOMAIN local' = Goroutines
      /\ \A d \in Goroutines : d # g => local'[d] = local[d]
      /\ \A d \in Goroutines : DOMAIN local'[d] = Fields
  BY <1>1, Sets
<1>3. Types /\ Types'
  BY <1>2 DEF IInv, Types, Moves
<1>4. Counting(g)'
  BY DEF Counting, Moves
<1>5. Estimating(g)'
  BY <1>1, <1>2, <1>3, NoEstimate DEF Moves
<1> QED BY <1>2, <1>3, <1>4, <1>5

LEMMA UnlockStep ==
    ASSUME IInv, NEW g \in Goroutines, Unlock(g)
    PROVE  IInv'
PROOF
<1>1. /\ Moves(g, "unlock", "idle") /\ UNCHANGED <<M, added>>
      /\ local' = [local EXCEPT ![g] = NoCall]
  BY GotoMoves DEF Unlock
<1>2. /\ Types' /\ Counting(g)' /\ Estimating(g)'
      /\ \A d \in Goroutines : d # g => local'[d] = local[d]
  BY <1>1, Forgets
<1>3. Exclusive'
  <2>1. \A d \in Goroutines : d # g => pc[d] \notin {"store", "unlock"}
    BY <1>1 DEF IInv, Exclusive, Moves
  <2> QED BY <1>1, <2>1 DEF Exclusive, Moves
<1>4. RegistersExact'
  BY <1>1 DEF IInv, RegistersExact
<1>5. \A d \in Goroutines : d # g => Counting(d)' /\ Estimating(d)'
  <2>1. added' \in SUBSET Countable /\ added \subseteq added'
    BY <1>1 DEF IInv, Types
  <2> QED BY <1>1, <1>2, <2>1, OthersKept DEF Moves
<1> QED BY <1>2, <1>3, <1>4, <1>5 DEF IInv

-----------------------------------------------------------------------------
(* The estimate.                                                           *)

LEMMA EstimateStep ==
    ASSUME IInv, NEW g \in Goroutines, Estimate(g)
    PROVE  IInv'
PROOF
<1> DEFINE new == [NoCall EXCEPT !.known = added]
<1>1. /\ Moves(g, "idle", "sum") /\ UNCHANGED <<M, hllMutex, added>>
      /\ local' = [local EXCEPT ![g] = new]
  BY GotoMoves DEF Estimate
<1>2. /\ DOMAIN new = Fields /\ new.known = added /\ new.next = 0
      /\ new.values = << >> /\ new.V = 0
  BY DEF NoCall, Fields
<1> HIDE DEF new
<1>3. /\ local'[g] = new /\ DOMAIN local' = Goroutines
      /\ \A d \in Goroutines : d # g => local'[d] = local[d]
      /\ \A d \in Goroutines : DOMAIN local'[d] = Fields
  BY <1>1, <1>2, Sets
<1>4. Counting(g)'
  BY <1>1 DEF Counting, Moves
<1>5. Estimating(g)'
  <2>1. new.values \in Seq(Nat) /\ Len(new.values) = 0
    BY <1>2
  <2>2. \A k \in 1 .. Len(new.values) : FALSE
    BY <2>1
  <2>3. pc'[g] = "sum" /\ added' = added
    BY <1>1 DEF Moves
  <2>4. /\ local'[g].values \in Seq(Nat) /\ Len(local'[g].values) = 0
        /\ local'[g].known \subseteq added' /\ local'[g].next = 0 /\ local'[g].V = 0
    BY <1>2, <1>3, <2>1, <2>3
  <2>5. \A k \in 1 .. Len(local'[g].values) : FALSE
    BY <2>4
  <2> QED BY <2>3, <2>4, <2>5 DEF Estimating
<1> QED BY <1>1, <1>3, <1>4, <1>5, QuietStep

\* A register that is read holds what it should at that moment.
LEMMA ReadsExact ==
    ASSUME IInv, NEW r \in Registers
    PROVE  M[r] = Top(added, r) /\ M[r] \in Nat /\ r \in Nat
PROOF
<1>1. added \in SUBSET Countable /\ M[r] = Top(added, r)
  BY DEF IInv, Types, RegistersExact
<1>2. r \in Nat
  <2>1. p \in 0 .. W
    OBVIOUS
  <2>2. Two[p] \in Nat
    BY <2>1, TwoGrows
  <2> QED BY <2>2 DEF Registers
<1> QED BY <1>1, <1>2, TopIs

LEMMA SumStep ==
    ASSUME IInv, NEW g \in Goroutines, Sum(g)
    PROVE  IInv'
PROOF
<1> DEFINE call == local[g]
           r == call.next
           new == Read(call)
<1>1. /\ Moves(g, "sum", "sum") /\ UNCHANGED <<M, hllMutex, added>> /\ r \in Registers
      /\ local' = [local EXCEPT ![g] = new]
  BY GotoMoves DEF Sum
<1>2. /\ added \in SUBSET Countable /\ DOMAIN call = Fields /\ Estimating(g)
  BY DEF IInv, Types
<1>3. /\ DOMAIN new = Fields /\ new.known = call.known /\ new.V = call.V
      /\ new.values = Append(call.values, M[r]) /\ new.next = r + 1
  BY <1>2 DEF Read, Fields
<1> HIDE DEF new
<1>4. /\ local'[g] = new /\ DOMAIN local' = Goroutines
      /\ \A d \in Goroutines : d # g => local'[d] = local[d]
      /\ \A d \in Goroutines : DOMAIN local'[d] = Fields
  BY <1>1, <1>3, Sets
<1>5. M[r] = Top(added, r) /\ M[r] \in Nat /\ r \in Nat
  BY <1>1, ReadsExact
<1>6. /\ call.known \subseteq added /\ call.values \in Seq(Nat) /\ Len(call.values) = r /\ call.V = 0
      /\ \A k \in 1 .. Len(call.values) : Between(call, call.values[k], k - 1)
  BY <1>1, <1>2 DEF Estimating, Moves
<1>7. PICK q \in Seq(Nat) : q = call.values
  BY <1>6
<1>8. /\ new.values \in Seq(Nat) /\ Len(new.values) = r + 1 /\ new.values[r + 1] = M[r]
      /\ \A k \in 1 .. r : new.values[k] = q[k]
  BY <1>3, <1>5, <1>6, <1>7
<1>9. ASSUME NEW k \in 1 .. r + 1
      PROVE  Top(call.known, k - 1) <= new.values[k] /\ new.values[k] <= Top(added, k - 1)
  <2>1. CASE k \in 1 .. r
    BY <1>6, <1>7, <1>8, <2>1 DEF Between
  <2>2. CASE k = r + 1
    <3>1. k - 1 = r
      BY <1>5, <2>2
    <3>2. Top(call.known, r) <= Top(added, r) /\ Top(added, r) <= Top(added, r)
      BY <1>2, <1>5, <1>6, TopGrows
    <3> QED BY <1>5, <1>8, <2>2, <3>1, <3>2
  <2>3. k \in 1 .. r \/ k = r + 1
    BY <1>5
  <2> QED BY <2>1, <2>2, <2>3
<1>10. Counting(g)'
  BY <1>1 DEF Counting, Moves
<1>11. Estimating(g)'
  <2>1. \A k \in 1 .. Len(new.values) :
           Top(new.known, k - 1) <= new.values[k] /\ new.values[k] <= Top(added', k - 1)
    BY <1>1, <1>3, <1>8, <1>9
  <2>2. pc'[g] = "sum" /\ added' = added
    BY <1>1 DEF Moves
  <2>3. new.known \subseteq added /\ new.next \in Nat /\ Len(new.values) = new.next /\ new.V = 0
    BY <1>3, <1>5, <1>6, <1>8
  <2> QED BY <1>4, <1>8, <2>1, <2>2, <2>3 DEF Estimating, Between
<1> QED BY <1>1, <1>4, <1>10, <1>11, QuietStep

LEMMA SummedStep ==
    ASSUME IInv, NEW g \in Goroutines, Summed(g)
    PROVE  IInv'
PROOF
<1>1. UNCHANGED <<M, hllMutex, added>> /\ pc[g] = "sum"
  BY DEF Summed, Goto
<1>2. CASE Goto(g, "sum", "idle") /\ local' = [local EXCEPT ![g] = NoCall]
  <2>1. Moves(g, "sum", "idle")
    BY <1>2, GotoMoves
  <2> QED BY <1>1, <1>2, <2>1, Forgets, QuietStep
<1>3. CASE Goto(g, "sum", "empties") /\ local' = [local EXCEPT ![g].next = 0]
  <2> DEFINE call == local[g]
             new == [call EXCEPT !.next = 0]
  <2>1. Moves(g, "sum", "empties") /\ local' = [local EXCEPT ![g] = new]
    BY <1>3, GotoMoves
  <2>2. DOMAIN call = Fields /\ Estimating(g)
    BY DEF IInv, Types
  <2>3. /\ DOMAIN new = Fields /\ new.known = call.known /\ new.V = call.V
        /\ new.values = call.values /\ new.next = 0
    BY <2>2 DEF Fields
  <2> HIDE DEF new
  <2>4. /\ local'[g] = new /\ DOMAIN local' = Goroutines
        /\ \A d \in Goroutines : d # g => local'[d] = local[d]
        /\ \A d \in Goroutines : DOMAIN local'[d] = Fields
    BY <2>1, <2>3, Sets
  <2>5. Counting(g)'
    BY <2>1 DEF Counting, Moves
  <2>6. Estimating(g)'
    <3>1. /\ call.known \subseteq added /\ call.values \in Seq(Nat) /\ call.V = 0
          /\ \A k \in 1 .. Len(call.values) :
               Top(call.known, k - 1) <= call.values[k] /\ call.values[k] <= Top(added, k - 1)
      BY <1>1, <2>2 DEF Estimating, Between
    <3>2. \A S : Empties(S, 0) = {}
      BY DEF Empties
    <3>3. Cardinality(Empties(call.known, 0)) = 0 /\ Cardinality(Empties(added, 0)) = 0
      BY <3>2, FS_EmptySet
    <3>4. pc'[g] = "empties" /\ added' = added
      BY <1>1, <2>1 DEF Moves
    <3>5. /\ new.V \in Nat /\ new.V <= Cardinality(Empties(new.known, new.next))
          /\ Cardinality(Empties(added, new.next)) <= new.V
      BY <2>3, <3>1, <3>3
    <3>6. new.known \subseteq added /\ new.next \in Nat /\ new.values \in Seq(Nat)
      BY <2>3, <3>1
    <3>7. \A k \in 1 .. Len(new.values) :
             Top(new.known, k - 1) <= new.values[k] /\ new.values[k] <= Top(added, k - 1)
      BY <2>3, <3>1
    <3> QED BY <2>4, <3>4, <3>5, <3>6, <3>7 DEF Estimating, Between, Empties
  <2> QED BY <1>1, <2>1, <2>4, <2>5, <2>6, QuietStep
<1> QED BY <1>2, <1>3 DEF Summed

LEMMA CountEmptyStep ==
    ASSUME IInv, NEW g \in Goroutines, CountEmpty(g)
    PROVE  IInv'
PROOF
<1> DEFINE call == local[g]
           r == call.next
           new == Counted(call)
<1>1. /\ Moves(g, "empties", "empties") /\ UNCHANGED <<M, hllMutex, added>> /\ r \in Registers
      /\ local' = [local EXCEPT ![g] = new]
  BY GotoMoves DEF CountEmpty
<1>2. /\ added \in SUBSET Countable /\ DOMAIN call = Fields /\ Estimating(g)
  BY DEF IInv, Types
<1>3. /\ DOMAIN new = Fields /\ new.known = call.known /\ new.values = call.values
      /\ new.V = (IF M[r] = 0 THEN call.V + 1 ELSE call.V) /\ new.next = r + 1
  BY <1>2 DEF Counted, Fields
<1> HIDE DEF new
<1>4. /\ local'[g] = new /\ DOMAIN local' = Goroutines
      /\ \A d \in Goroutines : d # g => local'[d] = local[d]
      /\ \A d \in Goroutines : DOMAIN local'[d] = Fields
  BY <1>1, <1>3, Sets
<1>5. M[r] = Top(added, r) /\ M[r] \in Nat /\ r \in Nat
  BY <1>1, ReadsExact
<1>6. /\ call.known \in SUBSET added /\ call.values \in Seq(Nat) /\ call.V \in Nat
      /\ \A k \in 1 .. Len(call.values) :
           Top(call.known, k - 1) <= call.values[k] /\ call.values[k] <= Top(added, k - 1)
      /\ call.V <= Cardinality(Empties(call.known, r))
      /\ Cardinality(Empties(added, r)) <= call.V
  BY <1>1, <1>2 DEF Estimating, Between, Moves
<1>7. PICK kn \in Nat, ad \in Nat : kn = Cardinality(Empties(call.known, r)) /\ ad = Cardinality(Empties(added, r))
  BY <1>5, EmptiesFinite
<1>8. /\ Cardinality(Empties(call.known, r + 1)) = IF Top(call.known, r) = 0 THEN kn + 1 ELSE kn
      /\ Cardinality(Empties(added, r + 1)) = IF Top(added, r) = 0 THEN ad + 1 ELSE ad
  BY <1>5, <1>7, EmptiesNext
<1>9. Top(added, r) = 0 => Top(call.known, r) = 0
  <2>1. Top(call.known, r) <= Top(added, r)
    BY <1>2, <1>6, TopGrows
  <2>2. Top(call.known, r) \in Nat
    BY <1>2, <1>6, TopIs
  <2> QED BY <2>1, <2>2
<1>10. /\ new.V \in Nat /\ new.V <= Cardinality(Empties(call.known, r + 1))
       /\ Cardinality(Empties(added, r + 1)) <= new.V
  <2>1. ad <= call.V /\ call.V <= kn /\ call.V \in Nat
    BY <1>6, <1>7
  <2>2. CASE Top(added, r) = 0
    <3>1. /\ new.V = call.V + 1 /\ Cardinality(Empties(call.known, r + 1)) = kn + 1
          /\ Cardinality(Empties(added, r + 1)) = ad + 1
      BY <1>3, <1>5, <1>8, <1>9, <2>2
    <3> QED BY <2>1, <3>1
  <2>3. CASE Top(added, r) # 0
    <3>1. /\ new.V = call.V /\ Cardinality(Empties(call.known, r + 1)) \in {kn, kn + 1}
          /\ Cardinality(Empties(added, r + 1)) = ad
      BY <1>3, <1>5, <1>8, <2>3
    <3> QED BY <2>1, <3>1
  <2> QED BY <2>2, <2>3
<1>11. Counting(g)'
  BY <1>1 DEF Counting, Moves
<1>12. Estimating(g)'
  <2>1. pc'[g] = "empties" /\ added' = added /\ r + 1 \in Nat
    BY <1>1, <1>5 DEF Moves
  <2> QED BY <1>3, <1>4, <1>6, <1>10, <2>1 DEF Estimating, Between, Empties
<1> QED BY <1>1, <1>4, <1>11, <1>12, QuietStep

LEMMA ReturnStep ==
    ASSUME IInv, NEW g \in Goroutines, Return(g)
    PROVE  IInv'
PROOF
<1>1. /\ Moves(g, "empties", "idle") /\ UNCHANGED <<M, hllMutex, added>>
      /\ local' = [local EXCEPT ![g] = NoCall]
  BY GotoMoves DEF Return
<1> QED BY <1>1, Forgets, QuietStep

-----------------------------------------------------------------------------
\* Empty registers for no elements.
LEMMA InitInv == Init => IInv
PROOF
<1> SUFFICES ASSUME Init PROVE IInv
  OBVIOUS
<1>1. /\ DOMAIN NoCall = Fields /\ NoCall.known = {} /\ NoCall.next = 0
      /\ NoCall.values = << >>
  BY DEF NoCall, Fields
<1>2. added = {} /\ \A g \in Goroutines : pc[g] = "idle" /\ local[g] = NoCall
  BY DEF Init
<1>3. Types
  BY <1>1 DEF Init, Types
<1>4. Exclusive /\ \A g \in Goroutines : Counting(g)
  BY <1>2 DEF Exclusive, Counting
<1>5. RegistersExact
  <2>1. ASSUME NEW r PROVE Top({}, r) = 0
    <3>1. Ranks({}, r) = {0}
      BY DEF Ranks
    <3> QED BY <3>1, TopIs
  <2> QED BY <1>2, <2>1 DEF Init, RegistersExact
<1>6. \A g \in Goroutines : Estimating(g)
  <2>1. NoCall.values \in Seq(Nat) /\ Len(NoCall.values) = 0
    BY <1>1
  <2>2. \A k \in 1 .. Len(NoCall.values) : FALSE
    BY <2>1
  <2>3. PICK call : call = NoCall
    OBVIOUS
  <2>4. /\ call.values \in Seq(Nat) /\ call.known = {} /\ call.next = 0
        /\ \A k \in 1 .. Len(call.values) : FALSE
    BY <1>1, <2>1, <2>2, <2>3
  <2> SUFFICES ASSUME NEW g \in Goroutines PROVE Estimating(g)
    OBVIOUS
  <2>5. local[g] = call /\ pc[g] = "idle"
    BY <1>2, <2>3
  <2> QED BY <2>4, <2>5 DEF Estimating
<1> QED BY <1>3, <1>4, <1>5, <1>6 DEF IInv

LEMMA StepInv == IInv /\ [Next]_vars => IInv'
PROOF
<1> SUFFICES ASSUME IInv, [Next]_vars PROVE IInv'
  OBVIOUS
<1>1. CASE UNCHANGED vars
  <2>1. Types' /\ Exclusive' /\ RegistersExact'
    BY <1>1 DEF IInv, Types, Exclusive, RegistersExact, vars
  <2>2. \A g \in Goroutines : Counting(g)' /\ Estimating(g)'
    BY <1>1 DEF IInv, Counting, Element, Estimating, Between, vars
  <2> QED BY <2>1, <2>2 DEF IInv
<1>2. CASE Next
  BY <1>2, AddStep, ZeroesStep, LockStep, StoreStep, UnlockStep, EstimateStep, SumStep,
     SummedStep, CountEmptyStep, ReturnStep DEF Next, Step
<1> QED BY <1>1, <1>2

\* The invariant of the program, for any words, hashes and goroutines.
LEMMA Invariance == Spec => []IInv
PROOF BY InitInv, StepInv, PTL DEF Spec

\* The registers are those of the set of elements added (pkg.go:46-66): the loop
\* finds the lowest bit of every hash without an overflow, whatever the widths, and
\* no update is lost.
THEOREM NoUpdateLost == Spec => []RegistersExact
PROOF
<1>1. IInv => RegistersExact
  BY DEF IInv
<1> QED BY <1>1, Invariance, PTL

\* An estimate reads the registers of elements between those that were there before
\* it began and those that are there now, without the mutex (pkg.go:88-98).
THEOREM EstimatesInBetween == Spec => []EstimateInBetween
PROOF
<1>1. IInv => EstimateInBetween
  <2> SUFFICES ASSUME IInv, NEW g \in Goroutines, Estimating(g)
               PROVE  /\ \A k \in 1 .. Len(local[g].values) :
                           Between(local[g], local[g].values[k], k - 1)
                      /\ pc[g] = "empties" =>
                           /\ local[g].V <= Cardinality(Empties(local[g].known, local[g].next))
                           /\ Cardinality(Empties(added, local[g].next)) <= local[g].V
    BY DEF IInv, EstimateInBetween, Between, Empties
  <2> QED BY DEF Estimating
<1> QED BY <1>1, Invariance, PTL
=============================================================================
