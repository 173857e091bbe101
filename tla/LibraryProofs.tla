---------------------------- MODULE LibraryProofs ----------------------------
(***************************************************************************)
(* Proofs about the parts of the library.  As the parts share no state, a  *)
(* step of one leaves the invariants of the others alone.                  *)
(***************************************************************************)
EXTENDS Library, SequenceTheorems, WellFoundedInduction, TLAPS

-----------------------------------------------------------------------------
(* Arithmetic.                                                             *)

LEMMA Division ==
    ASSUME NEW M \in Nat \ {0}, NEW a \in Nat
    PROVE  \E q \in Nat, r \in 0 .. M - 1 :
               a = M * q + r /\ a \div M = q /\ a % M = r
OBVIOUS

\* Remainder and quotient are unique.
LEMMA RemainderIs ==
    ASSUME NEW M \in Nat \ {0}, NEW q \in Nat, NEW r \in 0 .. M - 1
    PROVE  (M * q + r) % M = r
OBVIOUS

\* A remainder can be added to as well as what it is the remainder of.
LEMMA RemainderOfSum ==
    ASSUME NEW M \in Nat \ {0}, NEW a \in Nat, NEW b \in Nat
    PROVE  ((a % M) + b) % M = (a + b) % M
<1>1. PICK q \in Nat, r \in 0 .. M - 1 : a = M * q + r /\ a % M = r
  BY Division
<1>2. PICK c : c = r + b
  OBVIOUS
<1>3. PICK p \in Nat, t \in 0 .. M - 1 : c = M * p + t /\ c % M = t
  BY <1>2, Division
<1>4. PICK s \in Nat : s = q + p
  OBVIOUS
<1>5. M * s = M * q + M * p
  BY <1>4
<1>6. a + b = M * s + t
  BY <1>1, <1>2, <1>3, <1>5
<1>7. (M * s + t) % M = t
  BY RemainderIs
<1>8. QED
  BY <1>1, <1>2, <1>3, <1>6, <1>7

\* A number below the modulus is its own remainder, with or without one turn.
LEMMA SmallRemainder ==
    ASSUME NEW M \in Nat \ {0}, NEW d \in 0 .. M - 1
    PROVE  d % M = d /\ (M + d) % M = d
<1>1. (M * 0 + d) % M = d /\ (M * 1 + d) % M = d
  BY RemainderIs
<1>2. M * 0 + d = d /\ M * 1 + d = M + d
  OBVIOUS
<1>3. QED
  BY <1>1, <1>2

\* A remainder can be multiplied and added to as well as what it is the
\* remainder of.
LEMMA RemainderOfShift ==
    ASSUME NEW M \in Nat \ {0}, NEW a \in Nat, NEW c \in Nat, NEW b \in Nat
    PROVE  ((a % M) * c + b) % M = (a * c + b) % M
<1>1. PICK q \in Nat, r \in 0 .. M - 1 : a = M * q + r /\ a % M = r
  BY Division
<1>2. PICK x \in Nat : x = r * c + b
  OBVIOUS
<1>3. PICK p \in Nat, t \in 0 .. M - 1 : x = M * p + t /\ x % M = t
  BY Division
<1>4. PICK d \in Nat : d = q * c
  OBVIOUS
<1>5. PICK s \in Nat : s = d + p
  OBVIOUS
<1>6. M * s = M * d + M * p
  BY <1>5
<1>7. a * c = M * d + r * c
  <2>1. a * c = (M * q) * c + r * c
    BY <1>1
  <2>2. (M * q) * c = M * d
    BY <1>4
  <2>3. QED
    BY <2>1, <2>2
<1>8. a * c + b = M * s + t
  <2>1. PICK y \in Nat, z \in Nat, u \in Nat, v \in Nat :
            y = a * c /\ z = r * c /\ u = M * d /\ v = M * p
    OBVIOUS
  <2>2. y = u + z /\ z + b = v + t /\ M * s = u + v
    BY <1>2, <1>3, <1>6, <1>7, <2>1
  <2>3. y + b = M * s + t
    <3>1. PICK w \in Int : w = M * s
      OBVIOUS
    <3>2. QED
      BY <2>2, <3>1
  <2>4. QED
    BY <2>1, <2>3
<1>9. (M * s + t) % M = t
  BY RemainderIs
<1>10. QED
  BY <1>1, <1>2, <1>3, <1>8, <1>9

\* The same for one that is given.
IsRemainder(y, a, M) == y = a % M

LEMMA ShiftRemainders ==
    ASSUME NEW M \in Nat \ {0}, NEW a \in Nat, NEW y, IsRemainder(y, a, M)
    PROVE  \A c \in Nat, b \in Nat : (y * c + b) % M = (a * c + b) % M
BY RemainderOfShift DEF IsRemainder

\* One byte more: what has been added up so far is h digits of p * B.
LEMMA DigitAdded ==
    ASSUME NEW h \in Nat, NEW B \in Nat, NEW p \in Nat, NEW b \in Nat
    PROVE  h * (B * p) + b * p = (h * B + b) * p
<1>1. PICK x \in Nat : x = h * B
  OBVIOUS
<1>2. h * (B * p) = x * p
  BY <1>1
<1>3. (x + b) * p = x * p + b * p
  OBVIOUS
<1>4. QED
  BY <1>1, <1>2, <1>3

-----------------------------------------------------------------------------
(* Induction, recursion and folds.                                         *)

\* Every non-empty set of numbers has a least one.
LEMMA LeastElement ==
    ASSUME NEW T \in SUBSET Nat, T # {}
    PROVE  \E x \in T : \A y \in T : x <= y
<1>1. PICK R : R = OpToRel(<, Nat)
  OBVIOUS
<1>2. IsWellFoundedOn(R, Nat)
  BY <1>1, NatLessThanWellFounded
<1>3. PICK x \in T : \A y \in T : ~ (<<y, x>> \in R)
  BY <1>2, WFMin
<1>4. ASSUME NEW y \in T PROVE x <= y
  <2>1. x \in Nat /\ y \in Nat
    OBVIOUS
  <2>2. SUFFICES ASSUME y < x PROVE FALSE
    BY <2>1
  <2>3. <<y, x>> \in OpToRel(<, Nat)
    BY <2>1, <2>2 DEF OpToRel
  <2>4. QED
    BY <1>1, <1>3, <2>3
<1>5. QED
  BY <1>4

\* Induction, over the numbers that are in a set.
LEMMA Upwards ==
    ASSUME NEW n \in Nat, NEW S, 0 \in S,
           \A k \in Nat : k < n /\ k \in S => k + 1 \in S
    PROVE  \A k \in 0 .. n : k \in S
<1>1. PICK T : T = (0 .. n) \ S
  OBVIOUS
<1>2. SUFFICES ASSUME T # {} PROVE FALSE
  BY <1>1
<1>3. PICK x \in T : \A y \in T : x <= y
  <2>1. T \in SUBSET Nat
    BY <1>1
  <2>2. QED
    BY <1>2, <2>1, LeastElement
<1>4. x \in 0 .. n /\ x # 0 /\ x \notin S
  BY <1>1
<1>5. PICK k \in Nat : k = x - 1 /\ k < n /\ k \in 0 .. n
  BY <1>4
<1>6. k \notin T
  <2>1. ~(x <= k)
    BY <1>4, <1>5
  <2>2. QED
    BY <1>3, <2>1
<1>7. QED
  BY <1>1, <1>4, <1>5, <1>6

\* G folded over 1 .. n, the greatest index last.
IsFold(f, n, T, b, G) ==
    /\ f \in [SUBSET (1 .. n) -> T]
    /\ \A s \in SUBSET (1 .. n) : f[s] = IF s = {} THEN b ELSE G[<<Max(s), f[s \ {Max(s)}]>>]

\* There is such a fold.
LEMMA FoldExists ==
    ASSUME NEW n \in Nat, NEW T, NEW b \in T, NEW G \in [(1 .. n) \X T -> T]
    PROVE  \E f : IsFold(f, n, T, b, G)
<1>1. PICK S : S = { m \in Nat : \E f : IsFold(f, m, T, b, G) }
  OBVIOUS
<1>2. 0 \in S
  <2>1. SUBSET (1 .. 0) = {{}}
    OBVIOUS
  <2>2. IsFold([s \in SUBSET (1 .. 0) |-> b], 0, T, b, G)
    BY <2>1 DEF IsFold
  <2>3. QED
    BY <1>1, <2>2
<1>3. ASSUME NEW m \in Nat, m < n, m \in S PROVE m + 1 \in S
  <2>1. PICK f : IsFold(f, m, T, b, G)
    BY <1>1, <1>3
  <2>2. PICK p \in 1 .. n : p = m + 1
    BY <1>3
  <2>3. PICK g : g = [s \in SUBSET (1 .. p) |-> IF p \in s THEN G[<<p, f[s \ {p}]>>] ELSE f[s]]
    OBVIOUS
  <2>4. ASSUME NEW s \in SUBSET (1 .. p) PROVE s \ {p} \in SUBSET (1 .. m)
    BY <2>2
  <2>5. g \in [SUBSET (1 .. p) -> T]
    <3>1. ASSUME NEW s \in SUBSET (1 .. p)
          PROVE  (IF p \in s THEN G[<<p, f[s \ {p}]>>] ELSE f[s]) \in T
      <4>1. f[s \ {p}] \in T
        BY <2>1, <2>4 DEF IsFold
      <4>2. CASE p \in s
        BY <4>1, <4>2
      <4>3. CASE p \notin s
        <5>1. s \ {p} = s
          BY <4>3
        <5>2. QED
          BY <4>1, <4>3, <5>1
      <4>4. QED
        BY <4>2, <4>3
    <3>2. QED
      BY <2>3, <3>1
  <2>6. ASSUME NEW s \in SUBSET (1 .. p), NEW x
        PROVE  s \ {x} \in SUBSET (1 .. p)
    OBVIOUS
  <2>7. ASSUME NEW s \in SUBSET (1 .. p)
        PROVE  g[s] = IF s = {} THEN b ELSE G[<<Max(s), g[s \ {Max(s)}]>>]
    <3>1. CASE p \in s
      <4>1. Max(s) = p
        <5>1. \A y \in s : y \in Int /\ p >= y
          BY <2>2
        <5>2. \A x \in s : (\A y \in s : x >= y) => x = p
          BY <2>2, <3>1
        <5>3. QED
          BY <3>1, <5>1, <5>2 DEF Max
      <4>2. p \notin s \ {p} /\ s \ {p} \in SUBSET (1 .. p)
        OBVIOUS
      <4>3. g[s \ {p}] = f[s \ {p}]
        BY <2>3, <4>2
      <4>4. QED
        BY <2>3, <3>1, <4>1, <4>3
    <3>2. CASE p \notin s
      <4>1. s \in SUBSET (1 .. m)
        BY <2>4, <3>2
      <4>2. PICK r : r = s \ {Max(s)}
        OBVIOUS
      <4>3. r \in SUBSET (1 .. p) /\ p \notin r
        BY <3>2, <4>2
      <4>4. g[s] = f[s] /\ g[r] = f[r]
        BY <2>3, <3>2, <4>3
      <4>5. QED
        BY <2>1, <4>1, <4>2, <4>4 DEF IsFold
    <3>3. QED
      BY <3>1, <3>2
  <2>8. IsFold(g, p, T, b, G)
    BY <2>5, <2>7 DEF IsFold
  <2>9. QED
    BY <1>1, <2>2, <2>8
<1>4. n \in S
  BY <1>2, <1>3, Upwards
<1>5. QED
  BY <1>1, <1>4

\* A set of some of the numbers up to n has a greatest one.
LEMMA GreatestIsIn ==
    ASSUME NEW n \in Nat, NEW s \in SUBSET (1 .. n), s # {}
    PROVE  Max(s) \in s
<1>1. PICK T : T = { n - x : x \in s }
  OBVIOUS
<1>2. T \in SUBSET Nat /\ T # {}
  <2>1. \A x \in s : n - x \in Nat
    OBVIOUS
  <2>2. PICK x : x \in s
    OBVIOUS
  <2>3. n - x \in T
    BY <1>1, <2>2
  <2>4. QED
    BY <1>1, <2>1, <2>3
<1>3. PICK y \in T : \A z \in T : y <= z
  BY <1>2, LeastElement
<1>4. PICK m \in s : y = n - m
  BY <1>1
<1>5. ASSUME NEW x \in s PROVE m >= x
  <2>1. n - x \in T
    BY <1>1
  <2>2. n - m <= n - x
    BY <1>3, <1>4, <2>1
  <2>3. m \in Nat /\ x \in Nat
    OBVIOUS
  <2>4. QED
    BY <2>2, <2>3
<1>6. QED
  BY <1>5 DEF Max

\* The first k numbers, as the fold sees them.
LEMMA Prefix ==
    ASSUME NEW n \in Nat, NEW k \in 1 .. n
    PROVE  /\ 1 .. k \in SUBSET (1 .. n) /\ 1 .. k # {}
           /\ (1 .. k) \ {k} = 1 .. k - 1 /\ Max(1 .. k) = k
<1>1. PICK s : s = 1 .. k
  OBVIOUS
<1>2. \A x \in s : x \in 1 .. n /\ x \in Int /\ k >= x
  BY <1>1
<1>3. k \in s /\ k \in Nat
  BY <1>1
<1>4. \A x : x \in s \ {k} <=> x \in 1 .. k - 1
  BY <1>1
<1>5. Max(s) = k
  <2>1. ASSUME NEW x \in s, \A y \in s : x >= y PROVE x = k
    <3>1. x >= k /\ k >= x /\ x \in Int
      BY <1>2, <1>3, <2>1
    <3>2. QED
      BY <1>3, <3>1
  <2>2. QED
    BY <1>2, <1>3, <2>1 DEF Max
<1>6. QED
  BY <1>1, <1>2, <1>3, <1>4, <1>5

\* A fold goes down by one element at a time and stays in its type.
LEMMA FoldStep ==
    ASSUME NEW n \in Nat, NEW T, NEW b, NEW G, NEW f, IsFold(f, n, T, b, G)
    PROVE  \A s \in SUBSET (1 .. n) : s # {} =>
               /\ Max(s) \in 1 .. n
               /\ f[s \ {Max(s)}] \in T
<1> TAKE s \in SUBSET (1 .. n)
<1> HAVE s # {}
<1>1. Max(s) \in s
  BY GreatestIsIn
<1>2. s \ {Max(s)} \in SUBSET (1 .. n)
  OBVIOUS
<1>3. QED
  BY <1>1, <1>2 DEF IsFold

\* f is given for 0, and from each number up to n for the next one.
IsRecursive(f, n, T, b, G) ==
    /\ f \in [0 .. n -> T]
    /\ f[0] = b
    /\ \A k \in Nat : k < n => f[k + 1] = G[<<k, f[k]>>]

\* Two that begin alike go on alike.
LEMMA RecursiveUnique ==
    ASSUME NEW n \in Nat, NEW m \in Nat, NEW T, NEW b, NEW G, NEW f, NEW g,
           IsRecursive(f, n, T, b, G), IsRecursive(g, m, T, b, G),
           NEW j \in Nat, j <= n, j <= m
    PROVE  f[j] = g[j]
<1>1. PICK S : S = { k \in Nat : f[k] = g[k] }
  OBVIOUS
<1>2. 0 \in S
  BY <1>1 DEF IsRecursive
<1>3. ASSUME NEW k \in Nat, k < j, k \in S PROVE k + 1 \in S
  <2>1. k < n /\ k < m
    BY <1>3
  <2>2. f[k + 1] = G[<<k, f[k]>>] /\ g[k + 1] = G[<<k, g[k]>>]
    BY <2>1 DEF IsRecursive
  <2>3. QED
    BY <1>1, <1>3, <2>2
<1>4. \A k \in 0 .. j : k \in S
  BY <1>2, <1>3, Upwards
<1>5. QED
  BY <1>1, <1>4

\* There is one for each number,
LEMMA RecursiveUpTo ==
    ASSUME NEW n \in Nat, NEW T, NEW b \in T, NEW G \in [Nat \X T -> T]
    PROVE  \E f : IsRecursive(f, n, T, b, G)
<1>1. PICK S : S = { m \in Nat : \E f : IsRecursive(f, m, T, b, G) }
  OBVIOUS
<1>2. 0 \in S
  <2>1. IsRecursive([k \in 0 .. 0 |-> b], 0, T, b, G)
    BY DEF IsRecursive
  <2>2. QED
    BY <1>1, <2>1
<1>3. ASSUME NEW m \in Nat, m < n, m \in S PROVE m + 1 \in S
  <2>1. PICK f : IsRecursive(f, m, T, b, G)
    BY <1>1, <1>3
  <2>2. PICK v \in T : v = G[<<m, f[m]>>]
    <3>1. f[m] \in T
      BY <2>1 DEF IsRecursive
    <3>2. QED
      BY <3>1
  <2>3. PICK g : g = [k \in 0 .. m + 1 |-> IF k = m + 1 THEN v ELSE f[k]]
    OBVIOUS
  <2>4. g \in [0 .. m + 1 -> T]
    <3>1. \A k \in 0 .. m + 1 : k # m + 1 => f[k] \in T
      BY <2>1 DEF IsRecursive
    <3>2. QED
      BY <2>3, <3>1
  <2>5. g[0] = b
    BY <2>1, <2>3 DEF IsRecursive
  <2>6. ASSUME NEW k \in Nat, k < m + 1 PROVE g[k + 1] = G[<<k, g[k]>>]
    <3>1. g[k] = f[k]
      <4>1. k \in 0 .. m + 1 /\ k # m + 1
        BY <2>6
      <4>2. QED
        BY <2>3, <4>1
    <3>2. CASE k = m
      <4>1. g[k + 1] = v
        <5>1. k + 1 \in 0 .. m + 1 /\ k + 1 = m + 1
          BY <3>2
        <5>2. QED
          BY <2>3, <5>1
      <4>2. QED
        BY <2>2, <3>1, <3>2, <4>1
    <3>3. CASE k < m
      <4>1. g[k + 1] = f[k + 1]
        BY <2>3, <3>3
      <4>2. f[k + 1] = G[<<k, f[k]>>]
        BY <2>1, <3>3 DEF IsRecursive
      <4>3. QED
        BY <3>1, <4>1, <4>2
    <3>4. QED
      BY <2>6, <3>2, <3>3
  <2>7. IsRecursive(g, m + 1, T, b, G)
    BY <2>4, <2>5, <2>6 DEF IsRecursive
  <2>8. QED
    BY <1>1, <2>7
<1>4. \A k \in 0 .. n : k \in S
  BY <1>2, <1>3, Upwards
<1>5. QED
  BY <1>1, <1>4

\* and one for all of them.
IsEndless(f, T, b, G) ==
    /\ f \in [Nat -> T]
    /\ f[0] = b
    /\ \A k \in Nat : f[k + 1] = G[<<k, f[k]>>]

LEMMA RecursiveExists ==
    ASSUME NEW T, NEW b \in T, NEW G \in [Nat \X T -> T]
    PROVE  \E f : IsEndless(f, T, b, G)
<1>1. PICK F : F = [n \in Nat |-> CHOOSE f : IsRecursive(f, n, T, b, G)]
  OBVIOUS
<1>2. ASSUME NEW n \in Nat PROVE IsRecursive(F[n], n, T, b, G)
  <2>1. \E f : IsRecursive(f, n, T, b, G)
    BY RecursiveUpTo
  <2>2. QED
    BY <1>1, <2>1
<1>3. PICK f : f = [n \in Nat |-> F[n][n]]
  OBVIOUS
<1>4. f \in [Nat -> T]
  <2>1. ASSUME NEW n \in Nat PROVE F[n][n] \in T
    BY <1>2 DEF IsRecursive
  <2>2. QED
    BY <1>3, <2>1
<1>5. f[0] = b
  BY <1>2, <1>3 DEF IsRecursive
<1>6. ASSUME NEW k \in Nat PROVE f[k + 1] = G[<<k, f[k]>>]
  <2>1. PICK n \in Nat : n = k + 1
    OBVIOUS
  <2>2. IsRecursive(F[n], n, T, b, G) /\ IsRecursive(F[k], k, T, b, G)
    BY <1>2
  <2>3. F[n][k] = F[k][k]
    BY <2>1, <2>2, RecursiveUnique
  <2>4. F[n][n] = G[<<k, F[n][k]>>]
    BY <2>1, <2>2 DEF IsRecursive
  <2>5. QED
    BY <1>3, <2>1, <2>3, <2>4
<1>7. QED
  BY <1>4, <1>5, <1>6 DEF IsEndless

-----------------------------------------------------------------------------
(* The timers.                                                             *)

TimerInd ==
    /\ ms \in Nat
    /\ began \in 0 .. ms
    /\ armed \in 0 .. ms
    /\ soft \in [start : Nat, running : BOOLEAN]
    /\ periodic \in [next : Nat, started : BOOLEAN]
    /\ soft.start = began % Wrap
    /\ periodic.started => periodic.next = (armed + Period) % Wrap

\* What a difference of two ticks says about the times they are of.
LEMMA ElapsedIs ==
    ASSUME NEW W \in Nat \ {0}, NEW m \in Nat, NEW b \in 0 .. m, m - b < W
    PROVE  ((m % W) + W - (b % W)) % W = m - b
<1>1. PICK q \in Nat, r \in 0 .. W - 1 : b = W * q + r /\ b % W = r
  BY Division
<1>2. PICK d \in 0 .. W - 1 : d = m - b
  OBVIOUS
<1>3. CASE r + d < W
  <2>1. PICK t \in 0 .. W - 1 : t = r + d
    BY <1>3
  <2>2. m = W * q + t
    BY <1>1, <1>2, <2>1
  <2>3. m % W = t
    BY <2>2, RemainderIs
  <2>4. (m % W) + W - (b % W) = W + d
    BY <1>1, <2>1, <2>3
  <2>5. QED
    BY <1>2, <2>4, SmallRemainder
<1>4. CASE ~(r + d < W)
  <2>1. PICK t \in 0 .. W - 1 : t = r + d - W
    BY <1>4
  <2>2. PICK s \in Nat : s = q + 1
    OBVIOUS
  <2>3. W * s = W * q + W
    BY <2>2
  <2>4. m = W * s + t
    BY <1>1, <1>2, <2>1, <2>3
  <2>5. m % W = t
    BY <2>4, RemainderIs
  <2>6. (m % W) + W - (b % W) = d
    BY <1>1, <2>1, <2>5
  <2>7. QED
    BY <1>2, <2>6, SmallRemainder
<1>5. QED
  BY <1>3, <1>4

\* Within one turn of the counter, ticks compare as the times do.
LEMMA SameTurn ==
    ASSUME NEW W \in Nat \ {0}, NEW a \in Nat, NEW m \in Nat, a \div W = m \div W
    PROVE  m % W >= a % W <=> m >= a
<1>1. PICK q \in Nat, r \in 0 .. W - 1 : a = W * q + r /\ a \div W = q /\ a % W = r
  BY Division
<1>2. PICK p \in Nat, t \in 0 .. W - 1 : m = W * p + t /\ m \div W = p /\ m % W = t
  BY Division
<1>3. W * q = W * p /\ W * q \in Nat
  BY <1>1, <1>2
<1>4. QED
  BY <1>1, <1>2, <1>3

LEMMA TimerStart == TimerInit => TimerInd
<1>1. 0 % Wrap = 0
  BY TimerConstants, SmallRemainder
<1>2. QED
  BY <1>1 DEF TimerInit, TimerInd

LEMMA TimerStep == TimerInd /\ [TimerNext]_timerVars => TimerInd'
<1> SUFFICES ASSUME TimerInd, [TimerNext]_timerVars PROVE TimerInd'
  OBVIOUS
<1>1. Wrap \in Nat \ {0} /\ Period \in Nat
  BY TimerConstants
<1>2. ms \in Nat /\ ms % Wrap \in Nat
  BY <1>1 DEF TimerInd
<1>3. After(GetTickMs) = (ms + Period) % Wrap /\ After(GetTickMs) \in Nat
  <2>1. ((ms % Wrap) + Period) % Wrap = (ms + Period) % Wrap
    BY <1>1, <1>2, RemainderOfSum
  <2>2. (ms + Period) % Wrap \in Nat
    BY <1>1, <1>2
  <2>3. QED
    BY <2>1, <2>2 DEF After, GetTickMs
<1>4. CASE TimePasses
  BY <1>2, <1>4 DEF TimePasses, TimerInd
<1>5. CASE SoftStart
  BY <1>2, <1>5 DEF SoftStart, TimerInd, GetTickMs
<1>6. CASE SoftStop
  BY <1>6 DEF SoftStop, TimerInd
<1>7. CASE SoftRestart
  BY <1>2, <1>7 DEF SoftRestart, TimerInd, GetTickMs
<1>8. CASE PeriodicStart
  BY <1>2, <1>3, <1>8 DEF PeriodicStart, TimerInd
<1>9. CASE PeriodicTick
  <2>1. CASE Due
    BY <1>2, <1>3, <1>9, <2>1 DEF PeriodicTick, TimerInd, Due
  <2>2. CASE ~Due
    BY <1>9, <2>2 DEF PeriodicTick, TimerInd
  <2>3. QED
    BY <2>1, <2>2
<1>10. CASE UNCHANGED timerVars
  BY <1>10 DEF timerVars, TimerInd
<1>11. QED
  BY <1>4, <1>5, <1>6, <1>7, <1>8, <1>9, <1>10 DEF TimerNext

\* A step of the library is one of the timers or leaves them alone.
LEMMA TimerPart == [LibraryNext]_libraryVars => [TimerNext]_timerVars
BY DEF LibraryNext, libraryVars

LEMMA TimerInvariant == LibrarySpec => []TimerInd
<1>1. LibraryInit => TimerInd
  BY TimerStart DEF LibraryInit
<1>2. TimerInd /\ [LibraryNext]_libraryVars => TimerInd'
  BY TimerPart, TimerStep
<1>3. QED
  BY <1>1, <1>2, PTL DEF LibrarySpec

\* hal_timer.hpp, SoftTimer: across any number of wraps of the tick, elapsed_ms()
\* is the time since the start and is_expired() says whether the time-out has
\* passed, until a whole turn of the counter has gone by.
THEOREM SoftTimerExact == LibrarySpec => []SoftExact
<1>1. TimerInd => SoftExact
  <2> SUFFICES ASSUME TimerInd, soft.running, ms - began < Wrap
               PROVE  /\ ElapsedMs = ms - began
                      /\ \A t \in Timeouts : IsExpired(t) <=> ms - began >= t
    BY DEF SoftExact
  <2>1. (GetTickMs + Wrap - soft.start) % Wrap = ms - began
    <3>1. /\ Wrap \in Nat \ {0} /\ ms \in Nat /\ began \in 0 .. ms
          /\ soft.start = began % Wrap
      BY TimerConstants DEF TimerInd
    <3>2. ((ms % Wrap) + Wrap - (began % Wrap)) % Wrap = ms - began
      BY <3>1, ElapsedIs
    <3>3. QED
      BY <3>1, <3>2 DEF GetTickMs
  <2>2. QED
    BY <2>1 DEF ElapsedMs, IsExpired, IsElapsed
<1>2. QED
  BY <1>1, TimerInvariant, PTL

\* hal_timer.hpp, PeriodicTimer: within the turn of the counter it is due in, the
\* timer is due exactly from a period after it was armed on.
THEOREM PeriodicTimerExact == LibrarySpec => []PeriodicExact
<1>1. TimerInd => PeriodicExact
  <2> SUFFICES ASSUME TimerInd, periodic.started,
                      (armed + Period) \div Wrap = ms \div Wrap
               PROVE  Due <=> ms >= armed + Period
    BY DEF PeriodicExact
  <2>1. PICK a \in Nat : a = armed + Period
    BY TimerConstants DEF TimerInd
  <2>2. ms \in Nat /\ periodic.next = a % Wrap
    BY <2>1 DEF TimerInd
  <2>3. ms % Wrap >= a % Wrap <=> ms >= a
    BY <2>1, <2>2, TimerConstants, SameTurn
  <2>4. QED
    BY <2>1, <2>2, <2>3 DEF Due, GetTickMs
<1>2. QED
  BY <1>1, TimerInvariant, PTL

-----------------------------------------------------------------------------
(* Words.                                                                  *)

\* Two words agree under a mask when each of its bits is in both or in none.
LEMMA AgreeUnder ==
    ASSUME NEW v, NEW w, NEW mask
    PROVE  Xor(v, w) \cap mask = {} <=> \A b \in mask : b \in v <=> b \in w
BY DEF Xor

LEMMA ShiftedBit ==
    ASSUME NEW v \in SUBSET Int, NEW n \in Int, NEW width \in Int
    PROVE  \A c \in Int : c \in ShiftLeft(v, n, width) <=> c \in Bits(width) /\ c - n \in v
<1> TAKE c \in Int
<1>1. ASSUME c \in ShiftLeft(v, n, width) PROVE c \in Bits(width) /\ c - n \in v
  <2>1. PICK b \in v : c = b + n
    BY <1>1 DEF ShiftLeft
  <2>2. c - n = b
    BY <2>1
  <2>3. QED
    BY <1>1, <2>2 DEF ShiftLeft
<1>2. ASSUME c \in Bits(width), c - n \in v PROVE c \in ShiftLeft(v, n, width)
  <2>1. c = (c - n) + n
    OBVIOUS
  <2>2. QED
    BY <1>2, <2>1 DEF ShiftLeft
<1>3. QED
  BY <1>1, <1>2

-----------------------------------------------------------------------------
(* The acceptance filters.                                                 *)

Word29 == SUBSET Bits(29)

\* The registers are those of the filter that was asked for.
Registers ==
    IF driver = "H7" THEN FdFilter(request.id, request.mask, request.extended)
    ELSE IF request.extended THEN ExtendedFilter(request.id, request.mask)
    ELSE StandardFilter(request.id, request.mask)

FrameHeader(by, f) == IF by = "H7" THEN FdHeader(f) ELSE BxHeader(f)

FilterRule ==
    /\ driver \in Drivers /\ fifo \in 0 .. 1
    /\ request \in [id : Word29, mask : Word29, extended : BOOLEAN]
    /\ filter = Registers
    /\ driver = "H7" /\ ~request.extended => request.id \cup request.mask \subseteq Bits(11)

\* What arrived is what sender and filter, which are still the same, make of
\* the frame.
FrameRule ==
    sent # NoFrame =>
        /\ sent.by \in Drivers
        /\ sent.frame \in Frame
        /\ got = IF (sent.by = "F1" /\ silent) \/ ~Accepted(FrameHeader(sent.by, sent.frame))
                 THEN NoFrame ELSE FrameHeader(sent.by, sent.frame)

PortInd == FilterRule /\ FrameRule

LEMMA FrameFacts ==
    ASSUME NEW f \in Frame, NEW by \in Drivers
    PROVE  /\ f.id \in Word29 /\ f.extended \in BOOLEAN /\ f.dlc \in 0 .. 8
           /\ FrameHeader(by, f) = [f EXCEPT !.id = Low(@, Width(f.extended))]
           /\ FrameHeader(by, f).id = Low(f.id, Width(f.extended))
           /\ FrameHeader(by, f).extended = f.extended
           /\ FrameHeader(by, f) # NoFrame
<1>1. f.id \in Word29 /\ f.extended \in BOOLEAN /\ f.dlc \in 0 .. 8
  BY PortConstants DEF Frame, Word29
<1>2. Low(f.id, 29) = f.id
  BY <1>1 DEF Low, Word29
<1>3. FrameHeader(by, f) = [f EXCEPT !.id = Low(@, Width(f.extended))]
  BY <1>1, <1>2 DEF FrameHeader, FdHeader, BxHeader, Width, Frame
<1>4. Low(f.id, Width(f.extended)) \in Word29
  BY <1>1 DEF Low, Word29
<1>5. /\ FrameHeader(by, f).id = Low(f.id, Width(f.extended))
      /\ FrameHeader(by, f).extended = f.extended
      /\ FrameHeader(by, f) \in [id : Word29, dlc : 0 .. 8, extended : BOOLEAN]
  BY <1>1, <1>3, <1>4 DEF Frame
<1>6. QED
  BY <1>1, <1>3, <1>5, PortConstants DEF Word29

\* Both halves of a filter register together are the word shifted by 3, and IDE.
LEMMA Halves ==
    ASSUME NEW w \in Word29
    PROVE  ShiftLeft(Low(ShiftRight(w, 13), 16), 16, 32) \cup Low(ShiftLeft(w, 3, 32) \cup {2}, 16)
           = ShiftLeft(w, 3, 32) \cup {2}
<1>1. w \subseteq Int /\ \A b \in w : b \in 0 .. 28
  BY DEF Word29, Bits
<1>2. PICK high : high = Low(ShiftRight(w, 13), 16)
  OBVIOUS
<1>3. \A c \in Int : c \in high <=> c >= 0 /\ c + 13 \in w
  <2>1. ASSUME NEW c \in Int, c \in high PROVE c >= 0 /\ c + 13 \in w
    <3>1. PICK b \in w : b >= 13 /\ c = b - 13
      BY <1>2, <2>1 DEF Low, ShiftRight
    <3>2. c + 13 = b
      BY <1>1, <3>1
    <3>3. QED
      BY <1>1, <3>1, <3>2
  <2>2. ASSUME NEW c \in Int, c >= 0, c + 13 \in w PROVE c \in high
    <3>1. PICK b \in w : b = c + 13
      BY <2>2
    <3>2. b >= 13 /\ c = b - 13 /\ c \in 0 .. 15
      BY <1>1, <2>2, <3>1
    <3>3. QED
      BY <1>2, <3>2 DEF Low, ShiftRight, Bits
  <2>3. QED
    BY <2>1, <2>2
<1>4. high \subseteq Int
  BY <1>2 DEF Low, Bits
<1>5. PICK up : up = ShiftLeft(high, 16, 32)
  OBVIOUS
<1>6. PICK all : all = ShiftLeft(w, 3, 32)
  OBVIOUS
<1>7. \A c \in Int : c \in all <=> c \in 0 .. 31 /\ c - 3 \in w
  <2>1. \A c \in Int : c \in ShiftLeft(w, 3, 32) <=> c \in Bits(32) /\ c - 3 \in w
    <3>1. w \in SUBSET Int /\ 3 \in Int /\ 32 \in Int
      BY <1>1
    <3>2. QED
      BY <3>1, ShiftedBit
  <2>2. Bits(32) = 0 .. 31
    BY DEF Bits
  <2>3. QED
    BY <1>6, <2>1, <2>2
<1>8. \A c \in Int : c \in up <=> c \in 0 .. 31 /\ c - 16 \in high
  <2>1. \A c \in Int : c \in ShiftLeft(high, 16, 32) <=> c \in Bits(32) /\ c - 16 \in high
    <3>1. high \in SUBSET Int /\ 16 \in Int /\ 32 \in Int
      BY <1>4
    <3>2. QED
      BY <3>1, ShiftedBit
  <2>2. Bits(32) = 0 .. 31
    BY DEF Bits
  <2>3. QED
    BY <1>5, <2>1, <2>2
<1>9. \A c \in Int : c \in up <=> c >= 16 /\ c \in all
  <2> TAKE c \in Int
  <2>1. c - 16 \in Int /\ (c - 16) + 13 = c - 3
    OBVIOUS
  <2>2. c - 16 \in high <=> c >= 16 /\ c - 3 \in w
    BY <1>3, <2>1
  <2>3. QED
    BY <1>7, <1>8, <2>2
<1>10. up \subseteq Int /\ all \subseteq Int
  BY <1>5, <1>6 DEF ShiftLeft, Bits
<1>11. up \cup Low(all \cup {2}, 16) = all \cup {2}
  <2>1. \A c \in Int : c \in Low(all \cup {2}, 16) <=> c \in 0 .. 15 /\ c \in all \cup {2}
    BY DEF Low, Bits
  <2>2. \A c \in Int : c \in up \cup Low(all \cup {2}, 16) <=> c \in all \cup {2}
    BY <1>7, <1>9, <2>1
  <2>3. Low(all \cup {2}, 16) \subseteq Int
    BY DEF Low, Bits
  <2>4. PICK a, b : a = up \cup Low(all \cup {2}, 16) /\ b = all \cup {2}
    OBVIOUS
  <2>5. a \subseteq Int /\ b \subseteq Int
    <3>1. {2} \subseteq Int
      OBVIOUS
    <3>2. QED
      BY <1>10, <2>3, <2>4, <3>1
  <2>6. \A c \in Int : c \in a <=> c \in b
    BY <2>2, <2>4
  <2>7. a = b
    BY <2>5, <2>6
  <2>8. QED
    BY <2>4, <2>7
<1>12. QED
  BY <1>2, <1>5, <1>6, <1>11

\* A standard identifier is moved in two steps.
LEMMA TwoShifts ==
    ASSUME NEW w \in SUBSET Bits(11)
    PROVE  ShiftLeft(ShiftLeft(w, 5, 16), 16, 32) = ShiftLeft(w, 21, 32)
<1>1. w \in SUBSET Int /\ \A b \in w : b \in 0 .. 10
  BY DEF Bits
<1>2. Bits(16) = 0 .. 15 /\ Bits(32) = 0 .. 31
  BY DEF Bits
<1>3. PICK low : low = ShiftLeft(w, 5, 16)
  OBVIOUS
<1>4. \A c \in Int : c \in low <=> c \in 0 .. 15 /\ c - 5 \in w
  <2>1. 5 \in Int /\ 16 \in Int
    OBVIOUS
  <2>2. QED
    BY <1>1, <1>2, <1>3, <2>1, ShiftedBit
<1>5. low \in SUBSET Int
  BY <1>2, <1>3 DEF ShiftLeft
<1>6. PICK twice, once : twice = ShiftLeft(low, 16, 32) /\ once = ShiftLeft(w, 21, 32)
  OBVIOUS
<1>7. \A c \in Int : c \in twice <=> c \in 0 .. 31 /\ c - 16 \in low
  <2>1. 16 \in Int /\ 32 \in Int
    OBVIOUS
  <2>2. QED
    BY <1>2, <1>5, <1>6, <2>1, ShiftedBit
<1>8. \A c \in Int : c \in once <=> c \in 0 .. 31 /\ c - 21 \in w
  <2>1. 21 \in Int /\ 32 \in Int
    OBVIOUS
  <2>2. QED
    BY <1>1, <1>2, <1>6, <2>1, ShiftedBit
<1>9. ASSUME NEW c \in Int PROVE c \in twice <=> c \in once
  <2>1. PICK d \in Int : d = c - 16
    OBVIOUS
  <2>2. d - 5 = c - 21
    BY <2>1
  <2>3. d \in low <=> d \in 0 .. 15 /\ c - 21 \in w
    BY <1>4, <2>2
  <2>4. c - 21 \in w => c - 21 \in 0 .. 10
    BY <1>1
  <2>5. c - 21 \in 0 .. 10 => d \in 0 .. 15
    BY <2>1
  <2>6. QED
    BY <1>7, <1>8, <2>1, <2>3, <2>4, <2>5
<1>10. twice \subseteq Int /\ once \subseteq Int
  BY <1>2, <1>6 DEF ShiftLeft
<1>11. twice = once
  BY <1>9, <1>10
<1>12. QED
  BY <1>3, <1>6, <1>11

\* Words agree under a mask when they do after all three are moved.
LEMMA MovedAgree ==
    ASSUME NEW size \in Nat, NEW n \in Nat, size + n <= 32,
           NEW v \in SUBSET Bits(size), NEW w \in SUBSET Bits(size),
           NEW mask \in SUBSET Bits(size)
    PROVE  (\A c \in ShiftLeft(mask, n, 32) : c \in ShiftLeft(v, n, 32) <=> c \in ShiftLeft(w, n, 32))
           <=> \A b \in mask : b \in v <=> b \in w
<1>1. Bits(size) = 0 .. size - 1 /\ Bits(32) = 0 .. 31 /\ 32 \in Int /\ n \in Int
  BY DEF Bits
<1>2. v \in SUBSET Int /\ w \in SUBSET Int /\ mask \in SUBSET Int
  BY <1>1
<1>3. PICK V : V = ShiftLeft(v, n, 32)
  OBVIOUS
<1>4. PICK W : W = ShiftLeft(w, n, 32)
  OBVIOUS
<1>5. PICK M : M = ShiftLeft(mask, n, 32)
  OBVIOUS
<1>6. \A c \in Int : c \in V <=> c \in 0 .. 31 /\ c - n \in v
  <2>1. \A c \in Int : c \in ShiftLeft(v, n, 32) <=> c \in Bits(32) /\ c - n \in v
    BY <1>1, <1>2, ShiftedBit
  <2>2. QED
    BY <1>1, <1>3, <2>1
<1>7. \A c \in Int : c \in W <=> c \in 0 .. 31 /\ c - n \in w
  <2>1. \A c \in Int : c \in ShiftLeft(w, n, 32) <=> c \in Bits(32) /\ c - n \in w
    BY <1>1, <1>2, ShiftedBit
  <2>2. QED
    BY <1>1, <1>4, <2>1
<1>8. \A c \in Int : c \in M <=> c \in 0 .. 31 /\ c - n \in mask
  <2>1. \A c \in Int : c \in ShiftLeft(mask, n, 32) <=> c \in Bits(32) /\ c - n \in mask
    BY <1>1, <1>2, ShiftedBit
  <2>2. QED
    BY <1>1, <1>5, <2>1
<1>9. M \subseteq 0 .. 31
  BY <1>1, <1>5 DEF ShiftLeft
<1>10. ASSUME \A c \in M : c \in V <=> c \in W, NEW b \in mask
       PROVE  b \in v <=> b \in w
  <2>1. b \in 0 .. size - 1
    BY <1>1
  <2>2. PICK c \in 0 .. 31 : c = b + n /\ c - n = b
    BY <2>1
  <2>3. c \in M
    BY <1>8, <1>10, <2>2
  <2>4. QED
    BY <1>6, <1>7, <1>10, <2>2, <2>3
<1>11. ASSUME \A b \in mask : b \in v <=> b \in w, NEW c \in M
       PROVE  c \in V <=> c \in W
  <2>1. c \in 0 .. 31 /\ c - n \in mask
    BY <1>8, <1>9
  <2>2. QED
    BY <1>6, <1>7, <1>11, <2>1
<1>12. QED
  BY <1>3, <1>4, <1>5, <1>10, <1>11

\* A bxCAN filter lets v pass: it is programmed for w and mask, moved by n, and
\* looks at bit low besides, which v and w both have or both lack.
Passes(v, w, mask, n, low, extra) ==
    Xor(ShiftLeft(v, n, 32) \cup extra, ShiftLeft(w, n, 32) \cup extra)
        \cap (ShiftLeft(mask, n, 32) \cup {low}) = {}

\* It compares the words themselves.
LEMMA MovedFilter ==
    ASSUME NEW n \in 0 .. 32, NEW low \in 0 .. n - 1,
           NEW v \in SUBSET Bits(32 - n), NEW w \in SUBSET Bits(32 - n),
           NEW mask \in SUBSET Bits(32 - n), NEW extra \in SUBSET {low}
    PROVE  Passes(v, w, mask, n, low, extra) <=> Xor(v, w) \cap mask = {}
<1>0. PICK size \in Nat : size = 32 - n
  OBVIOUS
<1>1. PICK V, W, M : V = ShiftLeft(v, n, 32) /\ W = ShiftLeft(w, n, 32) /\ M = ShiftLeft(mask, n, 32)
  OBVIOUS
<1>2. (\A c \in M : c \in V <=> c \in W) <=> \A b \in mask : b \in v <=> b \in w
  <2>1. /\ v \in SUBSET Bits(size) /\ w \in SUBSET Bits(size) /\ mask \in SUBSET Bits(size)
        /\ n \in Nat /\ size + n <= 32
    BY <1>0
  <2>2. QED
    BY <1>1, <2>1, MovedAgree
<1>3. ASSUME NEW u \in SUBSET Bits(32 - n) PROVE low \notin ShiftLeft(u, n, 32)
  <2>1. u \in SUBSET Int /\ n \in Int /\ 32 \in Int /\ low \in Int
    BY DEF Bits
  <2>2. \A c \in Int : c \in ShiftLeft(u, n, 32) <=> c \in Bits(32) /\ c - n \in u
    BY <2>1, ShiftedBit
  <2>3. \A b \in u : b >= 0
    BY DEF Bits
  <2>4. low - n \notin u
    BY <2>3
  <2>5. QED
    BY <2>1, <2>2, <2>4
<1>4. low \notin V /\ low \notin W /\ low \notin M
  BY <1>1, <1>3
<1>5. (\A c \in M \cup {low} : c \in V \cup extra <=> c \in W \cup extra)
      <=> \A c \in M : c \in V <=> c \in W
  BY <1>4
<1>6. Xor(V \cup extra, W \cup extra) \cap (M \cup {low}) = {}
      <=> \A c \in M \cup {low} : c \in V \cup extra <=> c \in W \cup extra
  <2>1. PICK a, b, m : a = V \cup extra /\ b = W \cup extra /\ m = M \cup {low}
    OBVIOUS
  <2>2. Xor(a, b) \cap m = {} <=> \A c \in m : c \in a <=> c \in b
    BY AgreeUnder
  <2>3. QED
    BY <2>1, <2>2
<1>7. Xor(v, w) \cap mask = {} <=> \A b \in mask : b \in v <=> b \in w
  BY AgreeUnder
<1>8. QED
  BY <1>1, <1>2, <1>5, <1>6, <1>7 DEF Passes

\* What Matches says in terms of the frame on the bus.
LEMMA MatchesBy ==
    ASSUME FilterRule, NEW f \in Frame, NEW by \in Drivers
    PROVE  Matches(f) <=>
               /\ f.extended = request.extended
               /\ Xor(FrameHeader(by, f).id, Low(request.id, Width(f.extended)))
                      \cap Low(request.mask, Width(f.extended)) = {}
BY FrameFacts DEF Matches

LEMMA AcceptedByFd ==
    ASSUME FilterRule, driver = "H7", NEW f \in Frame, NEW by \in Drivers
    PROVE  Accepted(FrameHeader(by, f)) <=> Matches(f) \/ fifo = 0
<1>1. filter = [value |-> request.id, mask |-> request.mask, extended |-> request.extended]
  BY DEF FilterRule, Registers, FdFilter
<1>2. Low(request.id, Width(request.extended)) = request.id
      /\ Low(request.mask, Width(request.extended)) = request.mask
  <2>1. CASE request.extended
    BY <2>1 DEF Low, Width, Word29, FilterRule
  <2>2. CASE ~request.extended
    BY <2>2 DEF Low, Width, FilterRule
  <2>3. QED
    BY <2>1, <2>2
<1>3. FrameHeader(by, f).extended = f.extended
  BY FrameFacts
<1>4. QED
  BY <1>1, <1>2, <1>3, MatchesBy DEF Accepted, Element

LEMMA AcceptedByExtended ==
    ASSUME FilterRule, driver # "H7", request.extended, NEW f \in Frame, NEW by \in Drivers
    PROVE  Accepted(FrameHeader(by, f)) <=> Matches(f)
<1>1. request.id \in Word29 /\ request.mask \in Word29
  BY DEF FilterRule
<1>2. filter.value = ShiftLeft(request.id, 3, 32) \cup {2}
      /\ filter.mask = ShiftLeft(request.mask, 3, 32) \cup {2}
  <2>1. filter = ExtendedFilter(request.id, request.mask)
    BY DEF FilterRule, Registers
  <2>2. QED
    BY <1>1, <2>1, Halves DEF ExtendedFilter
<1>3. PICK h : h = FrameHeader(by, f)
  OBVIOUS
<1>4. h.id = Low(f.id, Width(f.extended)) /\ h.extended = f.extended
      /\ f.id \in Word29 /\ f.extended \in BOOLEAN
  BY <1>3, FrameFacts
<1>5. CASE f.extended
  <2>1. h.id \in Word29 /\ h.id \in SUBSET Bits(29)
    BY <1>4 DEF Low, Word29
  <2>2. Accepted(h) <=> Xor(ShiftLeft(h.id, 3, 32) \cup {2}, ShiftLeft(request.id, 3, 32) \cup {2})
                              \cap (ShiftLeft(request.mask, 3, 32) \cup {2}) = {}
    BY <1>2, <1>4, <1>5 DEF Accepted, BxRegister
  <2>3. Accepted(h) <=> Xor(h.id, request.id) \cap request.mask = {}
    <3>1. PICK n, low, extra : n = 3 /\ low = 2 /\ extra = {2}
      OBVIOUS
    <3>2. PICK v, mask, own : v = request.id /\ mask = request.mask /\ own = h.id
      OBVIOUS
    <3>3. n \in 0 .. 32 /\ low \in 0 .. n - 1 /\ extra \in SUBSET {low} /\ 32 - n = 29
      BY <3>1
    <3>4. /\ v \in SUBSET Bits(32 - n) /\ mask \in SUBSET Bits(32 - n)
          /\ own \in SUBSET Bits(32 - n)
      BY <1>1, <2>1, <3>2, <3>3 DEF Word29
    <3>5. Passes(own, v, mask, n, low, extra) <=> Xor(own, v) \cap mask = {}
      BY <3>3, <3>4, MovedFilter
    <3>6. Accepted(h) <=> Passes(own, v, mask, n, low, extra)
      BY <2>2, <3>1, <3>2 DEF Passes
    <3>7. QED
      BY <3>2, <3>5, <3>6
  <2>4. Low(request.id, Width(f.extended)) = request.id
        /\ Low(request.mask, Width(f.extended)) = request.mask
    BY <1>1, <1>5 DEF Low, Width, Word29
  <2>5. QED
    BY <1>3, <1>5, <2>3, <2>4, MatchesBy
<1>6. CASE ~f.extended
  <2>1. 2 \notin ShiftLeft(h.id, 21, 32)
    <3>1. h.id \in SUBSET Int /\ (\A b \in h.id : b >= 0) /\ 21 \in Int /\ 32 \in Int /\ 2 \in Int
      BY <1>4 DEF Low, Word29, Bits
    <3>2. \A c \in Int : c \in ShiftLeft(h.id, 21, 32) <=> c \in Bits(32) /\ c - 21 \in h.id
      BY <3>1, ShiftedBit
    <3>3. 2 - 21 \notin h.id
      BY <3>1
    <3>4. QED
      BY <3>1, <3>2, <3>3
  <2>2. 2 \in Xor(BxRegister(h), filter.value) \cap filter.mask
    BY <1>2, <1>4, <1>6, <2>1 DEF Xor, BxRegister
  <2>3. ~Accepted(h)
    BY <2>2 DEF Accepted
  <2>4. QED
    BY <1>3, <1>6, <2>3, MatchesBy
<1>7. QED
  BY <1>4, <1>5, <1>6

LEMMA AcceptedByStandard ==
    ASSUME FilterRule, driver # "H7", ~request.extended,
           NEW f \in Frame, ~f.extended, NEW by \in Drivers
    PROVE  Accepted(FrameHeader(by, f)) <=> Matches(f)
<1>1. PICK id, mask : id = Low(request.id, 11) /\ mask = Low(request.mask, 11)
  OBVIOUS
<1>2. id \in SUBSET Bits(11) /\ mask \in SUBSET Bits(11)
  BY <1>1 DEF Low
<1>3. filter.value = ShiftLeft(id, 21, 32) /\ filter.mask = ShiftLeft(mask, 21, 32) \cup {1}
  <2>1. filter = StandardFilter(request.id, request.mask)
    BY DEF FilterRule, Registers
  <2>2. QED
    BY <1>1, <1>2, <2>1, TwoShifts DEF StandardFilter
<1>4. PICK h : h = FrameHeader(by, f)
  OBVIOUS
<1>5. h.id = Low(f.id, 11) /\ h.extended = f.extended
  BY <1>4, FrameFacts DEF Width
<1>6. h.id \in SUBSET Bits(11)
  BY <1>5 DEF Low
<1>7. Accepted(h) <=> Xor(ShiftLeft(h.id, 21, 32) \cup {}, ShiftLeft(id, 21, 32) \cup {})
                            \cap (ShiftLeft(mask, 21, 32) \cup {1}) = {}
  <2>1. \A w : w \cup {} = w
    OBVIOUS
  <2>2. QED
    BY <1>3, <1>5, <2>1 DEF Accepted, BxRegister
<1>8. Accepted(h) <=> Xor(h.id, id) \cap mask = {}
  <2>1. PICK n, low, own, extra : n = 21 /\ low = 1 /\ own = h.id /\ extra = {}
    OBVIOUS
  <2>2. n \in 0 .. 32 /\ low \in 0 .. n - 1 /\ extra \in SUBSET {low} /\ 32 - n = 11
    BY <2>1
  <2>3. /\ own \in SUBSET Bits(32 - n) /\ id \in SUBSET Bits(32 - n)
        /\ mask \in SUBSET Bits(32 - n)
    BY <1>2, <1>6, <2>1, <2>2
  <2>4. Passes(own, id, mask, n, low, extra) <=> Xor(own, id) \cap mask = {}
    BY <2>2, <2>3, MovedFilter
  <2>5. Accepted(h) <=> Passes(own, id, mask, n, low, extra)
    BY <1>7, <2>1 DEF Passes
  <2>6. QED
    BY <2>1, <2>4, <2>5
<1>9. f.extended = request.extended
  BY FrameFacts DEF FilterRule
<1>10. QED
  BY <1>1, <1>4, <1>8, <1>9, MatchesBy DEF Width

\* Accepted is what was meant, where the filter can keep the rest out.
LEMMA AcceptedWhen ==
    ASSUME FilterRule, NEW f \in Frame, NEW by \in Drivers
    PROVE  /\ Matches(f) => Accepted(FrameHeader(by, f))
           /\ Accepted(FrameHeader(by, f)) /\ Guarded(f) => Matches(f)
<1>1. Matches(f) => f.extended = request.extended
  BY DEF Matches
<1>2. CASE driver = "H7"
  BY <1>2, AcceptedByFd DEF Guarded, FilterRule
<1>3. CASE driver # "H7" /\ request.extended
  BY <1>3, AcceptedByExtended
<1>4. CASE driver # "H7" /\ ~request.extended
  <2>1. CASE f.extended
    BY <1>1, <1>4, <2>1 DEF Guarded
  <2>2. CASE ~f.extended
    BY <1>4, <2>2, AcceptedByStandard
  <2>3. QED
    BY <2>1, <2>2
<1>5. QED
  BY <1>2, <1>3, <1>4

LEMMA PortStart == LibraryInit => PortInd
<1> SUFFICES ASSUME LibraryInit PROVE PortInd
  OBVIOUS
<1> USE DEF LibraryInit, PortInit
<1>1. NoRequest \in [id : Word29, mask : Word29, extended : BOOLEAN]
  BY DEF NoRequest, Word29
<1>2. FilterRule
  BY <1>1 DEF FilterRule, Registers, Drivers, NoRequest
<1>3. FrameRule
  BY DEF FrameRule
<1>4. QED
  BY <1>2, <1>3 DEF PortInd

LEMMA PortStep == PortInd /\ PortNext => PortInd'
<1> SUFFICES ASSUME PortInd, PortNext PROVE PortInd'
  OBVIOUS
<1>1. FilterRule /\ FrameRule
  BY DEF PortInd
<1>2. CASE \E d \in Drivers, n \in 0 .. 1, id \in Ids, mask \in Masks, extended \in BOOLEAN :
               ConfigureFilter(d, n, id, mask, extended)
  <2>1. PICK d \in Drivers, n \in 0 .. 1, id \in Ids, mask \in Masks, extended \in BOOLEAN :
            ConfigureFilter(d, n, id, mask, extended)
    BY <1>2
  <2>2. id \in Word29 /\ mask \in Word29
    BY PortConstants DEF Word29
  <2>3. FilterRule'
    BY <2>1, <2>2 DEF ConfigureFilter, FilterRule, Registers
  <2>4. FrameRule'
    BY <2>1 DEF ConfigureFilter, FrameRule
  <2>5. QED
    BY <2>3, <2>4 DEF PortInd
<1>3. CASE SetSilentMode
  BY <1>1, <1>3 DEF SetSilentMode, PortInd, FilterRule, FrameRule, Registers
<1>4. CASE \E by \in Drivers, f \in Frame : Exchange(by, f)
  <2>1. PICK by \in Drivers, f \in Frame : Exchange(by, f)
    BY <1>4
  <2>2. FilterRule'
    BY <1>1, <2>1 DEF Exchange, FilterRule, Registers
  <2>3. /\ sent' = [by |-> by, frame |-> f]
        /\ driver' = driver /\ fifo' = fifo /\ filter' = filter /\ silent' = silent
        /\ got' = IF (by = "F1" /\ silent) \/ ~Accepted(FrameHeader(by, f)) THEN NoFrame ELSE FrameHeader(by, f)
    BY <2>1 DEF Exchange, FrameHeader
  <2>4. Accepted(FrameHeader(by, f))' <=> Accepted(FrameHeader(by, f))
    BY <2>3 DEF Accepted, Element, FrameHeader, BxHeader, FdHeader
  <2>5. FrameRule'
    BY <2>3, <2>4 DEF FrameRule, Accepted, Element, FrameHeader, BxHeader, FdHeader
  <2>6. QED
    BY <2>2, <2>5 DEF PortInd
<1>5. QED
  BY <1>2, <1>3, <1>4 DEF PortNext

LEMMA PortPart == PortInd /\ [LibraryNext]_libraryVars => PortInd'
<1> SUFFICES ASSUME PortInd, [LibraryNext]_libraryVars PROVE PortInd'
  OBVIOUS
<1>1. CASE PortNext
  BY <1>1, PortStep
<1>2. CASE UNCHANGED portVars
  BY <1>2 DEF portVars, PortInd, FilterRule, FrameRule, Registers, Accepted, Element
<1>3. QED
  BY <1>1, <1>2 DEF LibraryNext, libraryVars

LEMMA PortInvariant == LibrarySpec => []PortInd
BY PortStart, PortPart, PTL DEF LibrarySpec

\* For filters, identifiers and masks of any kind: what reaches the other driver is
\* the frame with its identifier cut to its width; a frame that the filter asked for
\* by configure_filter() means arrives, unless the sender is silent; and no
\* other does, at bxCAN if it is of the filter's kind or the filter is an extended
\* one, at FDCAN if the driver reads FIFO 1.
THEOREM FiltersRight == LibrarySpec => []FilterRight
<1>1. PortInd => FilterRight
  <2> SUFFICES ASSUME PortInd, sent # NoFrame
               PROVE  LET f == sent.frame
                      IN  /\ got # NoFrame => got = [f EXCEPT !.id = Low(@, Width(f.extended))]
                          /\ Matches(f) => got # NoFrame \/ (sent.by = "F1" /\ silent)
                          /\ got # NoFrame /\ Guarded(f) => Matches(f)
    BY DEF FilterRight
  <2>1. PICK f, by : f = sent.frame /\ by = sent.by
    OBVIOUS
  <2>2. /\ FilterRule /\ f \in Frame /\ by \in Drivers
        /\ got = IF (by = "F1" /\ silent) \/ ~Accepted(FrameHeader(by, f)) THEN NoFrame ELSE FrameHeader(by, f)
    BY <2>1 DEF PortInd, FrameRule
  <2>3. FrameHeader(by, f) = [f EXCEPT !.id = Low(@, Width(f.extended))] /\ FrameHeader(by, f) # NoFrame
    BY <2>2, FrameFacts
  <2>4. /\ Matches(f) => Accepted(FrameHeader(by, f))
        /\ Accepted(FrameHeader(by, f)) /\ Guarded(f) => Matches(f)
    BY <2>2, AcceptedWhen
  <2>5. QED
    BY <2>1, <2>2, <2>3, <2>4
<1>2. QED
  BY <1>1, PortInvariant, PTL

-----------------------------------------------------------------------------
(* The seed generators.                                                    *)

Word32 == SUBSET Bits(32)

\* w ^ (w << n) determines w: words that differ do so in a lowest bit, to which
\* the shifted words add the same.
LEMMA LeftMix ==
    ASSUME NEW v \in Word32, NEW w \in Word32, NEW n \in 1 .. 31,
           Xor(v, ShiftLeft(v, n, 32)) = Xor(w, ShiftLeft(w, n, 32))
    PROVE  v = w
<1>1. PICK T : T = { b \in 0 .. 31 : ~ (b \in v <=> b \in w) }
  OBVIOUS
<1>2. v \subseteq 0 .. 31 /\ w \subseteq 0 .. 31 /\ v \in SUBSET Int /\ w \in SUBSET Int
      /\ Bits(32) = 0 .. 31
  BY DEF Word32, Bits
<1>3. SUFFICES ASSUME T # {} PROVE FALSE
  BY <1>1, <1>2
<1>4. T \in SUBSET Nat
  BY <1>1
<1>5. PICK x \in T : \A y \in T : x <= y
  BY <1>3, <1>4, LeastElement
<1>6. x \in 0 .. 31 /\ ~ (x \in v <=> x \in w)
  BY <1>1, <1>5
<1>7. x - n \in v <=> x - n \in w
  <2>1. x - n \notin T
    BY <1>5, <1>6
  <2>2. CASE x - n \in 0 .. 31
    BY <1>1, <2>1, <2>2
  <2>3. CASE x - n \notin 0 .. 31
    BY <1>2, <2>3
  <2>4. QED
    BY <2>2, <2>3
<1>8. x \in ShiftLeft(v, n, 32) <=> x \in ShiftLeft(w, n, 32)
  <2>1. n \in Int /\ 32 \in Int /\ x \in Int
    BY <1>6
  <2>2. \A c \in Int : c \in ShiftLeft(v, n, 32) <=> c \in Bits(32) /\ c - n \in v
    BY <1>2, <2>1, ShiftedBit
  <2>3. \A c \in Int : c \in ShiftLeft(w, n, 32) <=> c \in Bits(32) /\ c - n \in w
    BY <1>2, <2>1, ShiftedBit
  <2>4. QED
    BY <1>7, <2>1, <2>2, <2>3
<1>9. x \in Xor(v, ShiftLeft(v, n, 32)) <=> x \in Xor(w, ShiftLeft(w, n, 32))
  OBVIOUS
<1>10. QED
  BY <1>6, <1>8, <1>9 DEF Xor

\* The same of w ^ (w >> n), with the highest bit.
LEMMA RightMix ==
    ASSUME NEW v \in Word32, NEW w \in Word32, NEW n \in 1 .. 31,
           Xor(v, ShiftRight(v, n)) = Xor(w, ShiftRight(w, n))
    PROVE  v = w
<1>1. PICK T : T = { d \in 0 .. 31 : ~ (31 - d \in v <=> 31 - d \in w) }
  OBVIOUS
<1>2. v \subseteq 0 .. 31 /\ w \subseteq 0 .. 31
  BY DEF Word32, Bits
<1>3. SUFFICES ASSUME T # {} PROVE FALSE
  <2>1. ASSUME T = {}, NEW b \in 0 .. 31 PROVE b \in v <=> b \in w
    <3>1. 31 - b \in 0 .. 31 /\ 31 - (31 - b) = b
      OBVIOUS
    <3>2. QED
      BY <1>1, <2>1, <3>1
  <2>2. QED
    BY <1>2, <2>1
<1>4. T \in SUBSET Nat
  BY <1>1
<1>5. PICK d \in T : \A y \in T : d <= y
  BY <1>3, <1>4, LeastElement
<1>6. PICK x \in 0 .. 31 : x = 31 - d /\ ~ (x \in v <=> x \in w)
  BY <1>1, <1>5
<1>7. x + n \in v <=> x + n \in w
  <2>1. PICK y \in Int : y = d - n
    BY <1>1, <1>5
  <2>2. y \notin T /\ 31 - y = x + n
    <3>1. d \in 0 .. 31 /\ y < d
      BY <1>1, <1>5, <2>1
    <3>2. y \notin T
      BY <1>4, <1>5, <3>1
    <3>3. QED
      BY <1>6, <2>1, <3>1, <3>2
  <2>3. CASE y \in 0 .. 31
    BY <1>1, <2>2, <2>3
  <2>4. CASE y \notin 0 .. 31
    <3>1. x + n \notin 0 .. 31
      BY <2>1, <2>2, <2>4
    <3>2. QED
      BY <1>2, <3>1
  <2>5. QED
    BY <2>3, <2>4
<1>8. ASSUME NEW u \in Word32 PROVE x \in ShiftRight(u, n) <=> x + n \in u
  <2>1. u \subseteq 0 .. 31
    BY DEF Word32, Bits
  <2>2. ASSUME x \in ShiftRight(u, n) PROVE x + n \in u
    <3>1. PICK b \in u : b >= n /\ x = b - n
      BY <2>2 DEF ShiftRight
    <3>2. b = x + n
      BY <2>1, <3>1
    <3>3. QED
      BY <3>1, <3>2
  <2>3. ASSUME x + n \in u PROVE x \in ShiftRight(u, n)
    <3>1. PICK b \in u : b = x + n
      BY <2>3
    <3>2. b >= n /\ x = b - n
      BY <3>1
    <3>3. QED
      BY <3>1, <3>2 DEF ShiftRight
  <2>4. QED
    BY <2>2, <2>3
<1>9. x \in Xor(v, ShiftRight(v, n)) <=> x \in Xor(w, ShiftRight(w, n))
  OBVIOUS
<1>10. QED
  BY <1>6, <1>7, <1>8, <1>9 DEF Xor

\* Shifting to the right makes a word of 32 bits one.
LEMMA ShiftedRight ==
    ASSUME NEW w \in Word32
    PROVE  ShiftRight(w, 17) \in Word32
<1>1. w \subseteq 0 .. 31
  BY DEF Word32, Bits
<1>2. \A b \in w : b >= 17 => b - 17 \in 0 .. 31
  BY <1>1
<1>3. QED
  BY <1>2 DEF ShiftRight, Word32, Bits

\* A step stays among the words of 32 bits and is reversible.
LEMMA StepOnce ==
    ASSUME NEW w \in Word32
    PROVE  Step(w) \in Word32
<1>1. PICK a, b : a = Xor(w, ShiftLeft(w, 13, 32)) /\ b = Xor(a, ShiftRight(a, 17))
  OBVIOUS
<1>2. a \in Word32
  BY <1>1 DEF Xor, ShiftLeft, Word32
<1>3. b \in Word32
  BY <1>1, <1>2, ShiftedRight DEF Xor, Word32
<1>4. Xor(b, ShiftLeft(b, 5, 32)) \in Word32
  BY <1>3 DEF Xor, ShiftLeft, Word32
<1>5. QED
  BY <1>1, <1>4 DEF Step

LEMMA StepReversible ==
    ASSUME NEW v \in Word32, NEW w \in Word32, Step(v) = Step(w)
    PROVE  v = w
<1>1. PICK a, b : a = Xor(v, ShiftLeft(v, 13, 32)) /\ b = Xor(a, ShiftRight(a, 17))
  OBVIOUS
<1>2. PICK c, d : c = Xor(w, ShiftLeft(w, 13, 32)) /\ d = Xor(c, ShiftRight(c, 17))
  OBVIOUS
<1>3. a \in Word32 /\ c \in Word32
  BY <1>1, <1>2 DEF Xor, ShiftLeft, Word32
<1>4. b \in Word32 /\ d \in Word32
  BY <1>1, <1>2, <1>3, ShiftedRight DEF Xor, Word32
<1>5. Xor(b, ShiftLeft(b, 5, 32)) = Xor(d, ShiftLeft(d, 5, 32))
  BY <1>1, <1>2 DEF Step
<1>6. 5 \in 1 .. 31 /\ 13 \in 1 .. 31 /\ 17 \in 1 .. 31
  OBVIOUS
<1>7. b = d
  BY <1>4, <1>5, <1>6, LeftMix
<1>8. a = c
  BY <1>1, <1>2, <1>3, <1>6, <1>7, RightMix
<1>9. QED
  BY <1>1, <1>2, <1>6, <1>8, LeftMix

LEMMA StepNonZero ==
    ASSUME NEW w \in Word32, w # {}
    PROVE  Step(w) # {}
<1>1. {} \in Word32
  BY DEF Word32
<1>2. Step({}) = {}
  BY DEF Step, Xor, ShiftLeft, ShiftRight
<1>3. QED
  BY <1>1, <1>2, StepReversible

\* The generator of LfsrGenerator: what is shifted in after an odd word has its
\* highest bit, and an even word loses only a zero.
LEMMA NextStateNonZero ==
    ASSUME NEW w \in Word32, w # {}
    PROVE  NextState(w) \in Word32 /\ NextState(w) # {}
<1>1. w \subseteq 0 .. 31
  BY DEF Word32, Bits
<1>2. PICK s : s = ShiftRight(w, 1)
  OBVIOUS
<1>3. s \subseteq 0 .. 30
  BY <1>1, <1>2 DEF ShiftRight
<1>4. s \in Word32 /\ Feedback \in Word32
  BY <1>3 DEF Word32, Bits, Feedback
<1>5. CASE 0 \in w
  <2>1. NextState(w) = Xor(s, Feedback)
    BY <1>2, <1>5 DEF NextState
  <2>2. 31 \in Feedback /\ 31 \notin s
    BY <1>3 DEF Feedback
  <2>3. QED
    BY <1>4, <2>1, <2>2 DEF Xor, Word32
<1>6. CASE 0 \notin w
  <2>1. NextState(w) = s
    BY <1>2, <1>6 DEF NextState
  <2>2. PICK b \in w : b \in 0 .. 31 /\ b # 0
    <3>1. PICK b : b \in w
      OBVIOUS
    <3>2. QED
      BY <1>1, <1>6, <3>1
  <2>3. b - 1 \in s
    BY <1>2, <2>2 DEF ShiftRight
  <2>4. QED
    BY <1>4, <2>1, <2>3
<1>7. QED
  BY <1>5, <1>6

\* The word before the seed number i.
Before(i) == IF i = 1 THEN FirstWord ELSE issued[i - 1]

SeedWords ==
    /\ lfsr \in Word32 \ {{}} /\ state \in Word32 \ {{}}
    /\ issued \in Seq(Word32 \ {{}})
    /\ lfsr = Before(Len(issued) + 1)

\* Each seed is made of the one before it, and one that has been there before
\* comes after the first word has.
SeedChain ==
    \A i \in 1 .. Len(issued) :
        /\ issued[i] = Step(Before(i))
        /\ \A j \in 1 .. Len(issued) :
               i < j /\ issued[i] = issued[j] => issued[j - i] = FirstWord

SeedInd == SeedWords /\ SeedChain

LEMMA FirstWordFits == FirstWord \in Word32 \ {{}}
<1>1. FirstWord \subseteq 0 .. 31 /\ 0 \in FirstWord
  BY DEF FirstWord
<1>2. Bits(32) = 0 .. 31
  BY DEF Bits
<1>3. QED
  BY <1>1, <1>2 DEF Word32

LEMMA SeedStart == LibraryInit => SeedInd
<1> SUFFICES ASSUME LibraryInit PROVE SeedInd
  OBVIOUS
<1>1. lfsr = FirstWord /\ issued = <<>> /\ state \in { Constructed(s) : s \in LfsrSeeds }
  BY DEF LibraryInit, SeedInit
<1>2. state \in Word32 \ {{}}
  <2>1. PICK s \in LfsrSeeds : state = Constructed(s)
    BY <1>1
  <2>2. s \in Word32 /\ {0} \in Word32
    BY SeedConstants DEF Word32, Bits
  <2>3. QED
    BY <2>1, <2>2 DEF Constructed
<1>3. SeedWords
  BY <1>1, <1>2, FirstWordFits DEF SeedWords, Before
<1>4. SeedChain
  BY <1>1 DEF SeedChain
<1>5. QED
  BY <1>3, <1>4 DEF SeedInd

LEMMA SeedStep == SeedInd /\ SeedNext => SeedInd'
<1> SUFFICES ASSUME SeedInd, SeedNext PROVE SeedInd'
  OBVIOUS
<1>1. SeedWords /\ SeedChain
  BY DEF SeedInd
<1>2. CASE GenerateSeed
  <2>1. PICK n \in Nat : n = Len(issued)
    BY <1>1 DEF SeedWords
  <2>2. PICK seed : seed = Step(lfsr)
    OBVIOUS
  <2>3. seed \in Word32 \ {{}}
    BY <1>1, <2>2, StepOnce, StepNonZero DEF SeedWords
  <2>4. lfsr' = seed /\ issued' = Append(issued, seed) /\ state' = state
    BY <1>2, <2>2 DEF GenerateSeed
  <2>5. /\ issued' \in Seq(Word32 \ {{}}) /\ Len(issued') = n + 1 /\ issued'[n + 1] = seed
        /\ \A i \in 1 .. n : issued'[i] = issued[i]
    BY <1>1, <2>1, <2>3, <2>4 DEF SeedWords
  <2>6. /\ \A i \in 1 .. n + 1 : Before(i)' = Before(i)
        /\ Before(n + 2)' = seed
    BY <2>1, <2>5 DEF Before
  <2>7. SeedWords'
    <3>1. Before(Len(issued) + 1)' = seed
      BY <2>5, <2>6
    <3>2. QED
      BY <1>1, <2>3, <2>4, <2>5, <3>1 DEF SeedWords
  <2>8. lfsr = Before(n + 1) /\ seed = Step(Before(n + 1))
    BY <1>1, <2>1, <2>2 DEF SeedWords
  <2>9. ASSUME NEW i \in 1 .. Len(issued') PROVE issued'[i] = Step(Before(i)')
    <3>1. CASE i = n + 1
      BY <2>5, <2>6, <2>8, <3>1
    <3>2. CASE i \in 1 .. n
      BY <1>1, <2>1, <2>5, <2>6, <3>2 DEF SeedChain
    <3>3. QED
      BY <2>5, <3>1, <3>2
  <2>10. ASSUME NEW i \in 1 .. n, issued[i] = seed PROVE issued'[n + 1 - i] = FirstWord
    <3>1. issued[i] = Step(Before(i))
      BY <1>1, <2>1 DEF SeedChain
    <3>2. Before(i) \in Word32 /\ lfsr \in Word32
      BY <1>1, <2>1, FirstWordFits DEF SeedWords, Before
    <3>3. Before(i) = lfsr
      BY <2>2, <2>10, <3>1, <3>2, StepReversible
    <3>4. lfsr = issued[n]
      BY <2>8 DEF Before
    <3>5. CASE i = 1
      BY <2>5, <3>3, <3>4, <3>5 DEF Before
    <3>6. CASE i # 1
      <4>1. PICK h \in 1 .. n : h = i - 1
        BY <3>6
      <4>2. issued[h] = issued[n] /\ h < n
        BY <3>3, <3>4, <3>6, <4>1 DEF Before
      <4>3. issued[n - h] = FirstWord
        BY <1>1, <2>1, <4>2 DEF SeedChain
      <4>4. n - h = n + 1 - i /\ n - h \in 1 .. n
        BY <4>1, <4>2
      <4>5. QED
        BY <2>5, <4>3, <4>4
    <3>7. QED
      BY <3>5, <3>6
  <2>11. ASSUME NEW i \in 1 .. Len(issued'), NEW j \in 1 .. Len(issued'),
                i < j, issued'[i] = issued'[j]
         PROVE  issued'[j - i] = FirstWord
    <3>1. i \in 1 .. n /\ issued'[i] = issued[i]
      BY <2>5, <2>11
    <3>2. CASE j = n + 1
      <4>1. issued[i] = issued'[j] /\ issued'[j] = seed
        BY <2>5, <2>11, <3>1, <3>2
      <4>2. n + 1 - i = j - i
        BY <3>2
      <4>3. QED
        BY <2>10, <3>1, <4>1, <4>2
    <3>3. CASE j \in 1 .. n
      <4>1. issued[j - i] = FirstWord
        BY <1>1, <2>1, <2>5, <2>11, <3>1, <3>3 DEF SeedChain
      <4>2. j - i \in 1 .. n
        BY <2>11, <3>1, <3>3
      <4>3. QED
        BY <2>5, <4>1, <4>2
    <3>4. QED
      BY <2>5, <3>2, <3>3
  <2>12. SeedChain'
    BY <2>9, <2>11 DEF SeedChain
  <2>13. QED
    BY <2>7, <2>12 DEF SeedInd
<1>3. CASE LfsrNext
  <2>1. state' = NextState(state) /\ lfsr' = lfsr /\ issued' = issued
    BY <1>3 DEF LfsrNext
  <2>2. state' \in Word32 \ {{}}
    BY <1>1, <2>1, NextStateNonZero DEF SeedWords
  <2>3. QED
    BY <1>1, <2>1, <2>2 DEF SeedInd, SeedWords, SeedChain, Before
<1>4. QED
  BY <1>2, <1>3 DEF SeedNext

LEMMA SeedPart == SeedInd /\ [LibraryNext]_libraryVars => SeedInd'
<1> SUFFICES ASSUME SeedInd, [LibraryNext]_libraryVars PROVE SeedInd'
  OBVIOUS
<1>1. CASE SeedNext
  BY <1>1, SeedStep
<1>2. CASE UNCHANGED seedVars
  BY <1>2 DEF seedVars, SeedInd, SeedWords, SeedChain, Before
<1>3. QED
  BY <1>1, <1>2 DEF LibraryNext, libraryVars

LEMMA SeedInvariant == LibrarySpec => []SeedInd
BY SeedStart, SeedPart, PTL DEF LibrarySpec

\* For any secret and however many seeds: neither generator comes to the word of
\* zeros, and the key computed for one seed is taken for a later one only after
\* generate_seed() has come round to the word it is initialized with, because
\* every step of it is reversible.
THEOREM SeedsUsable == LibrarySpec => []SeedUsable
<1>1. SeedInd => SeedUsable
  <2> SUFFICES ASSUME SeedInd PROVE SeedUsable
    OBVIOUS
  <2>1. SeedWords /\ SeedChain
    BY DEF SeedInd
  <2>2. ASSUME NEW secret, NEW v, NEW w, VerifyKey(secret, w, Xor(v, secret))
        PROVE  v = w
    BY <2>2 DEF VerifyKey, Xor
  <2>3. \A i \in 1 .. Len(issued) : issued[i] # {}
    BY <2>1 DEF SeedWords
  <2>4. ASSUME NEW secret \in Secrets, NEW i \in 1 .. Len(issued), NEW j \in 1 .. Len(issued),
               i < j, VerifyKey(secret, issued[j], Xor(issued[i], secret))
        PROVE  issued[j - i] = FirstWord
    <3>1. issued[i] = issued[j]
      BY <2>2, <2>4
    <3>2. QED
      BY <2>1, <2>4, <3>1 DEF SeedChain
  <2>5. QED
    BY <2>1, <2>3, <2>4 DEF SeedUsable, SeedWords
<1>2. QED
  BY <1>1, SeedInvariant, PTL

-----------------------------------------------------------------------------
(* Numbers in bytes.                                                       *)

\* Power is the recursion it is written as.
LEMMA PowerIs ==
    /\ Power \in [Nat -> Nat \ {0}] /\ Power[0] = 1
    /\ \A k \in Nat : Power[k + 1] = ByteBase * Power[k]
<1>1. ByteBase \in Nat \ {0}
  BY DataConstants
<1>2. PICK P : P = Nat \ {0}
  OBVIOUS
<1>3. PICK G : G = [ p \in Nat \X P |-> ByteBase * p[2] ]
  OBVIOUS
<1>4. G \in [Nat \X P -> P]
  <2>1. ASSUME NEW p \in Nat \X P PROVE ByteBase * p[2] \in P
    <3>1. p[2] \in P
      OBVIOUS
    <3>2. PICK x \in Nat \ {0} : x = p[2]
      BY <1>2, <3>1
    <3>3. ByteBase * x \in Nat \ {0}
      BY <1>1
    <3>4. QED
      BY <1>2, <3>2, <3>3
  <2>2. QED
    BY <1>3, <2>1
<1>5. 1 \in P
  BY <1>2
<1>6. PICK g : IsEndless(g, P, 1, G)
  BY <1>4, <1>5, RecursiveExists
<1>7. ASSUME NEW k \in Nat PROVE g[k + 1] = ByteBase * g[k]
  <2>1. g[k] \in P /\ <<k, g[k]>>[2] = g[k]
    BY <1>6 DEF IsEndless
  <2>2. G[<<k, g[k]>>] = ByteBase * g[k]
    BY <1>3, <2>1
  <2>3. QED
    BY <1>6, <2>2 DEF IsEndless
<1>8. g = [ k \in Nat |-> IF k = 0 THEN 1 ELSE ByteBase * g[k - 1] ]
  <2>1. ASSUME NEW k \in Nat PROVE g[k] = IF k = 0 THEN 1 ELSE ByteBase * g[k - 1]
    <3>1. CASE k = 0
      BY <1>6, <3>1 DEF IsEndless
    <3>2. CASE k # 0
      <4>1. PICK j \in Nat : j = k - 1 /\ k = j + 1
        BY <3>2
      <4>2. QED
        BY <1>7, <3>2, <4>1
    <3>3. QED
      BY <3>1, <3>2
  <2>2. QED
    BY <1>6, <2>1 DEF IsEndless
<1>9. Power = [ k \in Nat |-> IF k = 0 THEN 1 ELSE ByteBase * Power[k - 1] ]
  BY <1>8, Zenon DEF Power
<1>10. PICK f : f = Power
  OBVIOUS
<1>11. \A k \in Nat : f[k] = IF k = 0 THEN 1 ELSE ByteBase * f[k - 1]
  BY <1>9, <1>10
<1>12. f[0] = 1
  BY <1>11
<1>13. \A k \in Nat : f[k + 1] = ByteBase * f[k]
  BY <1>11
<1>14. \A k \in Nat : f[k] \in Nat \ {0}
  <2>1. PICK S : S = { k \in Nat : f[k] \in Nat \ {0} }
    OBVIOUS
  <2>2. ASSUME NEW n \in Nat PROVE n \in S
    <3>1. 0 \in S
      BY <1>12, <2>1
    <3>2. ASSUME NEW k \in Nat, k < n, k \in S PROVE k + 1 \in S
      <4>1. f[k] \in Nat \ {0} /\ f[k + 1] = ByteBase * f[k]
        BY <1>13, <2>1, <3>2
      <4>2. QED
        BY <1>1, <2>1, <4>1
    <3>3. \A k \in 0 .. n : k \in S
      BY <3>1, <3>2, Upwards
    <3>4. QED
      BY <3>3
  <2>3. QED
    BY <2>1, <2>2
<1>15. f \in [Nat -> Nat \ {0}]
  BY <1>9, <1>10, <1>14
<1>16. QED
  BY <1>10, <1>12, <1>13, <1>15

\* The sum of some terms, as Meant has it.
Total(terms) == FoldLeft(+, 0, terms)

IsTotal(g, terms) ==
    g = [ s \in SUBSET (DOMAIN terms) |->
            IF s = {} THEN 0 ELSE g[s \ {Max(s)}] + terms[Max(s)] ]

\* If there is such a fold, the total is one.
LEMMA TotalIsFold ==
    ASSUME NEW terms, NEW g, IsTotal(g, terms)
    PROVE  \E f : IsTotal(f, terms) /\ Total(terms) = f[DOMAIN terms]
BY Zenon DEF Total, FoldLeft, MapThenFoldSet, IsTotal

\* So terms are added up one by one.
LEMMA TotalInTurns ==
    ASSUME NEW n \in Nat, NEW terms \in [1 .. n -> Nat]
    PROVE  \E w : /\ w[0] = 0 /\ w[n] = Total(terms)
                  /\ \A k \in Nat : k < n => w[k + 1] = w[k] + terms[k + 1]
<1>1. DOMAIN terms = 1 .. n
  OBVIOUS
<1>2. PICK G : G = [ p \in (1 .. n) \X Nat |-> p[2] + terms[p[1]] ]
  OBVIOUS
<1>3. G \in [(1 .. n) \X Nat -> Nat]
  BY <1>2
<1>4. PICK g : IsFold(g, n, Nat, 0, G)
  BY <1>3, FoldExists
<1>5. ASSUME NEW s \in SUBSET (1 .. n)
      PROVE  g[s] = IF s = {} THEN 0 ELSE g[s \ {Max(s)}] + terms[Max(s)]
  <2>1. CASE s = {}
    BY <1>4, <2>1 DEF IsFold
  <2>2. CASE s # {}
    <3>1. PICK m, r : m = Max(s) /\ r = g[s \ {Max(s)}]
      OBVIOUS
    <3>2. m \in 1 .. n /\ r \in Nat /\ g[s] = G[<<m, r>>]
      <4>1. Max(s) \in 1 .. n
        BY <1>4, <2>2, FoldStep
      <4>2. g[s \ {Max(s)}] \in Nat
        BY <1>4, <2>2, FoldStep
      <4>3. g[s] = G[<<Max(s), g[s \ {Max(s)}]>>]
        BY <1>4, <2>2 DEF IsFold
      <4>4. QED
        BY <3>1, <4>1, <4>2, <4>3
    <3>3. G[<<m, r>>] = r + terms[m]
      BY <1>2, <3>2
    <3>4. QED
      BY <2>2, <3>1, <3>2, <3>3
  <2>3. QED
    BY <2>1, <2>2
<1>6. g = [ s \in SUBSET (1 .. n) |-> g[s] ]
  BY <1>4 DEF IsFold
<1>7. IsTotal(g, terms)
  BY <1>1, <1>5, <1>6 DEF IsTotal
<1>8. PICK f : IsTotal(f, terms) /\ Total(terms) = f[DOMAIN terms]
  BY <1>7, TotalIsFold
<1>9. PICK w : w = [ k \in 0 .. n |-> f[1 .. k] ]
  OBVIOUS
<1>10. w[0] = 0
  <2>1. 1 .. 0 = {} /\ {} \in SUBSET (1 .. n)
    OBVIOUS
  <2>2. f[{}] = 0
    BY <1>1, <1>8, <2>1 DEF IsTotal
  <2>3. QED
    BY <1>9, <2>1, <2>2
<1>11. w[n] = Total(terms)
  BY <1>1, <1>8, <1>9
<1>12. ASSUME NEW k \in Nat, k < n PROVE w[k + 1] = w[k] + terms[k + 1]
  <2>1. PICK j \in 1 .. n : j = k + 1 /\ j - 1 = k /\ k \in 0 .. n /\ j \in 0 .. n
    BY <1>12
  <2>2. PICK s : s = 1 .. j
    OBVIOUS
  <2>3. s \in SUBSET (1 .. n) /\ s # {} /\ s \ {j} = 1 .. k /\ Max(s) = j
    BY <2>1, <2>2, Prefix
  <2>4. f[s] = f[1 .. k] + terms[j]
    BY <1>1, <1>8, <2>3 DEF IsTotal
  <2>5. w[j] = f[s] /\ w[k] = f[1 .. k]
    BY <1>9, <2>1, <2>2
  <2>6. QED
    BY <2>1, <2>4, <2>5
<1>13. QED
  BY <1>10, <1>11, <1>12

WordSize == Power[WordBytes]

\* What the constants are.
LEMMA WordSizeFits == WordSize \in Nat \ {0} /\ ByteBase \in Nat \ {0}
<1>1. WordBytes \in Nat /\ ByteBase \in Nat \ {0}
  BY DataConstants
<1>2. QED
  BY <1>1, PowerIs DEF WordSize

LEMMA BytesFit ==
    ASSUME NEW bytes \in Formats
    PROVE  /\ Len(bytes) \in Nat
           /\ \A i \in 1 .. Len(bytes) : bytes[i] \in Nat
<1>1. bytes \in Seq(0 .. ByteBase - 1)
  BY DataConstants
<1>2. 0 .. ByteBase - 1 \subseteq Nat
  OBVIOUS
<1>3. QED
  BY <1>1, <1>2, LenProperties, ElementOfSeq

\* The loop that shifts the bytes into a word.
IsShifted(v, bytes) ==
    v = [ i \in 0 .. Len(bytes) |->
            IF i = 0 THEN 0 ELSE (v[i - 1] * ByteBase + bytes[i]) % Power[WordBytes] ]

\* If there is one, the number is what one comes to.
LEMMA NumberIsShifted ==
    ASSUME NEW bytes \in Formats, NEW g, IsShifted(g, bytes)
    PROVE  \E v : IsShifted(v, bytes) /\ Number[bytes] = v[Len(bytes)]
BY Zenon DEF Number, IsShifted

\* So the bytes are shifted in one by one.
LEMMA NumberInTurns ==
    ASSUME NEW bytes \in Formats, NEW n \in Nat, n = Len(bytes)
    PROVE  \E v : /\ v[0] = 0 /\ v[n] = Number[bytes]
                  /\ \A k \in Nat : k < n =>
                        v[k + 1] = (v[k] * ByteBase + bytes[k + 1]) % WordSize
<1>1. \A i \in 1 .. n : bytes[i] \in Nat
  BY BytesFit
<1>2. PICK byte : byte = [ i \in Nat |-> IF i \in 1 .. n THEN bytes[i] ELSE 0 ]
  OBVIOUS
<1>3. byte \in [Nat -> Nat]
  BY <1>1, <1>2
<1>4. PICK G : G = [ p \in Nat \X Nat |-> (p[2] * ByteBase + byte[p[1] + 1]) % WordSize ]
  OBVIOUS
<1>5. G \in [Nat \X Nat -> Nat]
  <2>1. ASSUME NEW p \in Nat \X Nat
        PROVE  (p[2] * ByteBase + byte[p[1] + 1]) % WordSize \in Nat
    <3>1. PICK x \in Nat, y \in Nat, z \in Nat : x = p[2] /\ y = byte[p[1] + 1] /\ z = x * ByteBase + y
      <4>1. p[1] + 1 \in Nat /\ p[2] \in Nat
        OBVIOUS
      <4>2. byte[p[1] + 1] \in Nat
        BY <1>3, <4>1
      <4>3. p[2] * ByteBase + byte[p[1] + 1] \in Nat
        BY <4>1, <4>2, WordSizeFits
      <4>4. QED
        BY <4>1, <4>2, <4>3
    <3>2. z % WordSize \in Nat
      BY WordSizeFits
    <3>3. QED
      BY <3>1, <3>2
  <2>2. QED
    BY <1>4, <2>1
<1>6. PICK g : IsRecursive(g, n, Nat, 0, G)
  BY <1>5, RecursiveUpTo
<1>7. ASSUME NEW i \in 0 .. n
      PROVE  g[i] = IF i = 0 THEN 0 ELSE (g[i - 1] * ByteBase + bytes[i]) % WordSize
  <2>1. CASE i = 0
    BY <1>6, <2>1 DEF IsRecursive
  <2>2. CASE i # 0
    <3>1. PICK k \in Nat : k = i - 1 /\ k + 1 = i /\ k < n /\ k \in 0 .. n
      BY <2>2
    <3>2. PICK r : r = g[k]
      OBVIOUS
    <3>3. r \in Nat /\ g[i] = G[<<k, r>>]
      BY <1>6, <3>1, <3>2 DEF IsRecursive
    <3>4. G[<<k, r>>] = (r * ByteBase + byte[i]) % WordSize
      BY <1>4, <3>1, <3>3
    <3>5. byte[i] = bytes[i]
      BY <1>2, <2>2
    <3>6. QED
      BY <2>2, <3>1, <3>2, <3>3, <3>4, <3>5
  <2>3. QED
    BY <2>1, <2>2
<1>8. g = [ i \in 0 .. n |-> g[i] ]
  BY <1>6 DEF IsRecursive
<1>9. IsShifted(g, bytes)
  BY <1>7, <1>8 DEF IsShifted, WordSize
<1>10. PICK v : IsShifted(v, bytes) /\ Number[bytes] = v[n]
  BY <1>9, NumberIsShifted
<1>11. \A i \in 0 .. n :
           v[i] = IF i = 0 THEN 0 ELSE (v[i - 1] * ByteBase + bytes[i]) % WordSize
  BY <1>10 DEF IsShifted, WordSize
<1>12. v[0] = 0
  BY <1>11
<1>13. ASSUME NEW k \in Nat, k < n
       PROVE  v[k + 1] = (v[k] * ByteBase + bytes[k + 1]) % WordSize
  <2>1. PICK i \in 0 .. n : i = k + 1 /\ i - 1 = k /\ i # 0
    BY <1>13
  <2>2. QED
    BY <1>11, <2>1
<1>14. QED
  BY <1>10, <1>12, <1>13

\* What has been added up, and what a word holds of it, after some digits: p is
\* what the digits that are to come make of one.
SameDigits(x, y, p, M) == \E h \in Nat : x = h * p /\ y = h % M

\* One more digit keeps both the same.
LEMMA DigitTurn ==
    ASSUME NEW M \in Nat \ {0}, NEW B \in Nat, NEW p \in Nat, NEW b \in Nat,
           NEW x, NEW y, SameDigits(x, y, B * p, M)
    PROVE  SameDigits(x + b * p, (y * B + b) % M, p, M)
<1>1. PICK h \in Nat : x = h * (B * p) /\ y = h % M
  BY DEF SameDigits
<1>2. h * B + b \in Nat
  OBVIOUS
<1>3. x + b * p = (h * B + b) * p
  BY <1>1, DigitAdded
<1>4. (y * B + b) % M = (h * B + b) % M
  <2>1. IsRemainder(y, h, M)
    BY <1>1 DEF IsRemainder
  <2>2. \A c \in Nat, e \in Nat : (y * c + e) % M = (h * c + e) % M
    BY <2>1, ShiftRemainders
  <2>3. QED
    BY <2>2
<1>5. QED
  BY <1>2, <1>3, <1>4 DEF SameDigits

\* The loop that shifts comes to what a word holds of the number the digits mean.
LEMMA NumberIsMeant ==
    ASSUME NEW bytes \in Formats
    PROVE  /\ Meant[bytes] \in Nat /\ Number[bytes] \in Nat
           /\ Number[bytes] = Meant[bytes] % WordSize
<1>1. PICK n \in Nat : n = Len(bytes)
  BY BytesFit
<1>2. \A i \in 1 .. n : bytes[i] \in Nat
  BY <1>1, BytesFit
<1>3. PICK terms : terms = [ i \in 1 .. n |-> bytes[i] * Power[n - i] ]
  OBVIOUS
<1>4. Meant[bytes] = Total(terms)
  <2>1. Meant[bytes] = FoldLeft(+, 0, [ i \in 1 .. Len(bytes) |-> bytes[i] * Power[Len(bytes) - i] ])
    BY Zenon DEF Meant
  <2>2. QED
    BY <1>1, <1>3, <2>1, Zenon DEF Total
<1>5. terms \in [1 .. n -> Nat]
  <2>1. ASSUME NEW i \in 1 .. n PROVE bytes[i] * Power[n - i] \in Nat
    <3>1. n - i \in Nat
      OBVIOUS
    <3>2. Power[n - i] \in Nat
      BY <3>1, PowerIs
    <3>3. PICK x \in Nat, y \in Nat : x = bytes[i] /\ y = Power[n - i]
      BY <1>2, <3>2
    <3>4. x * y \in Nat
      OBVIOUS
    <3>5. QED
      BY <3>3, <3>4
  <2>2. QED
    BY <1>3, <2>1
<1>6. PICK w : /\ w[0] = 0 /\ w[n] = Total(terms)
               /\ \A k \in Nat : k < n => w[k + 1] = w[k] + terms[k + 1]
  BY <1>5, TotalInTurns
<1>7. PICK v : /\ v[0] = 0 /\ v[n] = Number[bytes]
               /\ \A k \in Nat : k < n =>
                     v[k + 1] = (v[k] * ByteBase + bytes[k + 1]) % WordSize
  BY <1>1, NumberInTurns
<1>8. PICK S : S = { k \in 0 .. n : SameDigits(w[k], v[k], Power[n - k], WordSize) }
  OBVIOUS
<1>9. 0 \in S
  <2>1. n - 0 \in Nat /\ 0 \in 0 .. n
    OBVIOUS
  <2>2. PICK p \in Nat : p = Power[n - 0]
    BY <2>1, PowerIs
  <2>3. 0 * p = 0 /\ 0 % WordSize = 0
    BY WordSizeFits, SmallRemainder
  <2>4. w[0] = 0 * Power[n - 0] /\ v[0] = 0 % WordSize
    BY <1>6, <1>7, <2>2, <2>3
  <2>5. QED
    BY <1>8, <2>1, <2>4 DEF SameDigits
<1>10. ASSUME NEW k \in Nat, k < n, k \in S PROVE k + 1 \in S
  <2>1. PICK j \in 1 .. n : j = k + 1 /\ n - j \in Nat /\ (n - j) + 1 = n - k
    BY <1>10
  <2>2. Power[n - j] \in Nat /\ bytes[j] \in Nat /\ ByteBase \in Nat
    BY <1>2, <2>1, PowerIs, WordSizeFits
  <2>3. Power[n - k] = ByteBase * Power[n - j]
    BY <2>1, PowerIs
  <2>4. SameDigits(w[k], v[k], ByteBase * Power[n - j], WordSize)
    BY <1>8, <1>10, <2>3
  <2>5. SameDigits(w[k] + bytes[j] * Power[n - j], (v[k] * ByteBase + bytes[j]) % WordSize,
                   Power[n - j], WordSize)
    BY <2>2, <2>4, WordSizeFits, DigitTurn, Zenon
  <2>6. terms[j] = bytes[j] * Power[n - j]
    BY <1>3
  <2>7. w[j] = w[k] + bytes[j] * Power[n - j]
    BY <1>6, <1>10, <2>1, <2>6
  <2>8. v[j] = (v[k] * ByteBase + bytes[j]) % WordSize
    BY <1>7, <1>10, <2>1
  <2>9. SameDigits(w[j], v[j], Power[n - j], WordSize)
    BY <2>5, <2>7, <2>8, Zenon
  <2>10. QED
    BY <1>8, <2>1, <2>9
<1>11. n \in S
  BY <1>9, <1>10, Upwards
<1>12. PICK h \in Nat : w[n] = h * Power[n - n] /\ v[n] = h % WordSize
  BY <1>8, <1>11 DEF SameDigits
<1>13. Power[n - n] = 1 /\ h * 1 = h
  <2>1. n - n = 0
    OBVIOUS
  <2>2. QED
    BY <2>1, PowerIs
<1>14. h % WordSize \in Nat
  BY WordSizeFits
<1>15. QED
  BY <1>4, <1>6, <1>7, <1>12, <1>13, <1>14

\* Nothing is lost of a number that a word holds.
LEMMA NumberWithin ==
    ASSUME NEW address \in Formats, NEW size \in Formats, ~Beyond(address, size)
    PROVE  /\ Number[address] = Meant[address] /\ Meant[address] \in Nat
           /\ Number[size] = Meant[size] /\ Meant[size] \in Nat
<1>1. ASSUME NEW bytes \in Formats, ~(Meant[bytes] >= WordSize)
      PROVE  Number[bytes] = Meant[bytes] /\ Meant[bytes] \in Nat
  <2>1. PICK d : d = Meant[bytes]
    OBVIOUS
  <2>2. d \in Nat /\ Number[bytes] = d % WordSize
    BY <2>1, NumberIsMeant
  <2>3. d \in 0 .. WordSize - 1
    BY <1>1, <2>1, <2>2, WordSizeFits
  <2>4. d % WordSize = d
    BY <2>3, WordSizeFits, SmallRemainder
  <2>5. QED
    BY <2>1, <2>2, <2>4
<1>2. ~(Meant[address] >= WordSize) /\ ~(Meant[size] >= WordSize)
  BY DEF Beyond, WordSize
<1>3. QED
  BY <1>1, <1>2

-----------------------------------------------------------------------------
(* The identifiers of a read.                                              *)

AnyDid == Dids \cup {DidUnknown}
Pairs == Dids \X Values
Reading == [pos : Nat, data : Seq(Pairs), nrc : Refusals \cup {"None"}]
NothingRead == [pos |-> 1, data |-> <<>>, nrc |-> "None"]
WholeRead(dids) == FoldLeft(ReadNext, NothingRead, dids)

\* One turn of the loop: it goes on exactly while identifiers can be read and
\* there is room, also for the value.
LEMMA ReadNextIs ==
    ASSUME store \in [Dids -> Values], NEW r \in Reading, NEW did \in AnyDid
    PROVE  /\ ReadNext(r, did) \in Reading
           /\ r.nrc # "None" => ReadNext(r, did) = r
           /\ r.nrc = "None" /\ did \notin Readable => ReadNext(r, did).nrc # "None"
           /\ r.nrc = "None" /\ did \in Readable =>
                  IF r.pos + 2 + DataLength[did] <= Room
                  THEN /\ ReadNext(r, did).pos = r.pos + 2 + DataLength[did]
                       /\ ReadNext(r, did).data = Append(r.data, <<did, store[did]>>)
                       /\ ReadNext(r, did).nrc = "None"
                  ELSE ReadNext(r, did).nrc # "None"
<1>1. r.pos \in Nat /\ r.data \in Seq(Pairs) /\ r.nrc \in Refusals \cup {"None"}
      /\ r = [pos |-> r.pos, data |-> r.data, nrc |-> r.nrc]
  BY DEF Reading
<1>2. Room \in Nat \ {0}
  BY DataConstants
<1>3. CASE r.nrc # "None"
  BY <1>3 DEF ReadNext
<1>4. CASE r.nrc = "None" /\ did \notin Readable
  <2>1. Refusal(r.pos, did) = IF did \in Dids THEN "ConditionsNotCorrect" ELSE "RequestOutOfRange"
    <3>1. CASE did \in Dids
      BY <1>4, <3>1 DEF Refusal
    <3>2. CASE did \notin Dids
      BY <1>4, <3>2 DEF Refusal, Dids
    <3>3. QED
      BY <3>1, <3>2
  <2>2. PICK nrc \in Refusals : nrc = Refusal(r.pos, did) /\ nrc # "None"
    BY <2>1 DEF Refusals
  <2>3. ReadNext(r, did) = [r EXCEPT !.nrc = nrc]
    BY <1>4, <2>2 DEF ReadNext
  <2>4. QED
    BY <1>1, <1>4, <2>2, <2>3 DEF Reading
<1>5. CASE r.nrc = "None" /\ did \in Readable
  <2>1. PICK d \in Nat \ {0} : d = DataLength[did]
    <3>1. did \in Dids /\ DataLength \in [Dids -> Nat \ {0}]
      BY <1>5, DataConstants DEF Dids
    <3>2. QED
      BY <3>1
  <2>2. CASE r.pos + 2 + d <= Room
    <3>1. ~(r.pos + 2 > Room - 1) /\ ~(d > Room - (r.pos + 2))
      BY <1>1, <1>2, <2>2
    <3>2. Refusal(r.pos, did) = "None"
      BY <1>5, <2>1, <3>1 DEF Refusal, Dids
    <3>3. ReadNext(r, did) = [r EXCEPT !.pos = @ + 2 + d,
                                       !.data = Append(@, <<did, store[did]>>)]
      BY <1>5, <2>1, <3>2 DEF ReadNext
    <3>4. <<did, store[did]>> \in Pairs
      BY <1>5 DEF Pairs, Dids
    <3>5. PICK x : x = <<did, store[did]>>
      OBVIOUS
    <3>6. r.pos + 2 + d \in Nat /\ Append(r.data, x) \in Seq(Pairs)
      BY <1>1, <3>4, <3>5
    <3>7. ReadNext(r, did) = [r EXCEPT !.pos = @ + 2 + d, !.data = Append(@, x)]
      BY <3>3, <3>5
    <3>8. /\ ReadNext(r, did) \in Reading
          /\ ReadNext(r, did).pos = r.pos + 2 + d
          /\ ReadNext(r, did).data = Append(r.data, x)
          /\ ReadNext(r, did).nrc = "None"
      BY <1>5, <3>6, <3>7 DEF Reading
    <3>9. QED
      BY <1>5, <2>1, <2>2, <3>5, <3>8
  <2>3. CASE ~(r.pos + 2 + d <= Room)
    <3>1. r.pos + 2 > Room - 1 \/ (r.pos + 2 <= Room - 1 /\ d > Room - (r.pos + 2))
      BY <1>1, <1>2, <2>3
    <3>2. PICK nrc \in Refusals : nrc = Refusal(r.pos, did) /\ nrc # "None"
      <4>1. CASE r.pos + 2 > Room - 1
        <5>1. ~(r.pos + 2 <= Room - 1)
          BY <1>1, <1>2, <4>1
        <5>2. Refusal(r.pos, did) = "ResponseTooLong"
          BY <1>5, <4>1, <5>1 DEF Refusal, Dids
        <5>3. QED
          BY <5>2 DEF Refusals
      <4>2. CASE r.pos + 2 <= Room - 1 /\ d > Room - (r.pos + 2)
        <5>1. ~(r.pos + 2 > Room - 1)
          BY <1>1, <1>2, <4>2
        <5>2. Refusal(r.pos, did) = "ConditionsNotCorrect"
          BY <1>5, <2>1, <4>2, <5>1 DEF Refusal, Dids
        <5>3. QED
          BY <5>2 DEF Refusals
      <4>3. QED
        BY <3>1, <4>1, <4>2
    <3>3. ReadNext(r, did) = [r EXCEPT !.nrc = nrc]
      BY <1>5, <3>2 DEF ReadNext
    <3>4. ReadNext(r, did) \in Reading /\ ReadNext(r, did).nrc = nrc
      BY <1>1, <3>3 DEF Reading
    <3>5. QED
      BY <1>5, <2>1, <2>3, <3>2, <3>4
  <2>4. QED
    BY <2>2, <2>3
<1>6. QED
  BY <1>3, <1>4, <1>5

\* The turn of an identifier that can be read and fits.
LEMMA ReadOn ==
    ASSUME store \in [Dids -> Values], NEW r \in Reading, NEW did \in AnyDid,
           r.nrc = "None", did \in Readable, r.pos + 2 + DataLength[did] <= Room
    PROVE  /\ ReadNext(r, did).nrc = "None"
           /\ ReadNext(r, did).pos = r.pos + 2 + DataLength[did]
           /\ ReadNext(r, did).data = Append(r.data, <<did, store[did]>>)
BY ReadNextIs

\* The loop as a fold over the subsets of the request, greatest index last.
IsReading(g, dids) ==
    g = [ s \in SUBSET (DOMAIN dids) |->
            IF s = {} THEN NothingRead ELSE ReadNext(g[s \ {Max(s)}], dids[Max(s)]) ]

\* If there is such a fold, what is read is one.
LEMMA ReadIsFold ==
    ASSUME NEW dids, NEW g, IsReading(g, dids)
    PROVE  \E f : IsReading(f, dids) /\ WholeRead(dids) = f[DOMAIN dids]
BY Zenon DEF WholeRead, FoldLeft, MapThenFoldSet, IsReading

\* So identifiers are read one by one.
LEMMA ReadInTurns ==
    ASSUME store \in [Dids -> Values], NEW n \in Nat, NEW dids \in [1 .. n -> AnyDid]
    PROVE  \E r : /\ r[0] = NothingRead /\ r[n] = WholeRead(dids)
                  /\ \A k \in Nat : k < n => r[k + 1] = ReadNext(r[k], dids[k + 1])
<1>1. DOMAIN dids = 1 .. n
  OBVIOUS
<1>2. PICK G : G = [ p \in (1 .. n) \X Reading |-> ReadNext(p[2], dids[p[1]]) ]
  OBVIOUS
<1>3. G \in [(1 .. n) \X Reading -> Reading]
  <2>1. ASSUME NEW p \in (1 .. n) \X Reading PROVE ReadNext(p[2], dids[p[1]]) \in Reading
    <3>1. p[2] \in Reading /\ dids[p[1]] \in AnyDid
      OBVIOUS
    <3>2. QED
      BY <3>1, ReadNextIs
  <2>2. QED
    BY <1>2, <2>1
<1>4. NothingRead \in Reading
  BY DEF NothingRead, Reading
<1>5. PICK g : IsFold(g, n, Reading, NothingRead, G)
  BY <1>3, <1>4, FoldExists
<1>6. ASSUME NEW s \in SUBSET (1 .. n)
      PROVE  g[s] = IF s = {} THEN NothingRead ELSE ReadNext(g[s \ {Max(s)}], dids[Max(s)])
  <2>1. CASE s = {}
    BY <1>5, <2>1 DEF IsFold
  <2>2. CASE s # {}
    <3>1. PICK m, r : m = Max(s) /\ r = g[s \ {Max(s)}]
      OBVIOUS
    <3>2. m \in 1 .. n /\ r \in Reading
      BY <1>5, <2>2, <3>1, FoldStep
    <3>3. g[s] = G[<<m, r>>]
      BY <1>5, <2>2, <3>1 DEF IsFold
    <3>4. G[<<m, r>>] = ReadNext(r, dids[m])
      BY <1>2, <3>2
    <3>5. QED
      BY <2>2, <3>1, <3>3, <3>4
  <2>3. QED
    BY <2>1, <2>2
<1>7. g = [ s \in SUBSET (1 .. n) |-> g[s] ]
  BY <1>5 DEF IsFold
<1>8. IsReading(g, dids)
  BY <1>1, <1>6, <1>7 DEF IsReading
<1>9. PICK f : IsReading(f, dids) /\ WholeRead(dids) = f[DOMAIN dids]
  BY <1>8, ReadIsFold
<1>10. PICK r : r = [ k \in 0 .. n |-> f[1 .. k] ]
  OBVIOUS
<1>11. r[0] = NothingRead
  <2>1. 1 .. 0 = {} /\ {} \in SUBSET (1 .. n)
    OBVIOUS
  <2>2. f[{}] = NothingRead
    BY <1>1, <1>9, <2>1 DEF IsReading
  <2>3. QED
    BY <1>10, <2>1, <2>2
<1>12. r[n] = WholeRead(dids)
  BY <1>1, <1>9, <1>10
<1>13. ASSUME NEW k \in Nat, k < n PROVE r[k + 1] = ReadNext(r[k], dids[k + 1])
  <2>1. PICK j \in 1 .. n : j = k + 1 /\ j - 1 = k /\ k \in 0 .. n /\ j \in 0 .. n
    BY <1>13
  <2>2. PICK s : s = 1 .. j
    OBVIOUS
  <2>3. s \in SUBSET (1 .. n) /\ s # {} /\ s \ {j} = 1 .. k /\ Max(s) = j
    BY <2>1, <2>2, Prefix
  <2>4. f[s] = ReadNext(f[1 .. k], dids[j])
    BY <1>1, <1>9, <2>3 DEF IsReading
  <2>5. r[j] = f[s] /\ r[k] = f[1 .. k]
    BY <1>10, <2>1, <2>2
  <2>6. QED
    BY <2>1, <2>4, <2>5
<1>14. QED
  BY <1>11, <1>12, <1>13

\* The length of the answer is a fold too.
IsLength(g, dids) ==
    g = [ s \in SUBSET (DOMAIN dids) |->
            IF s = {} THEN 0 ELSE g[s \ {Max(s)}] + 2 + DataLength[dids[Max(s)]] ]

LEMMA LengthIsFold ==
    ASSUME NEW dids, NEW g, IsLength(g, dids)
    PROVE  \E f : IsLength(f, dids) /\ AnswerLength(dids) = 1 + f[DOMAIN dids]
BY Zenon DEF AnswerLength, FoldLeft, MapThenFoldSet, IsLength

\* So lengths are added up one by one.
LEMMA LengthInTurns ==
    ASSUME NEW n \in Nat, NEW dids \in [1 .. n -> Dids]
    PROVE  \E w : /\ w[0] = 0 /\ 1 + w[n] = AnswerLength(dids)
                  /\ \A k \in Nat : k < n => w[k + 1] = w[k] + 2 + DataLength[dids[k + 1]]
<1>1. DOMAIN dids = 1 .. n
  OBVIOUS
<1>2. \A i \in 1 .. n : DataLength[dids[i]] \in Nat
  BY DataConstants
<1>3. PICK size : size = [ i \in 1 .. n |-> DataLength[dids[i]] ]
  OBVIOUS
<1>4. size \in [1 .. n -> Nat]
  BY <1>2, <1>3
<1>5. PICK G : G = [ p \in (1 .. n) \X Nat |-> p[2] + 2 + size[p[1]] ]
  OBVIOUS
<1>6. G \in [(1 .. n) \X Nat -> Nat]
  BY <1>4, <1>5
<1>7. PICK g : IsFold(g, n, Nat, 0, G)
  BY <1>6, FoldExists
<1>8. ASSUME NEW s \in SUBSET (1 .. n)
      PROVE  g[s] = IF s = {} THEN 0 ELSE g[s \ {Max(s)}] + 2 + DataLength[dids[Max(s)]]
  <2>1. CASE s = {}
    BY <1>7, <2>1 DEF IsFold
  <2>2. CASE s # {}
    <3>1. PICK m, r : m = Max(s) /\ r = g[s \ {Max(s)}]
      OBVIOUS
    <3>2. m \in 1 .. n /\ r \in Nat
      <4>1. Max(s) \in 1 .. n
        BY <1>7, <2>2, FoldStep
      <4>2. g[s \ {Max(s)}] \in Nat
        BY <1>7, <2>2, FoldStep
      <4>3. QED
        BY <3>1, <4>1, <4>2
    <3>3. g[s] = G[<<m, r>>]
      BY <1>7, <2>2, <3>1 DEF IsFold
    <3>4. G[<<m, r>>] = r + 2 + size[m] /\ size[m] = DataLength[dids[m]]
      BY <1>3, <1>5, <3>2
    <3>5. QED
      BY <2>2, <3>1, <3>3, <3>4
  <2>3. QED
    BY <2>1, <2>2
<1>9. g = [ s \in SUBSET (1 .. n) |-> g[s] ]
  BY <1>7 DEF IsFold
<1>10. IsLength(g, dids)
  BY <1>1, <1>8, <1>9 DEF IsLength
<1>11. PICK f : IsLength(f, dids) /\ AnswerLength(dids) = 1 + f[DOMAIN dids]
  BY <1>10, LengthIsFold
<1>12. PICK w : w = [ k \in 0 .. n |-> f[1 .. k] ]
  OBVIOUS
<1>13. w[0] = 0
  <2>1. 1 .. 0 = {} /\ {} \in SUBSET (1 .. n)
    OBVIOUS
  <2>2. f[{}] = 0
    BY <1>1, <1>11, <2>1 DEF IsLength
  <2>3. QED
    BY <1>12, <2>1, <2>2
<1>14. 1 + w[n] = AnswerLength(dids)
  BY <1>1, <1>11, <1>12
<1>15. ASSUME NEW k \in Nat, k < n PROVE w[k + 1] = w[k] + 2 + DataLength[dids[k + 1]]
  <2>1. PICK j \in 1 .. n : j = k + 1 /\ j - 1 = k /\ k \in 0 .. n /\ j \in 0 .. n
    BY <1>15
  <2>2. PICK s : s = 1 .. j
    OBVIOUS
  <2>3. s \in SUBSET (1 .. n) /\ s # {} /\ s \ {j} = 1 .. k /\ Max(s) = j
    BY <2>1, <2>2, Prefix
  <2>4. f[s] = f[1 .. k] + 2 + DataLength[dids[j]]
    BY <1>1, <1>11, <2>3 DEF IsLength
  <2>5. w[j] = f[s] /\ w[k] = f[1 .. k]
    BY <1>12, <2>1, <2>2
  <2>6. QED
    BY <2>1, <2>4, <2>5
<1>16. QED
  BY <1>13, <1>14, <1>15

\* What the loop has after some turns.
LEMMA ReadingStays ==
    ASSUME store \in [Dids -> Values], NEW n \in Nat, NEW dids \in [1 .. n -> AnyDid],
           NEW r, r[0] = NothingRead,
           \A k \in Nat : k < n => r[k + 1] = ReadNext(r[k], dids[k + 1])
    PROVE  \A k \in 0 .. n : r[k] \in Reading
<1>1. PICK S : S = { k \in Nat : r[k] \in Reading }
  OBVIOUS
<1>2. 0 \in S
  <2>1. NothingRead \in Reading
    BY DEF NothingRead, Reading
  <2>2. QED
    BY <1>1, <2>1
<1>3. ASSUME NEW k \in Nat, k < n, k \in S PROVE k + 1 \in S
  <2>1. r[k] \in Reading /\ dids[k + 1] \in AnyDid
    BY <1>1, <1>3
  <2>2. ReadNext(r[k], dids[k + 1]) \in Reading
    BY <2>1, ReadNextIs
  <2>3. QED
    BY <1>1, <1>3, <2>2
<1>4. \A k \in 0 .. n : k \in S
  BY <1>2, <1>3, Upwards
<1>5. QED
  BY <1>1, <1>4

\* An identifier that cannot be read refuses the request.
LEMMA RefusedByOne ==
    ASSUME store \in [Dids -> Values], NEW n \in Nat, NEW dids \in [1 .. n -> AnyDid],
           NEW i \in 1 .. n, dids[i] \notin Readable
    PROVE  WholeRead(dids) \in Reading /\ WholeRead(dids).nrc # "None"
<1>1. PICK r : /\ r[0] = NothingRead /\ r[n] = WholeRead(dids)
               /\ \A k \in Nat : k < n => r[k + 1] = ReadNext(r[k], dids[k + 1])
  BY ReadInTurns
<1>2. \A k \in 0 .. n : r[k] \in Reading
  BY <1>1, ReadingStays
<1>3. PICK S : S = { k \in Nat : k >= i => r[k].nrc # "None" }
  OBVIOUS
<1>4. 0 \in S
  BY <1>3
<1>5. ASSUME NEW k \in Nat, k < n, k \in S PROVE k + 1 \in S
  <2>1. r[k] \in Reading /\ dids[k + 1] \in AnyDid /\ r[k + 1] = ReadNext(r[k], dids[k + 1])
    BY <1>1, <1>2, <1>5
  <2>2. CASE r[k].nrc # "None"
    BY <1>3, <2>1, <2>2, ReadNextIs
  <2>3. CASE r[k].nrc = "None"
    <3>1. ~(k >= i)
      BY <1>3, <1>5, <2>3
    <3>2. CASE k + 1 = i
      <4>1. dids[k + 1] \notin Readable
        BY <3>2
      <4>2. ReadNext(r[k], dids[k + 1]).nrc # "None"
        BY <2>1, <2>3, <4>1, ReadNextIs
      <4>3. QED
        BY <1>3, <2>1, <4>2
    <3>3. CASE k + 1 # i
      BY <1>3, <3>1, <3>3
    <3>4. QED
      BY <3>2, <3>3
  <2>4. QED
    BY <2>2, <2>3
<1>6. \A k \in 0 .. n : k \in S
  BY <1>4, <1>5, Upwards
<1>7. n \in S /\ n >= i
  BY <1>6
<1>8. QED
  BY <1>1, <1>2, <1>3, <1>7

\* When all can be read, the loop comes through exactly when there is room.
Through(r, w, k, dids) ==
    IF 1 + w <= Room
    THEN /\ r.nrc = "None" /\ r.pos = 1 + w /\ Len(r.data) = k
         /\ \A i \in 1 .. k : r.data[i] = <<dids[i], store[dids[i]]>>
    ELSE r.nrc # "None"

\* By induction over its turns.
LEMMA ThroughAll ==
    ASSUME store \in [Dids -> Values], NEW n \in Nat, NEW dids \in [1 .. n -> AnyDid],
           \A i \in 1 .. n : dids[i] \in Readable
    PROVE  /\ WholeRead(dids) \in Reading
           /\ AnswerLength(dids) \in Nat
           /\ Through(WholeRead(dids), AnswerLength(dids) - 1, n, dids)
<1>1. PICK r : /\ r[0] = NothingRead /\ r[n] = WholeRead(dids)
               /\ \A k \in Nat : k < n => r[k + 1] = ReadNext(r[k], dids[k + 1])
  BY ReadInTurns
<1>2. \A k \in 0 .. n : r[k] \in Reading
  BY <1>1, ReadingStays
<1>3. dids \in [1 .. n -> Dids]
  BY DEF Dids
<1>4. PICK w : /\ w[0] = 0 /\ 1 + w[n] = AnswerLength(dids)
               /\ \A k \in Nat : k < n => w[k + 1] = w[k] + 2 + DataLength[dids[k + 1]]
  BY <1>3, LengthInTurns
<1>5. Room \in Nat \ {0}
  BY DataConstants
<1>6. PICK S : S = { k \in Nat : w[k] \in Nat /\ Through(r[k], w[k], k, dids) }
  OBVIOUS
<1>7. 0 \in S
  <2>1. r[0].nrc = "None" /\ r[0].pos = 1 /\ Len(r[0].data) = 0
    BY <1>1 DEF NothingRead
  <2>2. Through(r[0], 0, 0, dids)
    BY <1>5, <2>1 DEF Through
  <2>3. QED
    BY <1>4, <1>6, <2>2
<1>8. ASSUME NEW k \in Nat, k < n, k \in S PROVE k + 1 \in S
  <2>1. PICK j \in 1 .. n : j = k + 1
    BY <1>8
  <2>2. PICK a, b : a = r[k] /\ b = r[j] /\ a \in Reading /\ b = ReadNext(a, dids[j])
    BY <1>1, <1>2, <1>8, <2>1
  <2>3. PICK d \in Nat : d = DataLength[dids[j]]
    BY <1>3, DataConstants
  <2>4. PICK v \in Nat : v = w[k] /\ w[j] = v + 2 + d /\ w[j] \in Nat
    <3>1. PICK v \in Nat : v = w[k]
      BY <1>6, <1>8
    <3>2. w[j] = v + 2 + d
      BY <1>4, <1>8, <2>1, <2>3, <3>1
    <3>3. QED
      BY <3>1, <3>2
  <2>5. Through(a, v, k, dids)
    BY <1>6, <1>8, <2>2, <2>4
  <2>6. ASSUME Through(b, w[j], j, dids) PROVE k + 1 \in S
    <3>1. Through(r[j], w[j], j, dids)
      BY <2>2, <2>6, Zenon
    <3>2. j \in Nat
      OBVIOUS
    <3>3. j \in S
      BY <1>6, <2>4, <3>1, <3>2
    <3>4. QED
      BY <2>1, <3>3
  <2>7. dids[j] \in AnyDid /\ dids[j] \in Readable
    OBVIOUS
  <2>8. CASE ~(1 + v <= Room)
    <3>1. a.nrc # "None"
      BY <2>5, <2>8 DEF Through
    <3>2. b = a
      BY <2>2, <2>7, <3>1, ReadNextIs
    <3>3. ~(1 + w[j] <= Room)
      <4>1. Room \in Nat /\ v \in Nat /\ d \in Nat
        BY <1>5
      <4>2. ~(1 + (v + 2 + d) <= Room)
        BY <2>8, <4>1
      <4>3. QED
        BY <2>4, <4>2, Zenon
    <3>4. Through(b, w[j], j, dids)
      BY <3>1, <3>2, <3>3 DEF Through
    <3>5. QED
      BY <2>6, <3>4
  <2>9. CASE 1 + v <= Room
    <3>1. /\ a.nrc = "None" /\ a.pos = 1 + v /\ Len(a.data) = k
          /\ \A i \in 1 .. k : a.data[i] = <<dids[i], store[dids[i]]>>
      BY <2>5, <2>9 DEF Through
    <3>2. a.pos + 2 + d = 1 + w[j]
      BY <2>4, <3>1
    <3>3. CASE ~(1 + w[j] <= Room)
      <4>1. b.nrc # "None"
        BY <2>2, <2>3, <2>7, <3>1, <3>2, <3>3, ReadNextIs
      <4>2. Through(b, w[j], j, dids)
        BY <3>3, <4>1 DEF Through
      <4>3. QED
        BY <2>6, <4>2
    <3>4. CASE 1 + w[j] <= Room
      <4>1. PICK x : x = <<dids[j], store[dids[j]]>>
        OBVIOUS
      <4>2. b.nrc = "None" /\ b.pos = 1 + w[j] /\ b.data = Append(a.data, x)
        <5>1. PICK e \in AnyDid : e = dids[j] /\ e \in Readable
          BY <2>7
        <5>2. a.pos + 2 + DataLength[e] <= Room /\ b = ReadNext(a, e)
          BY <2>2, <2>3, <3>2, <3>4, <5>1
        <5>3. b.nrc = "None"
          BY <2>2, <3>1, <5>1, <5>2, ReadOn
        <5>4. b.pos = a.pos + 2 + DataLength[e]
          BY <2>2, <3>1, <5>1, <5>2, ReadOn
        <5>5. b.data = Append(a.data, <<e, store[e]>>)
          BY <2>2, <3>1, <5>1, <5>2, ReadOn
        <5>6. QED
          BY <2>3, <3>2, <4>1, <5>1, <5>3, <5>4, <5>5
      <4>3. PICK s \in Seq(Pairs) : s = a.data
        BY <2>2 DEF Reading
      <4>4. x \in Pairs
        BY <2>7, <4>1 DEF Pairs, Dids
      <4>5. /\ Len(Append(s, x)) = k + 1 /\ Append(s, x)[k + 1] = x
            /\ \A i \in 1 .. k : Append(s, x)[i] = s[i]
        BY <3>1, <4>3, <4>4
      <4>6. Len(b.data) = j /\ b.data[j] = x /\ \A i \in 1 .. k : b.data[i] = a.data[i]
        BY <2>1, <4>2, <4>3, <4>5
      <4>7. ASSUME NEW i \in 1 .. j PROVE b.data[i] = <<dids[i], store[dids[i]]>>
        <5>1. CASE i = j
          BY <4>1, <4>6, <5>1
        <5>2. CASE i # j
          <6>1. i \in 1 .. k
            BY <2>1, <5>2
          <6>2. QED
            BY <3>1, <4>6, <6>1
        <5>3. QED
          BY <5>1, <5>2
      <4>8. Through(b, w[j], j, dids)
        BY <3>4, <4>2, <4>6, <4>7 DEF Through
      <4>9. QED
        BY <2>6, <4>8
    <3>5. QED
      BY <3>3, <3>4
  <2>10. QED
    BY <2>8, <2>9
<1>9. \A k \in 0 .. n : k \in S
  BY <1>7, <1>8, Upwards
<1>10. w[n] \in Nat /\ Through(r[n], w[n], n, dids)
  BY <1>6, <1>9
<1>11. AnswerLength(dids) \in Nat /\ w[n] = AnswerLength(dids) - 1
  BY <1>4, <1>10
<1>12. QED
  BY <1>1, <1>2, <1>10, <1>11

-----------------------------------------------------------------------------
(* What was told is what there is.                                         *)

DataStored ==
    /\ store \in [Dids -> Values]
    /\ memory \in [Address -> Values]
    /\ \/ written = [store |-> store, memory |-> memory]
       \/ written = [store |-> store, memory |-> NoMemory]

DataInd == DataStored /\ ReadsCoherent

LEMMA DataStart == DataInit => DataInd
<1> SUFFICES ASSUME DataInit PROVE DataInd
  OBVIOUS
<1>1. FirstValue \in Values
  BY DataConstants
<1>2. DataStored
  BY <1>1 DEF DataInit, DataStored
<1>3. asked.kind = "None"
  BY DEF DataInit, Nothing
<1>4. ReadsCoherent
  BY <1>3 DEF ReadsCoherent
<1>5. QED
  BY <1>2, <1>4 DEF DataInd

\* The answer to a read of identifiers, from what its loop has read.
LEMMA ReadDidsStep ==
    ASSUME DataStored, NEW n \in Nat, NEW dids \in [1 .. n -> AnyDid],
           ReadDataByIdentifier(dids)
    PROVE  DataInd'
<1>1. /\ asked' = [kind |-> "ReadDids", dids |-> dids]
      /\ store' = store /\ memory' = memory /\ written' = written
  BY DEF ReadDataByIdentifier
<1>2. DataStored'
  BY <1>1 DEF DataStored
<1>3. answer' = IF WholeRead(dids).nrc # "None" THEN <<WholeRead(dids).nrc>>
                ELSE WholeRead(dids).data
  BY Zenon DEF ReadDataByIdentifier, WholeRead, NothingRead
<1>4. store \in [Dids -> Values] /\ written'.store = store
  BY <1>1 DEF DataStored
<1>5. dids \in Seq(AnyDid) /\ Len(dids) = n
  <2>1. dids \in Seq(AnyDid)
    BY SeqDef, Zenon
  <2>2. QED
    BY <2>1, LenProperties
<1>6. PICK whole : whole = [i \in 1 .. n |-> <<dids[i], store[dids[i]]>>]
  OBVIOUS
<1>7. ASSUME WholeRead(dids) \in Reading, WholeRead(dids).nrc # "None"
      PROVE  Len(answer') = 1 /\ answer'[1] \in Refusals
  BY <1>3, <1>7 DEF Reading
<1>8. CASE (\A i \in 1 .. n : dids[i] \in Readable) /\ AnswerLength(dids) <= Room
  <2>1. /\ WholeRead(dids) \in Reading /\ AnswerLength(dids) \in Nat
        /\ Through(WholeRead(dids), AnswerLength(dids) - 1, n, dids)
    BY <1>4, <1>8, ThroughAll
  <2>2. 1 + (AnswerLength(dids) - 1) <= Room
    BY <1>8, <2>1
  <2>3. /\ WholeRead(dids).nrc = "None" /\ Len(WholeRead(dids).data) = n
        /\ \A i \in 1 .. n : WholeRead(dids).data[i] = <<dids[i], store[dids[i]]>>
    BY <2>1, <2>2 DEF Through
  <2>4. PICK s \in Seq(Pairs) : s = WholeRead(dids).data
    BY <2>1 DEF Reading
  <2>5. answer' = s /\ s = [ i \in 1 .. n |-> s[i] ]
    BY <1>3, <2>3, <2>4
  <2>6. answer' = whole
    BY <1>6, <2>3, <2>4, <2>5
  <2>7. QED
    BY <1>1, <1>2, <1>4, <1>5, <1>6, <1>8, <2>6 DEF DataInd, ReadsCoherent
<1>9. CASE ~((\A i \in 1 .. n : dids[i] \in Readable) /\ AnswerLength(dids) <= Room)
  <2>1. WholeRead(dids) \in Reading /\ WholeRead(dids).nrc # "None"
    <3>1. CASE \A i \in 1 .. n : dids[i] \in Readable
      <4>1. /\ WholeRead(dids) \in Reading /\ AnswerLength(dids) \in Nat
            /\ Through(WholeRead(dids), AnswerLength(dids) - 1, n, dids)
        BY <1>4, <3>1, ThroughAll
      <4>2. ~(1 + (AnswerLength(dids) - 1) <= Room)
        BY <1>9, <3>1, <4>1
      <4>3. QED
        BY <4>1, <4>2 DEF Through
    <3>2. CASE \E i \in 1 .. n : dids[i] \notin Readable
      BY <1>4, <3>2, RefusedByOne
    <3>3. QED
      BY <3>1, <3>2
  <2>2. Len(answer') = 1 /\ answer'[1] \in Refusals
    BY <1>7, <2>1
  <2>3. QED
    BY <1>1, <1>2, <1>5, <1>9, <2>2 DEF DataInd, ReadsCoherent
<1>10. QED
  BY <1>8, <1>9

\* A step after which no read is remembered.
LEMMA ForgetfulStep ==
    ASSUME DataStored', asked' = Nothing
    PROVE  DataInd'
<1>1. asked'.kind = "None"
  BY DEF Nothing
<1>2. QED
  BY <1>1 DEF DataInd, ReadsCoherent

\* A write that is answered changes what was told and what there is alike.
LEMMA WriteDidStep ==
    ASSUME DataStored, NEW did \in AnyDid, NEW value \in Values, NEW ok \in BOOLEAN,
           WriteDataByIdentifier(did, value, ok)
    PROVE  DataInd'
<1>1. asked' = Nothing /\ memory' = memory
  BY DEF WriteDataByIdentifier
<1>2. CASE UNCHANGED <<store, written>>
  <2>1. DataStored'
    BY <1>1, <1>2 DEF DataStored
  <2>2. QED
    BY <1>1, <2>1, ForgetfulStep
<1>3. CASE /\ did \in Writable /\ store' = [store EXCEPT ![did] = value]
           /\ written' = [written EXCEPT !.store[did] = value]
  <2>1. PICK s, m : /\ written = [store |-> s, memory |-> m]
                    /\ s = store /\ (m = memory \/ m = NoMemory)
    BY DEF DataStored
  <2>2. written' = [store |-> [s EXCEPT ![did] = value], memory |-> m]
    BY <1>3, <2>1
  <2>3. store' \in [Dids -> Values] /\ memory' \in [Address -> Values]
    BY <1>1, <1>3 DEF DataStored, Dids
  <2>4. DataStored'
    BY <1>1, <1>3, <2>1, <2>2, <2>3 DEF DataStored
  <2>5. QED
    BY <1>1, <2>4, ForgetfulStep
<1>4. QED
  BY <1>2, <1>3 DEF WriteDataByIdentifier

\* Memory is read where the bytes of the request mean.
LEMMA ReadMemoryStep ==
    ASSUME DataStored, NEW address \in Formats, NEW size \in Formats,
           ReadMemoryByAddress(address, size)
    PROVE  DataInd'
<1>1. /\ asked' = [kind |-> "ReadMemory", address |-> address, size |-> size]
      /\ store' = store /\ memory' = memory /\ written' = written
  BY DEF ReadMemoryByAddress
<1>2. DataStored'
  BY <1>1 DEF DataStored
<1>3. CASE written.memory = NoMemory \/ Beyond(address, size)
  <2>1. written'.memory = NoMemory \/ Beyond(asked'.address, asked'.size)
    BY <1>1, <1>3
  <2>2. QED
    BY <1>1, <1>2, <2>1 DEF DataInd, ReadsCoherent, Beyond
<1>4. CASE ~(written.memory = NoMemory \/ Beyond(address, size))
  <2>1. PICK a \in Nat, n \in Nat :
            a = Number[address] /\ n = Number[size] /\ a = Meant[address] /\ n = Meant[size]
    BY <1>4, NumberWithin
  <2>2. answer' =
          IF address = <<>> \/ size = <<>> THEN <<"IncorrectLength">>
          ELSE IF n = 0 \/ n > Room - 1 THEN <<"ResponseTooLong">>
          ELSE IF ~(a + n <= Cells) THEN <<"RequestOutOfRange">>
          ELSE [i \in 1 .. n |-> memory[a + i - 1]]
    BY <2>1 DEF ReadMemoryByAddress, Served
  <2>3. written'.memory = memory
    BY <1>1, <1>4 DEF DataStored
  <2>4. Room \in Nat \ {0} /\ Cells \in Nat
    BY DataConstants
  <2>5. size = <<>> => n = 0
    <3> SUFFICES ASSUME size = <<>> PROVE n = 0
      OBVIOUS
    <3>1. Len(size) = 0
      OBVIOUS
    <3>2. PICK v : v[0] = 0 /\ v[0] = Number[size]
      BY <3>1, NumberInTurns
    <3>3. QED
      BY <2>1, <3>2
  <2>6. CASE address # <<>> /\ n > 0 /\ n < Room /\ a + n <= Cells
    <3>1. answer' = [i \in 1 .. n |-> memory[a + i - 1]]
      BY <2>2, <2>4, <2>5, <2>6
    <3>2. QED
      BY <1>1, <1>2, <2>1, <2>3, <2>6, <3>1 DEF DataInd, ReadsCoherent
  <2>7. CASE ~(address # <<>> /\ n > 0 /\ n < Room /\ a + n <= Cells)
    <3>1. \/ answer' = <<"IncorrectLength">>
          \/ answer' = <<"ResponseTooLong">>
          \/ answer' = <<"RequestOutOfRange">>
      BY <2>2, <2>4, <2>7
    <3>2. Len(answer') = 1 /\ answer'[1] \in Refusals
      BY <3>1 DEF Refusals
    <3>3. QED
      BY <1>1, <1>2, <2>1, <2>7, <3>2 DEF DataInd, ReadsCoherent
  <2>8. QED
    BY <2>6, <2>7
<1>5. QED
  BY <1>3, <1>4

\* And written there.
LEMMA WriteMemoryStep ==
    ASSUME DataStored, NEW address \in Formats, NEW size \in Formats, NEW value \in Values,
           NEW given, NEW ok \in BOOLEAN,
           WriteMemoryByAddress(address, size, value, given, ok)
    PROVE  DataInd'
<1>1. asked' = Nothing /\ store' = store
  BY DEF WriteMemoryByAddress
<1>2. CASE UNCHANGED <<memory, written>>
  <2>1. DataStored'
    BY <1>1, <1>2 DEF DataStored
  <2>2. QED
    BY <1>1, <2>1, ForgetfulStep
<1>3. CASE /\ memory' = Filled(memory, Number[address], Number[size], value)
           /\ written' = [written EXCEPT !.memory =
                                IF @ = NoMemory \/ Beyond(address, size) THEN NoMemory
                                ELSE Filled(@, Meant[address], Meant[size], value)]
  <2>1. PICK s, m : /\ written = [store |-> s, memory |-> m]
                    /\ s = store /\ (m = memory \/ m = NoMemory)
    BY DEF DataStored
  <2>2. PICK n : n = IF m = NoMemory \/ Beyond(address, size) THEN NoMemory
                     ELSE Filled(m, Meant[address], Meant[size], value)
    OBVIOUS
  <2>3. written' = [store |-> s, memory |-> n]
    BY <1>3, <2>1, <2>2
  <2>4. n = memory' \/ n = NoMemory
    <3>1. CASE m = NoMemory \/ Beyond(address, size)
      BY <2>2, <3>1
    <3>2. CASE ~(m = NoMemory \/ Beyond(address, size))
      <4>1. Number[address] = Meant[address] /\ Number[size] = Meant[size] /\ m = memory
        BY <2>1, <3>2, NumberWithin
      <4>2. QED
        BY <1>3, <2>2, <3>2, <4>1
    <3>3. QED
      BY <3>1, <3>2
  <2>5. memory' \in [Address -> Values]
    <3>1. memory \in [Address -> Values]
      BY DEF DataStored
    <3>2. QED
      BY <1>3, <3>1 DEF Filled
  <2>6. store' \in [Dids -> Values]
    BY <1>1 DEF DataStored
  <2>7. DataStored'
    BY <1>1, <2>1, <2>3, <2>4, <2>5, <2>6 DEF DataStored
  <2>8. QED
    BY <1>1, <2>7, ForgetfulStep
<1>4. QED
  BY <1>2, <1>3 DEF WriteMemoryByAddress

LEMMA DataStep == DataInd /\ DataNext => DataInd'
<1> SUFFICES ASSUME DataInd, DataNext PROVE DataInd'
  OBVIOUS
<1>1. DataStored
  BY DEF DataInd
<1>2. CASE \E dids \in SeqOf(AnyDid, MaxDids) : ReadDataByIdentifier(dids)
  <2>1. PICK dids \in SeqOf(AnyDid, MaxDids) : ReadDataByIdentifier(dids)
    BY <1>2
  <2>2. PICK n \in 0 .. MaxDids : dids \in [1 .. n -> AnyDid]
    BY DEF SeqOf
  <2>3. n \in Nat
    OBVIOUS
  <2>4. QED
    BY <1>1, <2>1, <2>2, <2>3, ReadDidsStep
<1>3. CASE \E did \in AnyDid, value \in Values, ok \in BOOLEAN :
               WriteDataByIdentifier(did, value, ok)
  BY <1>1, <1>3, WriteDidStep
<1>4. CASE \E address, size \in Formats : ReadMemoryByAddress(address, size)
  BY <1>1, <1>4, ReadMemoryStep
<1>5. CASE \E address, size \in Formats, value \in Values, given \in {0, Cells}, ok \in BOOLEAN :
               WriteMemoryByAddress(address, size, value, given, ok)
  BY <1>1, <1>5, WriteMemoryStep
<1>6. QED
  BY <1>2, <1>3, <1>4, <1>5 DEF DataNext, AnyDid

LEMMA DataPart == DataInd /\ [LibraryNext]_libraryVars => DataInd'
<1> SUFFICES ASSUME DataInd, [LibraryNext]_libraryVars PROVE DataInd'
  OBVIOUS
<1>1. CASE DataNext
  BY <1>1, DataStep
<1>2. CASE UNCHANGED dataVars
  BY <1>2 DEF dataVars, DataInd, DataStored, ReadsCoherent
<1>3. QED
  BY <1>1, <1>2 DEF LibraryNext, libraryVars

\* read_data_by_identifier.cpp, read_memory_by_address.cpp: for any identifiers,
\* any memory and any size of the response buffer, a read is answered with all of
\* what was asked for and last written, or with one negative response code; of
\* memory this is proved while every address and size is one that a word holds.
THEOREM ReadsAreCoherent == LibrarySpec => []ReadsCoherent
<1>1. LibraryInit => DataInd
  BY DataStart DEF LibraryInit
<1>2. DataInd => ReadsCoherent
  BY DEF DataInd
<1>3. QED
  BY <1>1, <1>2, DataPart, PTL DEF LibrarySpec

-----------------------------------------------------------------------------
(* The CRCs: division of polynomials over the bits, the degree of each     *)
(* term in a set.                                                          *)

\* A polynomial, as the set of the degrees it has, times x^m.
Plus(v, m) == { b + m : b \in v }

\* Its degrees,
LEMMA InPlus ==
    ASSUME NEW v \in SUBSET Int, NEW m \in Int
    PROVE  /\ Plus(v, m) \in SUBSET Int
           /\ \A x \in Int : x \in Plus(v, m) <=> x - m \in v
<1>1. \A b \in v : b + m \in Int
  OBVIOUS
<1>2. Plus(v, m) \in SUBSET Int
  BY <1>1 DEF Plus
<1>3. ASSUME NEW x \in Int PROVE x \in Plus(v, m) <=> x - m \in v
  <2>1. ASSUME x \in Plus(v, m) PROVE x - m \in v
    <3>1. PICK b \in v : x = b + m
      BY <2>1 DEF Plus
    <3>2. b = x - m
      BY <3>1
    <3>3. QED
      BY <3>2
  <2>2. ASSUME x - m \in v PROVE x \in Plus(v, m)
    <3>1. x = (x - m) + m
      OBVIOUS
    <3>2. QED
      BY <2>2, <3>1 DEF Plus
  <2>3. QED
    BY <2>1, <2>2
<1>4. QED
  BY <1>2, <1>3

\* those of a sum,
LEMMA InXor ==
    ASSUME NEW v, NEW w
    PROVE  \A x : x \in Xor(v, w) <=> ~ (x \in v <=> x \in w)
BY DEF Xor

\* which is a polynomial too.
LEMMA XorIsInt ==
    ASSUME NEW v \in SUBSET Int, NEW w \in SUBSET Int
    PROVE  Xor(v, w) \in SUBSET Int
BY DEF Xor

\* Equal if they have the same degrees.
LEMMA SameIntegers ==
    ASSUME NEW v \in SUBSET Int, NEW w \in SUBSET Int, \A x \in Int : x \in v <=> x \in w
    PROVE  v = w
OBVIOUS

\* One step of a division: a degree is cancelled by a multiple of the divisor.
Cancel(rest, degree, divisor, width) ==
    IF degree \in rest THEN Xor(rest, Plus(divisor, degree - width)) ELSE rest

\* It leaves a polynomial.
LEMMA CancelIsInt ==
    ASSUME NEW rest \in SUBSET Int, NEW degree \in Int, NEW divisor \in SUBSET Int,
           NEW width \in Int
    PROVE  Cancel(rest, degree, divisor, width) \in SUBSET Int
<1>1. degree - width \in Int
  OBVIOUS
<1>2. Plus(divisor, degree - width) \in SUBSET Int
  BY <1>1, InPlus
<1>3. QED
  BY <1>2, XorIsInt DEF Cancel

\* A division that takes m steps.
IsDivision(r, dividend, divisor, width, m) ==
    /\ r[0] = dividend
    /\ \A k \in Nat : k < m => r[k + 1] = Cancel(r[k], m + width - 1 - k, divisor, width)

\* The remainder as the recursion of Remainder: top is the highest degree.
IsRest(r, dividend, divisor, width, top) ==
    r = [ d \in width - 1 .. top |->
            IF d = top THEN dividend
            ELSE LET rest == r[d + 1]
                 IN  IF d + 1 \notin rest THEN rest
                     ELSE Xor(rest, { d + 1 - width + k : k \in divisor }) ]

\* There being one such recursion, the remainder is read from one.
LEMMA RemainderIsRest ==
    ASSUME NEW dividend, NEW bytes, NEW divisor, NEW width, NEW g,
           IsRest(g, dividend, divisor, width, 8 * bytes + width - 1)
    PROVE  \E r : /\ IsRest(r, dividend, divisor, width, 8 * bytes + width - 1)
                  /\ Remainder(dividend, bytes, divisor, width) = r[width - 1]
BY Zenon DEF Remainder, IsRest

\* A step of that recursion,
RestStep(rest, degree, m, divisor) ==
    IF degree \notin rest THEN rest ELSE Xor(rest, { m + k : k \in divisor })

\* which writes out the multiple that it cancels with,
LEMMA PlusIs ==
    ASSUME NEW v \in SUBSET Int, NEW m \in Int
    PROVE  { m + k : k \in v } = Plus(v, m)
<1>1. \A k \in v : m + k = k + m
  OBVIOUS
<1>2. QED
  BY <1>1 DEF Plus

\* is a step of the division.
LEMMA RestStepCancels ==
    ASSUME NEW rest, NEW divisor \in SUBSET Int, NEW width, NEW degree,
           degree - width \in Int
    PROVE  RestStep(rest, degree, degree - width, divisor) = Cancel(rest, degree, divisor, width)
<1>1. { degree - width + k : k \in divisor } = Plus(divisor, degree - width)
  BY PlusIs, Zenon
<1>2. QED
  BY <1>1, Zenon DEF RestStep, Cancel

\* The remainder, step by step: a division of as many steps as there are bits of
\* data ends in it.
LEMMA RemainderInTurns ==
    ASSUME NEW dividend \in SUBSET Int, NEW divisor \in SUBSET Int, NEW width \in Nat,
           NEW bytes \in Nat, NEW m \in Nat, m = 8 * bytes
    PROVE  \E r : /\ IsDivision(r, dividend, divisor, width, m)
                  /\ r[m] = Remainder(dividend, bytes, divisor, width)
<1>1. PICK T : T = SUBSET Int
  OBVIOUS
<1>2. PICK G : G = [ p \in Nat \X T |-> Cancel(p[2], m + width - 1 - p[1], divisor, width) ]
  OBVIOUS
<1>3. G \in [Nat \X T -> T]
  <2>1. ASSUME NEW p \in Nat \X T
        PROVE  Cancel(p[2], m + width - 1 - p[1], divisor, width) \in T
    <3>1. p[2] \in SUBSET Int /\ m + width - 1 - p[1] \in Int /\ width \in Int
      BY <1>1
    <3>2. QED
      BY <1>1, <3>1, CancelIsInt
  <2>2. QED
    BY <1>2, <2>1
<1>4. PICK h : IsRecursive(h, m, T, dividend, G)
  <2>1. dividend \in T
    BY <1>1
  <2>2. QED
    BY <1>3, <2>1, RecursiveUpTo
<1>5. ASSUME NEW k \in Nat, k < m
      PROVE  h[k] \in SUBSET Int /\ h[k + 1] = Cancel(h[k], m + width - 1 - k, divisor, width)
  <2>1. PICK v : v = h[k]
    OBVIOUS
  <2>2. v \in T /\ h[k + 1] = G[<<k, v>>]
    BY <1>4, <1>5, <2>1 DEF IsRecursive
  <2>3. G[<<k, v>>] = Cancel(v, m + width - 1 - k, divisor, width)
    BY <1>2, <2>2
  <2>4. QED
    BY <1>1, <2>1, <2>2, <2>3
<1>6. PICK top \in Int : top = m + width - 1
  OBVIOUS
<1>7. PICK g : g = [ d \in width - 1 .. top |-> h[top - d] ]
  OBVIOUS
<1>8. ASSUME NEW d \in width - 1 .. top
      PROVE  g[d] = IF d = top THEN dividend
                    ELSE LET rest == g[d + 1]
                         IN  IF d + 1 \notin rest THEN rest
                             ELSE Xor(rest, { d + 1 - width + k : k \in divisor })
  <2>1. CASE d = top
    <3>1. top - d = 0
      BY <2>1
    <3>2. QED
      BY <1>4, <1>7, <2>1, <3>1 DEF IsRecursive
  <2>2. CASE d # top
    <3>1. PICK k \in Nat : k = top - (d + 1) /\ k < m /\ k + 1 = top - d
                           /\ m + width - 1 - k = d + 1
      <4>1. d \in Int /\ d <= top - 1 /\ d >= width - 1
        BY <1>6, <2>2
      <4>2. top - (d + 1) \in Nat /\ top - (d + 1) < m /\ top - (d + 1) + 1 = top - d
            /\ m + width - 1 - (top - (d + 1)) = d + 1
        BY <1>6, <4>1
      <4>3. QED
        BY <4>2
    <3>2. d + 1 \in width - 1 .. top
      BY <2>2
    <3>3. g[d + 1] = h[k] /\ g[d] = h[k + 1]
      BY <1>7, <3>1, <3>2
    <3>4. g[d] = Cancel(g[d + 1], d + 1, divisor, width) /\ g[d + 1] \in SUBSET Int
      BY <1>5, <3>1, <3>3
    <3>5. (d + 1) - width \in Int /\ d + 1 - width = (d + 1) - width
      OBVIOUS
    <3>6. RestStep(g[d + 1], d + 1, d + 1 - width, divisor) = g[d]
      <4>1. (d + 1) - width \in Int /\ divisor \in SUBSET Int
        BY <3>5
      <4>2. RestStep(g[d + 1], d + 1, (d + 1) - width, divisor)
            = Cancel(g[d + 1], d + 1, divisor, width)
        BY <4>1, RestStepCancels, Zenon
      <4>3. QED
        BY <3>4, <3>5, <4>2, Zenon
    <3>7. g[d] = IF d + 1 \notin g[d + 1] THEN g[d + 1]
                 ELSE Xor(g[d + 1], { d + 1 - width + k_1 : k_1 \in divisor })
      BY <3>6, Zenon DEF RestStep
    <3>8. QED
      BY <2>2, <3>7, Zenon
  <2>3. QED
    BY <2>1, <2>2
<1>9. IsRest(g, dividend, divisor, width, top)
  <2>1. g = [ d \in width - 1 .. top |-> g[d] ]
    BY <1>7
  <2>2. QED
    BY <1>8, <2>1, Zenon DEF IsRest
<1>10. PICK r : /\ IsRest(r, dividend, divisor, width, top)
                /\ Remainder(dividend, bytes, divisor, width) = r[width - 1]
  <2>1. top = 8 * bytes + width - 1
    BY <1>6
  <2>2. QED
    BY <1>9, <2>1, RemainderIsRest, Zenon
<1>11. PICK q : q = [ k \in 0 .. m |-> r[top - k] ]
  OBVIOUS
<1>12. q[0] = dividend
  <2>1. top \in width - 1 .. top /\ 0 \in 0 .. m /\ top - 0 = top
    BY <1>6
  <2>2. r[top] = dividend
    BY <1>10, <2>1 DEF IsRest
  <2>3. QED
    BY <1>11, <2>1, <2>2
<1>13. q[m] = r[width - 1]
  <2>1. top - m = width - 1
    BY <1>6
  <2>2. QED
    BY <1>11, <2>1
<1>14. ASSUME NEW k \in Nat, k < m, q[k] \in SUBSET Int
       PROVE  q[k + 1] = Cancel(q[k], m + width - 1 - k, divisor, width)
  <2>1. PICK d \in width - 1 .. top : d = top - (k + 1) /\ d + 1 = top - k /\ d # top
                                      /\ d + 1 = m + width - 1 - k
    <3>1. PICK e \in Int : e = top - (k + 1)
      <4>1. top - (k + 1) \in Int
        OBVIOUS
      <4>2. QED
        BY <4>1
    <3>2. e \in width - 1 .. top /\ e + 1 = top - k /\ e # top /\ e + 1 = m + width - 1 - k
      BY <1>6, <1>14, <3>1
    <3>3. QED
      BY <3>1, <3>2
  <2>2. q[k] = r[d + 1] /\ q[k + 1] = r[d]
    <3>1. k \in 0 .. m /\ k + 1 \in 0 .. m
      BY <1>14
    <3>2. QED
      BY <1>11, <2>1, <3>1
  <2>3. r[d] = RestStep(r[d + 1], d + 1, d + 1 - width, divisor)
    <3>1. r[d] = LET rest == r[d + 1]
                 IN  IF d + 1 \notin rest THEN rest
                     ELSE Xor(rest, { d + 1 - width + k_1 : k_1 \in divisor })
      BY <1>10, <2>1, Zenon DEF IsRest
    <3>2. r[d] = IF d + 1 \notin r[d + 1] THEN r[d + 1]
                 ELSE Xor(r[d + 1], { d + 1 - width + k_1 : k_1 \in divisor })
      BY <3>1, Zenon
    <3>3. QED
      BY <3>2, Zenon DEF RestStep
  <2>4. (d + 1) - width \in Int /\ d + 1 - width = (d + 1) - width
    BY <2>1
  <2>5. r[d] = Cancel(r[d + 1], d + 1, divisor, width)
    <3>1. r[d] = RestStep(r[d + 1], d + 1, (d + 1) - width, divisor)
      BY <2>3, <2>4, Zenon
    <3>2. (d + 1) - width \in Int /\ divisor \in SUBSET Int
      BY <2>4
    <3>3. RestStep(r[d + 1], d + 1, (d + 1) - width, divisor)
          = Cancel(r[d + 1], d + 1, divisor, width)
      BY <3>2, RestStepCancels, Zenon
    <3>4. QED
      BY <3>1, <3>3, Zenon
  <2>6. d + 1 = m + width - 1 - k
    BY <2>1
  <2>7. r[d] = Cancel(q[k], m + width - 1 - k, divisor, width)
    BY <2>2, <2>5, <2>6, Zenon
  <2>8. QED
    BY <2>2, <2>7, Zenon
<1>15. \A k \in 0 .. m : q[k] \in SUBSET Int
  <2>1. PICK S : S = { k \in Nat : q[k] \in SUBSET Int }
    OBVIOUS
  <2>2. 0 \in S
    BY <1>12, <2>1
  <2>3. ASSUME NEW k \in Nat, k < m, k \in S PROVE k + 1 \in S
    <3>1. q[k] \in SUBSET Int
      BY <2>1, <2>3
    <3>2. m + width - 1 - k \in Int /\ width \in Int
      OBVIOUS
    <3>3. Cancel(q[k], m + width - 1 - k, divisor, width) \in SUBSET Int
      BY <3>1, <3>2, CancelIsInt
    <3>4. q[k + 1] \in SUBSET Int
      BY <1>14, <2>3, <3>1, <3>3
    <3>5. QED
      BY <2>1, <3>4
  <2>4. \A k \in 0 .. m : k \in S
    BY <2>2, <2>3, Upwards
  <2>5. QED
    BY <2>1, <2>4
<1>16. IsDivision(q, dividend, divisor, width, m)
  BY <1>12, <1>14, <1>15 DEF IsDivision
<1>17. QED
  BY <1>10, <1>13, <1>16

\* What a step cancels is gone.
LEMMA CancelLowers ==
    ASSUME NEW width \in Nat, NEW divisor \in SUBSET (0 .. width), width \in divisor,
           NEW d \in Int, d >= width, NEW v \in SUBSET (0 .. d)
    PROVE  Cancel(v, d, divisor, width) \subseteq 0 .. d - 1
<1>1. PICK p : p = Plus(divisor, d - width)
  OBVIOUS
<1>2. /\ divisor \in SUBSET Int /\ d - width \in Int /\ v \in SUBSET Int
  OBVIOUS
<1>3. p \in SUBSET Int /\ \A x \in Int : x \in p <=> x - (d - width) \in divisor
  BY <1>1, <1>2, InPlus
<1>4. d \in p /\ \A x \in p : x \in 0 .. d
  <2>1. d - (d - width) = width
    OBVIOUS
  <2>2. ASSUME NEW x \in p PROVE x \in 0 .. d
    <3>1. x \in Int /\ x - (d - width) \in 0 .. width
      BY <1>3, <2>2
    <3>2. QED
      BY <3>1
  <2>3. QED
    BY <1>3, <2>1, <2>2
<1>5. CASE d \in v
  <2>1. Cancel(v, d, divisor, width) = Xor(v, p)
    BY <1>1, <1>5, Zenon DEF Cancel
  <2>2. ASSUME NEW x \in Xor(v, p) PROVE x \in 0 .. d - 1
    <3>1. x \in v \cup p /\ ~(x \in v /\ x \in p)
      BY <2>2 DEF Xor
    <3>2. x \in 0 .. d /\ x # d
      BY <1>4, <1>5, <3>1
    <3>3. QED
      BY <3>2
  <2>3. QED
    BY <2>1, <2>2
<1>6. CASE d \notin v
  <2>1. Cancel(v, d, divisor, width) = v
    BY <1>6, Zenon DEF Cancel
  <2>2. QED
    BY <1>6, <2>1
<1>7. QED
  BY <1>5, <1>6

\* The remainder so far has no degree that has been cancelled.
LEMMA DivisionLowers ==
    ASSUME NEW width \in Nat, NEW m \in Nat, NEW divisor \in SUBSET (0 .. width),
           width \in divisor, NEW dividend \in SUBSET (0 .. m + width - 1), NEW r,
           IsDivision(r, dividend, divisor, width, m)
    PROVE  \A k \in 0 .. m : r[k] \subseteq 0 .. m + width - 1 - k
<1>1. PICK S : S = { k \in Nat : r[k] \subseteq 0 .. m + width - 1 - k }
  OBVIOUS
<1>2. 0 \in S
  <2>1. m + width - 1 - 0 = m + width - 1
    OBVIOUS
  <2>2. r[0] = dividend
    BY DEF IsDivision
  <2>3. QED
    BY <1>1, <2>1, <2>2
<1>3. ASSUME NEW k \in Nat, k < m, k \in S PROVE k + 1 \in S
  <2>1. PICK v, d : v = r[k] /\ d = m + width - 1 - k
    OBVIOUS
  <2>2. v \subseteq 0 .. d /\ d \in Int /\ d >= width
    BY <1>1, <1>3, <2>1
  <2>3. r[k + 1] = Cancel(v, d, divisor, width)
    BY <1>3, <2>1 DEF IsDivision
  <2>4. Cancel(v, d, divisor, width) \subseteq 0 .. d - 1
    BY <2>2, CancelLowers
  <2>5. m + width - 1 - (k + 1) = d - 1
    BY <2>1
  <2>6. QED
    BY <1>1, <2>3, <2>4, <2>5
<1>4. \A k \in 0 .. m : k \in S
  BY <1>2, <1>3, Upwards
<1>5. QED
  BY <1>1, <1>4

\* A division goes on in the same way when a byte follows the dividend: what the
\* byte adds does not reach the degrees that are being cancelled.
LEMMA ShiftedCancel ==
    ASSUME NEW width \in Nat, NEW divisor \in SUBSET (0 .. width),
           NEW d \in Int, d >= width, NEW v \in SUBSET Int,
           NEW b \in SUBSET (width - 8 .. width - 1)
    PROVE  Cancel(Xor(Plus(v, 8), Plus(b, 8)), d + 8, divisor, width)
           = Xor(Plus(Cancel(v, d, divisor, width), 8), Plus(b, 8))
<1>1. PICK w, b8, v8 : w = Xor(v8, b8) /\ b8 = Plus(b, 8) /\ v8 = Plus(v, 8)
  OBVIOUS
<1>2. b \in SUBSET Int /\ divisor \in SUBSET Int /\ 8 \in Int /\ d \notin b
      /\ d - width \in Int /\ (d + 8) - width \in Int
  OBVIOUS
<1>3. /\ b8 \in SUBSET Int /\ v8 \in SUBSET Int
      /\ \A x \in Int : x \in b8 <=> x - 8 \in b
      /\ \A x \in Int : x \in v8 <=> x - 8 \in v
  BY <1>1, <1>2, InPlus
<1>4. w \in SUBSET Int /\ \A x : x \in w <=> ~ (x \in v8 <=> x \in b8)
  BY <1>1, <1>3, InXor, XorIsInt
<1>5. d + 8 \in w <=> d \in v
  <2>1. d + 8 \in Int /\ (d + 8) - 8 = d
    OBVIOUS
  <2>2. (d + 8 \in b8 <=> d \in b) /\ (d + 8 \in v8 <=> d \in v)
    BY <1>3, <2>1
  <2>3. QED
    BY <1>2, <1>4, <2>2
<1>6. CASE d \notin v
  BY <1>1, <1>5, <1>6, Zenon DEF Cancel
<1>7. CASE d \in v
  <2>1. PICK p, q, s, t : /\ p = Plus(divisor, (d + 8) - width) /\ q = Plus(divisor, d - width)
                          /\ s = Xor(v, q) /\ t = Plus(s, 8)
    OBVIOUS
  <2>2. /\ p \in SUBSET Int /\ \A x \in Int : x \in p <=> x - ((d + 8) - width) \in divisor
        /\ q \in SUBSET Int /\ \A x \in Int : x \in q <=> x - (d - width) \in divisor
    BY <1>2, <2>1, InPlus
  <2>3. s \in SUBSET Int /\ \A x : x \in s <=> ~ (x \in v <=> x \in q)
    BY <2>1, <2>2, InXor, XorIsInt
  <2>4. t \in SUBSET Int /\ \A x \in Int : x \in t <=> x - 8 \in s
    BY <1>2, <2>1, <2>3, InPlus
  <2>5. Cancel(w, d + 8, divisor, width) = Xor(w, p)
    BY <1>5, <1>7, <2>1, Zenon DEF Cancel
  <2>6. Cancel(v, d, divisor, width) = s
    BY <1>7, <2>1, Zenon DEF Cancel
  <2>7. Xor(w, p) = Xor(t, b8)
    <3>1. /\ \A x : x \in Xor(w, p) <=> ~ (x \in w <=> x \in p)
          /\ \A x : x \in Xor(t, b8) <=> ~ (x \in t <=> x \in b8)
      BY InXor
    <3>2. Xor(w, p) \in SUBSET Int /\ Xor(t, b8) \in SUBSET Int
      BY <1>3, <1>4, <2>2, <2>4, XorIsInt
    <3>3. ASSUME NEW x \in Int PROVE x \in Xor(w, p) <=> x \in Xor(t, b8)
      <4>1. x - 8 \in Int /\ (x - 8) - (d - width) = x - ((d + 8) - width)
        OBVIOUS
      <4>2. x \in p <=> x - 8 \in q
        BY <2>2, <4>1
      <4>3. x \in t <=> ~ (x - 8 \in v <=> x - 8 \in q)
        BY <2>3, <2>4
      <4>4. x \in w <=> ~ (x - 8 \in v <=> x \in b8)
        BY <1>3, <1>4
      <4>5. QED
        BY <3>1, <4>2, <4>3, <4>4
    <3>4. QED
      BY <3>2, <3>3, SameIntegers
  <2>8. QED
    BY <1>1, <2>1, <2>5, <2>6, <2>7
<1>8. QED
  BY <1>6, <1>7

\* So for all steps but the last eight.
LEMMA DivisionGoesOn ==
    ASSUME NEW width \in Nat, NEW m \in Nat, NEW divisor \in SUBSET (0 .. width),
           width \in divisor, NEW dividend \in SUBSET (0 .. m + width - 1), NEW r,
           IsDivision(r, dividend, divisor, width, m),
           NEW b \in SUBSET (width - 8 .. width - 1), NEW s, NEW longer,
           longer = Xor(Plus(dividend, 8), Plus(b, 8)),
           IsDivision(s, longer, divisor, width, m + 8)
    PROVE  \A k \in 0 .. m : s[k] = Xor(Plus(r[k], 8), Plus(b, 8))
<1>1. PICK S : S = { k \in Nat : s[k] = Xor(Plus(r[k], 8), Plus(b, 8)) }
  OBVIOUS
<1>2. 0 \in S
  BY <1>1 DEF IsDivision
<1>3. \A k \in 0 .. m : r[k] \subseteq 0 .. m + width - 1 - k
  BY DivisionLowers
<1>4. ASSUME NEW k \in Nat, k < m, k \in S PROVE k + 1 \in S
  <2>1. PICK v, d : v = r[k] /\ d = m + width - 1 - k
    OBVIOUS
  <2>2. v \subseteq Int /\ d \in Int /\ d >= width /\ (m + 8) + width - 1 - k = d + 8
    <3>1. k \in 0 .. m
      BY <1>4
    <3>2. v \subseteq 0 .. d
      BY <1>3, <2>1, <3>1
    <3>3. QED
      BY <1>4, <2>1, <3>2
  <2>3. r[k + 1] = Cancel(v, d, divisor, width)
    BY <1>4, <2>1 DEF IsDivision
  <2>4. s[k + 1] = Cancel(s[k], d + 8, divisor, width)
    <3>1. k < m + 8
      BY <1>4
    <3>2. s[k + 1] = Cancel(s[k], (m + 8) + width - 1 - k, divisor, width)
      BY <3>1, Zenon DEF IsDivision
    <3>3. QED
      BY <2>2, <3>2
  <2>5. s[k] = Xor(Plus(v, 8), Plus(b, 8))
    BY <1>1, <1>4, <2>1
  <2>6. s[k + 1] = Xor(Plus(r[k + 1], 8), Plus(b, 8))
    BY <2>2, <2>3, <2>4, <2>5, ShiftedCancel
  <2>7. QED
    BY <1>1, <2>6
<1>5. \A k \in 0 .. m : k \in S
  BY <1>2, <1>4, Upwards
<1>6. QED
  BY <1>1, <1>5

\* A sum times x^m.
LEMMA PlusXor ==
    ASSUME NEW v \in SUBSET Int, NEW w \in SUBSET Int, NEW m \in Int
    PROVE  Xor(Plus(v, m), Plus(w, m)) = Plus(Xor(v, w), m)
<1>1. PICK vm, wm, x, xm : vm = Plus(v, m) /\ wm = Plus(w, m) /\ x = Xor(v, w) /\ xm = Plus(x, m)
  OBVIOUS
<1>2. x \in SUBSET Int /\ \A d : d \in x <=> ~ (d \in v <=> d \in w)
  BY <1>1, InXor, XorIsInt
<1>3. /\ vm \in SUBSET Int /\ \A d \in Int : d \in vm <=> d - m \in v
      /\ wm \in SUBSET Int /\ \A d \in Int : d \in wm <=> d - m \in w
      /\ xm \in SUBSET Int /\ \A d \in Int : d \in xm <=> d - m \in x
  BY <1>1, <1>2, InPlus
<1>4. Xor(vm, wm) \in SUBSET Int /\ \A d : d \in Xor(vm, wm) <=> ~ (d \in vm <=> d \in wm)
  BY <1>3, InXor, XorIsInt
<1>5. ASSUME NEW d \in Int PROVE d \in Xor(vm, wm) <=> d \in xm
  BY <1>2, <1>3, <1>4
<1>6. Xor(vm, wm) = xm
  BY <1>3, <1>4, <1>5, SameIntegers
<1>7. QED
  BY <1>1, <1>6

\* One turn of a register, most significant bit first: the word times x, reduced.
Turned(c, divisor, width) ==
    IF width - 1 \in c THEN Xor(Plus(c, 1), divisor) ELSE Plus(c, 1)

\* It stays within the register.
LEMMA TurnedFits ==
    ASSUME NEW width \in Nat, NEW divisor \in SUBSET (0 .. width), width \in divisor,
           width >= 1, NEW c \in SUBSET (0 .. width - 1)
    PROVE  Turned(c, divisor, width) \in SUBSET (0 .. width - 1)
<1>1. PICK c1, d : c1 = Plus(c, 1) /\ d = Turned(c, divisor, width)
  OBVIOUS
<1>2. c \in SUBSET Int /\ 1 \in Int /\ width \in Int
  OBVIOUS
<1>3. c1 \in SUBSET Int /\ \A x \in Int : x \in c1 <=> x - 1 \in c
  BY <1>1, <1>2, InPlus
<1>4. ASSUME NEW x \in c1 PROVE x \in 0 .. width
  <2>1. x \in Int /\ x - 1 \in 0 .. width - 1
    BY <1>3
  <2>2. QED
    BY <2>1
<1>5. width \in c1 <=> width - 1 \in c
  BY <1>2, <1>3
<1>6. CASE width - 1 \in c
  <2>1. d = Xor(c1, divisor)
    BY <1>1, <1>6, Zenon DEF Turned
  <2>2. ASSUME NEW x \in d PROVE x \in 0 .. width - 1
    <3>1. x \in c1 \cup divisor /\ ~(x \in c1 /\ x \in divisor)
      BY <2>1, <2>2 DEF Xor
    <3>2. x \in 0 .. width /\ x # width
      BY <1>4, <1>5, <1>6, <3>1
    <3>3. QED
      BY <3>2
  <2>3. QED
    BY <1>1, <2>2
<1>7. CASE width - 1 \notin c
  <2>1. d = c1
    BY <1>1, <1>7, Zenon DEF Turned
  <2>2. ASSUME NEW x \in d PROVE x \in 0 .. width - 1
    <3>1. x \in 0 .. width /\ x # width
      BY <1>4, <1>5, <1>7, <2>1, <2>2
    <3>2. QED
      BY <3>1
  <2>3. QED
    BY <1>1, <2>2
<1>8. QED
  BY <1>6, <1>7

\* It is a step of the division, when there are as many more to come.
LEMMA TurnCancels ==
    ASSUME NEW width \in Nat, NEW divisor \in SUBSET (0 .. width),
           NEW c \in SUBSET (0 .. width - 1), NEW e \in Nat, NEW d \in Int, d = width + e
    PROVE  Cancel(Plus(c, e + 1), d, divisor, width) = Plus(Turned(c, divisor, width), e)
<1>1. PICK ce, c1, p, t, te :
          /\ ce = Plus(c, e + 1) /\ c1 = Plus(c, 1) /\ p = Plus(divisor, d - width)
          /\ t = Turned(c, divisor, width) /\ te = Plus(t, e)
  OBVIOUS
<1>2. c \in SUBSET Int /\ divisor \in SUBSET Int /\ 1 \in Int /\ e + 1 \in Int /\ e \in Int
      /\ d - width \in Int
  OBVIOUS
<1>3. /\ ce \in SUBSET Int /\ \A x \in Int : x \in ce <=> x - (e + 1) \in c
      /\ c1 \in SUBSET Int /\ \A x \in Int : x \in c1 <=> x - 1 \in c
      /\ p \in SUBSET Int /\ \A x \in Int : x \in p <=> x - (d - width) \in divisor
  BY <1>1, <1>2, InPlus
<1>4. d \in ce <=> width - 1 \in c
  <2>1. d - (e + 1) = width - 1
    OBVIOUS
  <2>2. QED
    BY <1>3, <2>1
<1>5. \A x \in Int : (x - e) - 1 = x - (e + 1) /\ x - (d - width) = x - e /\ x - e \in Int
  OBVIOUS
<1>6. CASE width - 1 \in c
  <2>1. t = Xor(c1, divisor)
    BY <1>1, <1>6, Zenon DEF Turned
  <2>2. t \in SUBSET Int /\ \A x : x \in t <=> ~ (x \in c1 <=> x \in divisor)
    BY <1>2, <1>3, <2>1, InXor, XorIsInt
  <2>3. te \in SUBSET Int /\ \A x \in Int : x \in te <=> x - e \in t
    BY <1>1, <1>2, <2>2, InPlus
  <2>4. Cancel(ce, d, divisor, width) = Xor(ce, p)
    BY <1>1, <1>4, <1>6, Zenon DEF Cancel
  <2>5. Xor(ce, p) \in SUBSET Int /\ \A x : x \in Xor(ce, p) <=> ~ (x \in ce <=> x \in p)
    BY <1>3, InXor, XorIsInt
  <2>6. ASSUME NEW x \in Int PROVE x \in Xor(ce, p) <=> x \in te
    <3>1. x \in te <=> ~ (x - (e + 1) \in c <=> x - e \in divisor)
      BY <1>3, <1>5, <2>2, <2>3
    <3>2. x \in Xor(ce, p) <=> ~ (x - (e + 1) \in c <=> x - e \in divisor)
      BY <1>3, <1>5, <2>5
    <3>3. QED
      BY <3>1, <3>2
  <2>7. Xor(ce, p) = te
    BY <2>3, <2>5, <2>6, SameIntegers
  <2>8. QED
    BY <1>1, <2>4, <2>7
<1>7. CASE width - 1 \notin c
  <2>1. t = c1
    BY <1>1, <1>7, Zenon DEF Turned
  <2>2. te \in SUBSET Int /\ \A x \in Int : x \in te <=> x - e \in t
    BY <1>1, <1>2, <1>3, <2>1, InPlus
  <2>3. Cancel(ce, d, divisor, width) = ce
    BY <1>1, <1>4, <1>7, Zenon DEF Cancel
  <2>4. ASSUME NEW x \in Int PROVE x \in ce <=> x \in te
    BY <1>3, <1>5, <2>1, <2>2
  <2>5. ce = te
    BY <1>3, <2>2, <2>4, SameIntegers
  <2>6. QED
    BY <1>1, <2>3, <2>5
<1>8. QED
  BY <1>6, <1>7

\* The eight turns for a byte.
IsTurns(c, first, divisor, width) ==
    /\ c[0] = first
    /\ \A j \in Nat : j < 8 => c[j + 1] = Turned(c[j], divisor, width)

\* They make the remainder with the byte from the remainder without it.
LEMMA RemainderOfByte ==
    ASSUME NEW width \in Nat, width >= 8, NEW divisor \in SUBSET (0 .. width),
           width \in divisor, NEW n \in Nat,
           NEW dividend \in SUBSET (0 .. 8 * n + width - 1),
           NEW b \in SUBSET (width - 8 .. width - 1), NEW c,
           IsTurns(c, Xor(Remainder(dividend, n, divisor, width), b), divisor, width)
    PROVE  /\ Remainder(Xor(Plus(dividend, 8), Plus(b, 8)), n + 1, divisor, width) = c[8]
           /\ c[8] \in SUBSET (0 .. width - 1)
<1>1. PICK m \in Nat : m = 8 * n /\ m + 8 = 8 * (n + 1)
  OBVIOUS
<1>2. PICK longer : longer = Xor(Plus(dividend, 8), Plus(b, 8))
  OBVIOUS
<1>3. dividend \in SUBSET Int /\ divisor \in SUBSET Int /\ b \in SUBSET Int /\ 8 \in Int
  OBVIOUS
<1>4. longer \in SUBSET Int
  <2>1. Plus(dividend, 8) \in SUBSET Int /\ Plus(b, 8) \in SUBSET Int
    BY <1>3, InPlus
  <2>2. QED
    BY <1>2, <2>1, XorIsInt
<1>5. PICK r : IsDivision(r, dividend, divisor, width, m)
               /\ r[m] = Remainder(dividend, n, divisor, width)
  BY <1>1, <1>3, RemainderInTurns
<1>6. PICK s : IsDivision(s, longer, divisor, width, m + 8)
               /\ s[m + 8] = Remainder(longer, n + 1, divisor, width)
  <2>1. n + 1 \in Nat /\ m + 8 \in Nat
    OBVIOUS
  <2>2. QED
    BY <1>1, <1>3, <1>4, <2>1, RemainderInTurns
<1>7. dividend \in SUBSET (0 .. m + width - 1)
  BY <1>1
<1>8. m \in 0 .. m /\ r[m] \in SUBSET (0 .. width - 1)
  <2>1. r[m] \subseteq 0 .. m + width - 1 - m
    BY <1>5, <1>7, DivisionLowers
  <2>2. m + width - 1 - m = width - 1
    OBVIOUS
  <2>3. QED
    BY <2>1, <2>2
<1>9. s[m] = Xor(Plus(r[m], 8), Plus(b, 8))
  BY <1>2, <1>5, <1>6, <1>7, <1>8, DivisionGoesOn
<1>10. c[0] = Xor(r[m], b) /\ \A j \in Nat : j < 8 => c[j + 1] = Turned(c[j], divisor, width)
  BY <1>5, Zenon DEF IsTurns
<1>11. s[m] = Plus(c[0], 8)
  <2>1. r[m] \in SUBSET Int
    BY <1>8
  <2>2. QED
    BY <1>3, <1>9, <1>10, <2>1, PlusXor
<1>12. PICK S : S = { j \in Nat : /\ s[m + j] = Plus(c[j], 8 - j)
                                  /\ c[j] \in SUBSET (0 .. width - 1) }
  OBVIOUS
<1>13. 0 \in S
  <2>1. m + 0 = m /\ 8 - 0 = 8
    OBVIOUS
  <2>2. b \in SUBSET (0 .. width - 1)
    OBVIOUS
  <2>3. c[0] \in SUBSET (0 .. width - 1)
    BY <1>8, <1>10, <2>2 DEF Xor
  <2>4. QED
    BY <1>11, <1>12, <2>1, <2>3
<1>14. ASSUME NEW j \in Nat, j < 8, j \in S PROVE j + 1 \in S
  <2> PICK v : v = c[j]
    OBVIOUS
  <2>1. PICK e \in Nat : e = 7 - j /\ v = c[j]
    BY <1>14
  <2>2. s[m + j] = Plus(v, e + 1) /\ v \in SUBSET (0 .. width - 1)
    <3>1. 8 - j = e + 1
      BY <2>1
    <3>2. QED
      BY <1>12, <1>14, <2>1, <3>1
  <2>3. PICK d \in Int : d = width + e
    OBVIOUS
  <2>4. s[m + (j + 1)] = Cancel(s[m + j], d, divisor, width)
    <3>1. PICK k \in Nat : k = m + j /\ k < m + 8 /\ k + 1 = m + (j + 1)
                           /\ (m + 8) + width - 1 - k = d
      BY <1>14, <2>1, <2>3
    <3>2. s[k + 1] = Cancel(s[k], (m + 8) + width - 1 - k, divisor, width)
      BY <1>6, <3>1, Zenon DEF IsDivision
    <3>3. QED
      BY <3>1, <3>2
  <2>5. c[j + 1] = Turned(v, divisor, width)
    BY <1>10, <1>14, <2>1
  <2>6. s[m + (j + 1)] = Plus(c[j + 1], e)
    BY <2>2, <2>3, <2>4, <2>5, TurnCancels
  <2>7. 8 - (j + 1) = e
    BY <2>1
  <2>8. c[j + 1] \in SUBSET (0 .. width - 1)
    BY <2>2, <2>5, TurnedFits
  <2>9. QED
    BY <1>12, <2>6, <2>7, <2>8
<1>15. \A j \in 0 .. 8 : j \in S
  BY <1>13, <1>14, Upwards
<1>16. s[m + 8] = Plus(c[8], 0) /\ c[8] \in SUBSET (0 .. width - 1)
  <2>1. 8 \in 0 .. 8 /\ 8 - 8 = 0
    OBVIOUS
  <2>2. QED
    BY <1>12, <1>15, <2>1
<1>17. Plus(c[8], 0) = c[8]
  <2>1. c[8] \in SUBSET Int
    BY <1>16
  <2>2. \A x \in c[8] : x + 0 = x
    BY <2>1
  <2>3. QED
    BY <2>2 DEF Plus
<1>18. QED
  BY <1>2, <1>6, <1>16, <1>17

\* The order of the bits as a function, for lemmas to speak of.
DividendBy(bytes, width, o) ==
    LET n == Len(bytes)
    IN  Xor(UNION { { 8 * (n - i) + o[b] + width : b \in bytes[i] } : i \in 1 .. n },
            { 8 * n + b : b \in Bits(width) })

Orders == [Bits(8) -> Bits(8)]
ByteWord == SUBSET Bits(8)

\* The dividend of the data themselves, and of the ones the register starts with.
OfData(bytes, width, o) ==
    UNION { { 8 * (Len(bytes) - i) + o[b] + width : b \in bytes[i] } : i \in 1 .. Len(bytes) }
OfOnes(n, width) == { 8 * n + b : b \in Bits(width) }

\* They are the dividend.
LEMMA DividendParts ==
    ASSUME NEW bytes, NEW width, NEW o
    PROVE  DividendBy(bytes, width, o) = Xor(OfData(bytes, width, o), OfOnes(Len(bytes), width))
BY DEF DividendBy, OfData, OfOnes

\* Some bit of the data has this degree, when n bytes have been sent.
HasBit(bytes, n, width, o, x) ==
    \E i \in 1 .. n : \E b \in bytes[i] : x = 8 * (n - i) + o[b] + width

\* So the degrees of the data are those of their bits,
LEMMA OfDataHas ==
    ASSUME NEW bytes, NEW width, NEW o, NEW x
    PROVE  x \in OfData(bytes, width, o) <=> HasBit(bytes, Len(bytes), width, o, x)
BY DEF OfData, HasBit

\* above the register and below the end,
LEMMA InOfData ==
    ASSUME NEW bytes \in Seq(ByteWord), NEW width \in Nat, NEW o \in Orders,
           NEW n \in Nat, n = Len(bytes)
    PROVE  OfData(bytes, width, o) \in SUBSET (width .. 8 * n + width - 1)
<1>1. ASSUME NEW x
      PROVE  x \in OfData(bytes, width, o) <=> HasBit(bytes, n, width, o, x)
  BY OfDataHas
<1>2. ASSUME NEW i \in 1 .. n, NEW b \in bytes[i]
      PROVE  8 * (n - i) + o[b] + width \in width .. 8 * n + width - 1
  <2>1. b \in Bits(8)
    BY <1>2 DEF ByteWord
  <2>2. PICK a \in Int : a = o[b] /\ a >= 0 /\ a <= 7
    BY <2>1 DEF Orders, Bits
  <2>3. i \in Int /\ 1 <= i /\ i <= n
    BY <1>2
  <2>4. 8 * (n - i) + a + width \in width .. 8 * n + width - 1
    BY <2>2, <2>3
  <2>5. QED
    BY <2>2, <2>4
<1>3. ASSUME NEW x, HasBit(bytes, n, width, o, x) PROVE x \in width .. 8 * n + width - 1
  BY <1>2, <1>3 DEF HasBit
<1>4. QED
  BY <1>1, <1>3

\* and the ones are over the first bits.
LEMMA InOfOnes ==
    ASSUME NEW n \in Nat, NEW width \in Nat
    PROVE  OfOnes(n, width) = 8 * n .. 8 * n + width - 1
<1>1. ASSUME NEW x \in 8 * n .. 8 * n + width - 1 PROVE x \in OfOnes(n, width)
  <2>1. PICK b \in Int : b = x - 8 * n /\ x = 8 * n + b /\ b >= 0 /\ b <= width - 1
    OBVIOUS
  <2>2. b \in Bits(width)
    BY <2>1 DEF Bits
  <2>3. QED
    BY <2>1, <2>2 DEF OfOnes
<1>2. ASSUME NEW b \in Bits(width) PROVE 8 * n + b \in 8 * n .. 8 * n + width - 1
  BY DEF Bits
<1>3. QED
  BY <1>1, <1>2 DEF OfOnes

\* No degree is too high.
LEMMA DividendFits ==
    ASSUME NEW bytes \in Seq(ByteWord), NEW width \in Nat, NEW o \in Orders
    PROVE  DividendBy(bytes, width, o) \in SUBSET (0 .. 8 * Len(bytes) + width - 1)
<1>1. PICK n \in Nat : n = Len(bytes)
  OBVIOUS
<1>2. OfData(bytes, width, o) \subseteq width .. 8 * n + width - 1
  BY <1>1, InOfData
<1>3. OfOnes(n, width) \subseteq 8 * n .. 8 * n + width - 1
  BY InOfOnes
<1>4. /\ width .. 8 * n + width - 1 \subseteq 0 .. 8 * n + width - 1
      /\ 8 * n .. 8 * n + width - 1 \subseteq 0 .. 8 * n + width - 1
  OBVIOUS
<1>5. QED
  BY <1>1, <1>2, <1>3, <1>4, DividendParts DEF Xor

\* The bits of a byte, above the register.
OfByte(byte, width, o) == { o[b] + width - 8 : b \in byte }

\* They take the highest places of the register.
LEMMA InOfByte ==
    ASSUME NEW byte \in ByteWord, NEW width \in Nat, NEW o \in Orders
    PROVE  OfByte(byte, width, o) \in SUBSET (width - 8 .. width - 1)
<1>1. ASSUME NEW b \in byte PROVE o[b] + width - 8 \in width - 8 .. width - 1
  <2>1. PICK a \in Int : a = o[b] /\ a >= 0 /\ a <= 7
    BY <1>1 DEF Orders, Bits, ByteWord
  <2>2. QED
    BY <2>1
<1>2. QED
  BY <1>1 DEF OfByte

\* The data with a byte more: what was there, times x^8, and the byte.
LEMMA OfDataGrows ==
    ASSUME NEW bytes \in Seq(ByteWord), NEW byte \in ByteWord,
           NEW width \in Nat, NEW o \in Orders, NEW x \in Int
    PROVE  x \in OfData(Append(bytes, byte), width, o) <=>
               ~ (x - 8 \in OfData(bytes, width, o) <=> x - 8 \in OfByte(byte, width, o))
<1>1. PICK n \in Nat : n = Len(bytes)
  OBVIOUS
<1>2. PICK more : more = Append(bytes, byte)
  OBVIOUS
<1>3. /\ more \in Seq(ByteWord)
      /\ n + 1 = Len(more) /\ n + 1 \in Nat /\ more[n + 1] = byte
      /\ \A i \in 1 .. n : more[i] = bytes[i]
  BY <1>1, <1>2, AppendProperties
<1>4. x \in OfData(more, width, o) <=> HasBit(more, n + 1, width, o, x)
  BY <1>3, OfDataHas
<1>5. x - 8 \in OfData(bytes, width, o) <=> HasBit(bytes, n, width, o, x - 8)
  BY <1>1, OfDataHas
<1>6. \A i \in 1 .. n + 1 : \A b \in more[i] : b \in Bits(8) /\ o[b] \in Int
  <2>1. \A i \in 1 .. n + 1 : more[i] \in ByteWord
    BY <1>3
  <2>2. QED
    BY <2>1 DEF Orders, Bits, ByteWord
<1>7. (\E i \in 1 .. n : \E b \in more[i] : x = 8 * ((n + 1) - i) + o[b] + width)
      <=> x - 8 \in OfData(bytes, width, o)
  <2>1. ASSUME NEW i \in 1 .. n, NEW b \in more[i]
        PROVE  x = 8 * ((n + 1) - i) + o[b] + width <=> x - 8 = 8 * (n - i) + o[b] + width
    <3>1. PICK a \in Int : a = o[b]
      <4>1. i \in 1 .. n + 1
        OBVIOUS
      <4>2. QED
        BY <1>6, <2>1, <4>1
    <3>2. PICK j \in Int : j = n - i /\ (n + 1) - i = j + 1
      OBVIOUS
    <3>3. x = 8 * (j + 1) + a + width <=> x - 8 = 8 * j + a + width
      OBVIOUS
    <3>4. QED
      BY <3>1, <3>2, <3>3
  <2>2. QED
    BY <1>3, <1>5, <2>1 DEF HasBit
<1>8. (\E b \in more[n + 1] : x = 8 * ((n + 1) - (n + 1)) + o[b] + width)
      <=> x - 8 \in OfByte(byte, width, o)
  <2>1. ASSUME NEW b \in byte
        PROVE  x = 8 * ((n + 1) - (n + 1)) + o[b] + width <=> x - 8 = o[b] + width - 8
    <3>1. PICK a \in Int : a = o[b]
      BY <1>3, <1>6, <2>1
    <3>2. x = 8 * ((n + 1) - (n + 1)) + a + width <=> x - 8 = a + width - 8
      OBVIOUS
    <3>3. QED
      BY <3>1, <3>2
  <2>2. QED
    BY <1>3, <2>1 DEF OfByte
<1>9. \A i : i \in 1 .. n + 1 <=> i \in 1 .. n \/ i = n + 1
  OBVIOUS
<1>10. ~ (x - 8 \in OfData(bytes, width, o) /\ x - 8 \in OfByte(byte, width, o))
  <2>1. OfData(bytes, width, o) \subseteq width .. 8 * n + width - 1
    BY <1>1, InOfData
  <2>2. OfByte(byte, width, o) \subseteq width - 8 .. width - 1
    BY InOfByte
  <2>3. QED
    BY <2>1, <2>2
<1>11. QED
  BY <1>2, <1>4, <1>7, <1>8, <1>9, <1>10 DEF HasBit

\* So the dividend grows by the byte alone.
LEMMA DividendGrows ==
    ASSUME NEW bytes \in Seq(ByteWord), NEW byte \in ByteWord,
           NEW width \in Nat, NEW o \in Orders
    PROVE  DividendBy(Append(bytes, byte), width, o)
           = Xor(Plus(DividendBy(bytes, width, o), 8), Plus(OfByte(byte, width, o), 8))
<1>1. PICK n \in Nat : n = Len(bytes) /\ Len(Append(bytes, byte)) = n + 1
  BY AppendProperties
<1>2. PICK more : more = Append(bytes, byte)
  OBVIOUS
<1>3. PICK u, v, u2, v2, b :
          /\ u = OfData(bytes, width, o) /\ v = OfOnes(n, width)
          /\ u2 = OfData(more, width, o) /\ v2 = OfOnes(n + 1, width)
          /\ b = OfByte(byte, width, o) /\ more \in Seq(ByteWord)
  BY <1>2, AppendProperties
<1>4. u \in SUBSET Int /\ v \in SUBSET Int /\ b \in SUBSET Int
  <2>1. u \subseteq width .. 8 * n + width - 1
    BY <1>1, <1>3, InOfData
  <2>2. v = 8 * n .. 8 * n + width - 1
    BY <1>3, InOfOnes
  <2>3. b \subseteq width - 8 .. width - 1
    BY <1>3, InOfByte
  <2>4. QED
    BY <2>1, <2>2, <2>3
<1>5. u2 \in SUBSET Int /\ v2 \in SUBSET Int
      /\ \A x \in Int : x \in v2 <=> x - 8 \in v
  <2>1. n + 1 \in Nat /\ n + 1 = Len(more)
    BY <1>1, <1>2
  <2>2. u2 \subseteq width .. 8 * (n + 1) + width - 1
    BY <1>3, <2>1, InOfData
  <2>3. v2 = 8 * (n + 1) .. 8 * (n + 1) + width - 1
    BY <1>3, <2>1, InOfOnes
  <2>4. v = 8 * n .. 8 * n + width - 1
    BY <1>3, InOfOnes
  <2>5. QED
    BY <2>2, <2>3, <2>4
<1>6. \A x \in Int : x \in u2 <=> ~ (x - 8 \in u <=> x - 8 \in b)
  BY <1>2, <1>3, OfDataGrows
<1>7. PICK d, d2, d8, b8, both :
          /\ d = Xor(u, v) /\ d2 = Xor(u2, v2) /\ d8 = Plus(d, 8) /\ b8 = Plus(b, 8)
          /\ both = Xor(d8, b8)
  OBVIOUS
<1>8. /\ d \in SUBSET Int /\ \A x : x \in d <=> ~ (x \in u <=> x \in v)
      /\ d2 \in SUBSET Int /\ \A x : x \in d2 <=> ~ (x \in u2 <=> x \in v2)
  <2>1. Xor(u, v) \in SUBSET Int /\ Xor(u2, v2) \in SUBSET Int
    BY <1>4, <1>5, XorIsInt
  <2>2. /\ \A x : x \in Xor(u, v) <=> ~ (x \in u <=> x \in v)
        /\ \A x : x \in Xor(u2, v2) <=> ~ (x \in u2 <=> x \in v2)
    BY InXor
  <2>3. QED
    BY <1>7, <2>1, <2>2
<1>9. /\ d8 \in SUBSET Int /\ \A x \in Int : x \in d8 <=> x - 8 \in d
      /\ b8 \in SUBSET Int /\ \A x \in Int : x \in b8 <=> x - 8 \in b
  <2>1. 8 \in Int
    OBVIOUS
  <2>2. Plus(d, 8) \in SUBSET Int /\ \A x \in Int : x \in Plus(d, 8) <=> x - 8 \in d
    BY <1>8, <2>1, InPlus
  <2>3. Plus(b, 8) \in SUBSET Int /\ \A x \in Int : x \in Plus(b, 8) <=> x - 8 \in b
    BY <1>4, <2>1, InPlus
  <2>4. QED
    BY <1>7, <2>2, <2>3
<1>10. both \in SUBSET Int /\ \A x : x \in both <=> ~ (x \in d8 <=> x \in b8)
  <2>1. Xor(d8, b8) \in SUBSET Int
    BY <1>9, XorIsInt
  <2>2. \A x : x \in Xor(d8, b8) <=> ~ (x \in d8 <=> x \in b8)
    BY InXor
  <2>3. QED
    BY <1>7, <2>1, <2>2
<1>11. ASSUME NEW x \in Int PROVE x \in d2 <=> x \in both
  <2>1. x - 8 \in Int
    OBVIOUS
  <2>2. x \in d2 <=> ~ (~ (x - 8 \in u <=> x - 8 \in b) <=> x - 8 \in v)
    BY <1>5, <1>6, <1>8
  <2>3. x \in both <=> ~ (~ (x - 8 \in u <=> x - 8 \in v) <=> x - 8 \in b)
    BY <1>8, <1>9, <1>10
  <2>4. QED
    BY <2>2, <2>3
<1>12. d2 = both
  BY <1>8, <1>10, <1>11, SameIntegers
<1>13. d = DividendBy(bytes, width, o) /\ d2 = DividendBy(more, width, o)
  BY <1>1, <1>2, <1>3, <1>7, DividendParts
<1>14. QED
  BY <1>2, <1>3, <1>7, <1>12, <1>13

\* A function applied eight times, from w.
IsOctave(r, w, F) == r = [ i \in 0 .. 8 |-> IF i = 0 THEN w ELSE F[r[i - 1]] ]

\* There is such a function,
LEMMA OctaveExists ==
    ASSUME NEW T, NEW F \in [T -> T], NEW w \in T
    PROVE  \E r : IsOctave(r, w, F) /\ r \in [0 .. 8 -> T]
<1>1. PICK G : G = [ p \in Nat \X T |-> F[p[2]] ]
  OBVIOUS
<1>2. G \in [Nat \X T -> T]
  BY <1>1
<1>3. PICK h : IsRecursive(h, 8, T, w, G)
  BY <1>2, RecursiveUpTo
<1>4. ASSUME NEW i \in 0 .. 8 PROVE h[i] = IF i = 0 THEN w ELSE F[h[i - 1]]
  <2>1. CASE i = 0
    BY <1>3, <2>1 DEF IsRecursive
  <2>2. CASE i # 0
    <3>1. PICK k \in Nat : k = i - 1 /\ k < 8 /\ i = k + 1 /\ k \in 0 .. 8
      BY <2>2
    <3>2. h[k] \in T /\ h[k + 1] = G[<<k, h[k]>>]
      BY <1>3, <3>1 DEF IsRecursive
    <3>3. G[<<k, h[k]>>] = F[h[k]]
      BY <1>1, <3>2
    <3>4. QED
      BY <2>2, <3>1, <3>2, <3>3
  <2>3. QED
    BY <2>1, <2>2
<1>5. h \in [0 .. 8 -> T]
  BY <1>3 DEF IsRecursive
<1>6. h = [ i \in 0 .. 8 |-> h[i] ]
  BY <1>5
<1>7. IsOctave(h, w, F)
  <2>1. [ i \in 0 .. 8 |-> h[i] ] = [ i \in 0 .. 8 |-> IF i = 0 THEN w ELSE F[h[i - 1]] ]
    BY <1>4
  <2>2. QED
    BY <1>6, <2>1 DEF IsOctave
<1>8. QED
  BY <1>5, <1>7

\* The loops of crc16_ccitt() and of the table, as such.
IsShifts16(r, w) == r = [ i \in 0 .. 8 |-> IF i = 0 THEN w ELSE Shift16(r[i - 1]) ]
IsShifts32(r, w) == r = [ i \in 0 .. 8 |-> IF i = 0 THEN w ELSE Shift32(r[i - 1]) ]

\* and the loops end in the last value of one.
LEMMA TimesIsShifts16 ==
    ASSUME NEW g, NEW w, IsShifts16(g, w)
    PROVE  \E r : IsShifts16(r, w) /\ Times(Shift16, w, 8) = r[8]
BY Zenon DEF Times, IsShifts16

\* The same for the table.
LEMMA TimesIsShifts32 ==
    ASSUME NEW g, NEW w, IsShifts32(g, w)
    PROVE  \E r : IsShifts32(r, w) /\ Times(Shift32, w, 8) = r[8]
BY Zenon DEF Times, IsShifts32

\* The shifts stay among the words.
LEMMA Shift16Fits ==
    ASSUME NEW v
    PROVE  Shift16(v) \in SUBSET Int
<1>1. ShiftLeft(v, 1, 16) \in SUBSET Int
  BY DEF ShiftLeft, Bits
<1>2. Generator16 \in SUBSET Int
  BY DEF Generator16
<1>3. QED
  BY <1>1, <1>2 DEF Shift16, Xor

\* The same for the shift to the right.
LEMMA Shift32Fits ==
    ASSUME NEW v \in SUBSET Int
    PROVE  Shift32(v) \in SUBSET Int
<1>1. ShiftRight(v, 1) \in SUBSET Int
  BY DEF ShiftRight
<1>2. Generator32 \in SUBSET Int
  BY DEF Generator32
<1>3. QED
  BY <1>1, <1>2 DEF Shift32, Xor

\* Turn by turn.
LEMMA Times16InTurns ==
    ASSUME NEW w \in SUBSET Int
    PROVE  \E c : /\ c[0] = w /\ \A j \in Nat : j < 8 => c[j + 1] = Shift16(c[j])
                  /\ Times(Shift16, w, 8) = c[8]
<1>1. PICK T, F : T = SUBSET Int /\ F = [ v \in T |-> Shift16(v) ]
  OBVIOUS
<1>2. F \in [T -> T] /\ w \in T
  BY <1>1, Shift16Fits
<1>3. PICK g : IsOctave(g, w, F) /\ g \in [0 .. 8 -> T]
  BY <1>2, OctaveExists
<1>4. IsShifts16(g, w)
  <2>1. ASSUME NEW i \in 0 .. 8
        PROVE  (IF i = 0 THEN w ELSE F[g[i - 1]]) = IF i = 0 THEN w ELSE Shift16(g[i - 1])
    <3>1. CASE i = 0
      BY <3>1
    <3>2. CASE i # 0
      <4>1. i - 1 \in 0 .. 8
        BY <3>2
      <4>2. g[i - 1] \in T
        BY <1>3, <4>1
      <4>3. QED
        BY <1>1, <3>2, <4>2
    <3>3. QED
      BY <3>1, <3>2
  <2>2. [ i \in 0 .. 8 |-> IF i = 0 THEN w ELSE F[g[i - 1]] ]
        = [ i \in 0 .. 8 |-> IF i = 0 THEN w ELSE Shift16(g[i - 1]) ]
    BY <2>1
  <2>3. QED
    BY <1>3, <2>2 DEF IsOctave, IsShifts16
<1>5. PICK c : IsShifts16(c, w) /\ Times(Shift16, w, 8) = c[8]
  BY <1>4, TimesIsShifts16
<1>6. \A i \in 0 .. 8 : c[i] = IF i = 0 THEN w ELSE Shift16(c[i - 1])
  BY <1>5, Zenon DEF IsShifts16
<1>7. c[0] = w
  BY <1>6
<1>8. ASSUME NEW j \in Nat, j < 8 PROVE c[j + 1] = Shift16(c[j])
  <2>1. PICK i \in 0 .. 8 : i = j + 1 /\ i # 0 /\ i - 1 = j
    BY <1>8
  <2>2. c[i] = Shift16(c[i - 1])
    BY <1>6, <2>1
  <2>3. QED
    BY <2>1, <2>2
<1>9. QED
  BY <1>5, <1>7, <1>8

\* The same for the table.
LEMMA Times32InTurns ==
    ASSUME NEW w \in SUBSET Int
    PROVE  \E c : /\ c[0] = w /\ \A j \in Nat : j < 8 => c[j + 1] = Shift32(c[j])
                  /\ Times(Shift32, w, 8) = c[8]
<1>1. PICK T, F : T = SUBSET Int /\ F = [ v \in T |-> Shift32(v) ]
  OBVIOUS
<1>2. F \in [T -> T] /\ w \in T
  BY <1>1, Shift32Fits
<1>3. PICK g : IsOctave(g, w, F) /\ g \in [0 .. 8 -> T]
  BY <1>2, OctaveExists
<1>4. IsShifts32(g, w)
  <2>1. ASSUME NEW i \in 0 .. 8
        PROVE  (IF i = 0 THEN w ELSE F[g[i - 1]]) = IF i = 0 THEN w ELSE Shift32(g[i - 1])
    <3>1. CASE i = 0
      BY <3>1
    <3>2. CASE i # 0
      <4>1. i - 1 \in 0 .. 8
        BY <3>2
      <4>2. g[i - 1] \in T
        BY <1>3, <4>1
      <4>3. QED
        BY <1>1, <3>2, <4>2
    <3>3. QED
      BY <3>1, <3>2
  <2>2. [ i \in 0 .. 8 |-> IF i = 0 THEN w ELSE F[g[i - 1]] ]
        = [ i \in 0 .. 8 |-> IF i = 0 THEN w ELSE Shift32(g[i - 1]) ]
    BY <2>1
  <2>3. QED
    BY <1>3, <2>2 DEF IsOctave, IsShifts32
<1>5. PICK c : IsShifts32(c, w) /\ Times(Shift32, w, 8) = c[8]
  BY <1>4, TimesIsShifts32
<1>6. \A i \in 0 .. 8 : c[i] = IF i = 0 THEN w ELSE Shift32(c[i - 1])
  BY <1>5, Zenon DEF IsShifts32
<1>7. c[0] = w
  BY <1>6
<1>8. ASSUME NEW j \in Nat, j < 8 PROVE c[j + 1] = Shift32(c[j])
  <2>1. PICK i \in 0 .. 8 : i = j + 1 /\ i # 0 /\ i - 1 = j
    BY <1>8
  <2>2. c[i] = Shift32(c[i - 1])
    BY <1>6, <2>1
  <2>3. QED
    BY <2>1, <2>2
<1>9. QED
  BY <1>5, <1>7, <1>8

\* A remainder fits the register,
LEMMA RemainderFits ==
    ASSUME NEW width \in Nat, NEW n \in Nat, NEW divisor \in SUBSET (0 .. width),
           width \in divisor, NEW dividend \in SUBSET (0 .. 8 * n + width - 1)
    PROVE  Remainder(dividend, n, divisor, width) \in SUBSET (0 .. width - 1)
<1>1. PICK m \in Nat : m = 8 * n
  OBVIOUS
<1>2. dividend \in SUBSET Int /\ divisor \in SUBSET Int
  OBVIOUS
<1>3. PICK r : IsDivision(r, dividend, divisor, width, m)
               /\ r[m] = Remainder(dividend, n, divisor, width)
  BY <1>1, <1>2, RemainderInTurns
<1>4. dividend \in SUBSET (0 .. m + width - 1) /\ m \in 0 .. m
  BY <1>1
<1>5. r[m] \subseteq 0 .. m + width - 1 - m
  BY <1>3, <1>4, DivisionLowers
<1>6. m + width - 1 - m = width - 1
  OBVIOUS
<1>7. QED
  BY <1>3, <1>5, <1>6

\* and that of no data is the ones the register starts with.
LEMMA RemainderOfNone ==
    ASSUME NEW width \in Nat, NEW divisor \in SUBSET (0 .. width),
           NEW dividend \in SUBSET Int
    PROVE  Remainder(dividend, 0, divisor, width) = dividend
<1>1. divisor \in SUBSET Int /\ 0 \in Nat /\ 0 = 8 * 0
  OBVIOUS
<1>2. PICK r : IsDivision(r, dividend, divisor, width, 0)
               /\ r[0] = Remainder(dividend, 0, divisor, width)
  BY <1>1, RemainderInTurns
<1>3. QED
  BY <1>2 DEF IsDivision

\* The dividend of no data is those ones.
LEMMA DividendOfNone ==
    ASSUME NEW width \in Nat, NEW o
    PROVE  DividendBy(<<>>, width, o) = 0 .. width - 1
<1>1. Len(<<>>) = 0
  OBVIOUS
<1>2. OfData(<<>>, width, o) = {}
  <2>1. ASSUME NEW x PROVE ~ HasBit(<<>>, 0, width, o, x)
    <3>1. 1 .. 0 = {}
      OBVIOUS
    <3>2. QED
      BY <3>1 DEF HasBit
  <2>2. \A x : x \notin OfData(<<>>, width, o)
    BY <1>1, <2>1, OfDataHas
  <2>3. QED
    BY <2>2
<1>3. OfOnes(0, width) = 0 .. width - 1
  <2>1. 8 * 0 = 0 /\ 8 * 0 + width - 1 = width - 1
    OBVIOUS
  <2>2. QED
    BY <2>1, InOfOnes
<1>4. QED
  BY <1>1, <1>2, <1>3, DividendParts DEF Xor

\* The register after a byte, from the register before it.
LEMMA RemainderOfAppend ==
    ASSUME NEW width \in Nat, width >= 8, NEW divisor \in SUBSET (0 .. width),
           width \in divisor, NEW bytes \in Seq(ByteWord), NEW byte \in ByteWord,
           NEW o \in Orders, NEW c, NEW rest,
           rest = Remainder(DividendBy(bytes, width, o), Len(bytes), divisor, width),
           IsTurns(c, Xor(rest, OfByte(byte, width, o)), divisor, width)
    PROVE  /\ Remainder(DividendBy(Append(bytes, byte), width, o), Len(Append(bytes, byte)),
                        divisor, width) = c[8]
           /\ c[8] \in SUBSET (0 .. width - 1)
<1>1. PICK n \in Nat : n = Len(bytes) /\ Len(Append(bytes, byte)) = n + 1
  BY AppendProperties
<1>2. PICK d, b : d = DividendBy(bytes, width, o) /\ b = OfByte(byte, width, o)
  OBVIOUS
<1>3. d \in SUBSET (0 .. 8 * n + width - 1) /\ b \in SUBSET (width - 8 .. width - 1)
  BY <1>1, <1>2, DividendFits, InOfByte
<1>4. DividendBy(Append(bytes, byte), width, o) = Xor(Plus(d, 8), Plus(b, 8))
  BY <1>2, DividendGrows
<1>5. IsTurns(c, Xor(Remainder(d, n, divisor, width), b), divisor, width)
  BY <1>1, <1>2
<1>6. /\ Remainder(Xor(Plus(d, 8), Plus(b, 8)), n + 1, divisor, width) = c[8]
      /\ c[8] \in SUBSET (0 .. width - 1)
  <2>1. n \in Nat /\ d \in SUBSET (0 .. 8 * n + width - 1)
    BY <1>3
  <2>2. b \in SUBSET (width - 8 .. width - 1)
    BY <1>3
  <2>3. QED
    BY <1>5, <2>1, <2>2, RemainderOfByte
<1>7. QED
  BY <1>1, <1>4, <1>6

-----------------------------------------------------------------------------
(* crc16_ccitt().                                                          *)

Divisor16 == Generator16 \cup {16}
Order16 == [ b \in Bits(8) |-> b ]

\* The divisor has the degree of the register.
LEMMA Divisor16Fits == Divisor16 \in SUBSET (0 .. 16) /\ 16 \in Divisor16
BY DEF Divisor16, Generator16

\* The order of the bits that Dividend is given.
LEMMA Order16Is ==
    /\ Order16 \in Orders
    /\ \A bytes \in Seq(ByteWord) :
          Dividend(bytes, 16, SameOrder) = DividendBy(bytes, 16, Order16)
<1>1. Order16 \in Orders
  BY DEF Order16, Orders
<1>2. ASSUME NEW bytes \in Seq(ByteWord)
      PROVE  Dividend(bytes, 16, SameOrder) = DividendBy(bytes, 16, Order16)
  <2> DEFINE given(i) == { 8 * (Len(bytes) - i) + b + 16 : b \in bytes[i] }
             same(i) == { 8 * (Len(bytes) - i) + Order16[b] + 16 : b \in bytes[i] }
  <2>1. ASSUME NEW i \in 1 .. Len(bytes) PROVE given(i) = same(i)
    <3>1. bytes[i] \subseteq Bits(8)
      BY DEF ByteWord
    <3>2. \A b \in bytes[i] : Order16[b] = b
      BY <3>1 DEF Order16
    <3>3. QED
      BY <3>2
  <2>2. { given(i) : i \in 1 .. Len(bytes) } = { same(i) : i \in 1 .. Len(bytes) }
    <3> HIDE DEF given, same
    <3>1. QED
      BY <2>1
  <2>3. QED
    BY <2>2, Zenon DEF Dividend, DividendBy, SameOrder
<1>3. QED
  BY <1>1, <1>2

\* A shift of the register is a turn.
LEMMA Shift16Turns ==
    ASSUME NEW c \in SUBSET (0 .. 15)
    PROVE  Shift16(c) = Turned(c, Divisor16, 16)
<1>1. PICK s, p : s = ShiftLeft(c, 1, 16) /\ p = Plus(c, 1)
  OBVIOUS
<1>2. c \in SUBSET Int /\ 1 \in Int
  OBVIOUS
<1>3. p \in SUBSET Int /\ \A x \in Int : x \in p <=> x - 1 \in c
  BY <1>1, <1>2, InPlus
<1>4. s = p \cap (0 .. 15)
  BY <1>1 DEF ShiftLeft, Plus, Bits
<1>5. ASSUME NEW x \in p PROVE x \in 0 .. 16
  <2>1. x \in Int /\ x - 1 \in 0 .. 15
    BY <1>3
  <2>2. QED
    BY <2>1
<1>6. 16 \in p <=> 15 \in c
  BY <1>3
<1>7. 16 - 1 = 15
  OBVIOUS
<1>8. CASE 15 \in c
  <2>1. Shift16(c) = Xor(s, Generator16)
    BY <1>1, <1>8, Zenon DEF Shift16
  <2>2. Turned(c, Divisor16, 16) = Xor(p, Divisor16)
    BY <1>1, <1>7, <1>8, Zenon DEF Turned
  <2>3. ASSUME NEW x PROVE x \in Xor(s, Generator16) <=> x \in Xor(p, Divisor16)
    <3>1. CASE x = 16
      BY <1>4, <1>6, <1>8, <3>1 DEF Xor, Divisor16, Generator16
    <3>2. CASE x # 16
      <4>1. x \in p => x \in 0 .. 15
        BY <1>5, <3>2
      <4>2. x \in s <=> x \in p
        BY <1>4, <4>1
      <4>3. x \in Divisor16 <=> x \in Generator16
        BY <3>2 DEF Divisor16
      <4>4. QED
        BY <4>2, <4>3 DEF Xor
    <3>3. QED
      BY <3>1, <3>2
  <2>4. QED
    BY <2>1, <2>2, <2>3
<1>9. CASE 15 \notin c
  <2>1. Shift16(c) = s
    BY <1>1, <1>9, Zenon DEF Shift16
  <2>2. Turned(c, Divisor16, 16) = p
    BY <1>1, <1>7, <1>9, Zenon DEF Turned
  <2>3. ASSUME NEW x \in p PROVE x \in 0 .. 15
    <3>1. x \in 0 .. 16 /\ x # 16
      BY <1>5, <1>6, <1>9, <2>3
    <3>2. QED
      BY <3>1
  <2>4. QED
    BY <1>4, <2>1, <2>2, <2>3
<1>10. QED
  BY <1>8, <1>9

\* The loop makes the eight turns.
LEMMA Next16Turns ==
    ASSUME NEW crc \in SUBSET (0 .. 15), NEW byte \in ByteWord
    PROVE  \E c : /\ IsTurns(c, Xor(crc, OfByte(byte, 16, Order16)), Divisor16, 16)
                  /\ Next16(crc, byte) = c[8]
<1>1. PICK b : b = OfByte(byte, 16, Order16)
  OBVIOUS
<1>2. ShiftLeft(byte, 8, 16) = b
  <2>1. ASSUME NEW a \in byte PROVE a + 8 = Order16[a] + 16 - 8 /\ a + 8 \in 0 .. 15
    <3>1. a \in Bits(8)
      BY DEF ByteWord
    <3>2. Order16[a] = a /\ a \in 0 .. 7
      BY <3>1 DEF Order16, Bits
    <3>3. QED
      BY <3>2
  <2>2. { a + 8 : a \in byte } = b
    BY <1>1, <2>1 DEF OfByte
  <2>3. { a + 8 : a \in byte } \subseteq 0 .. 15
    BY <2>1
  <2>4. QED
    BY <2>2, <2>3 DEF ShiftLeft, Bits
<1>3. b \in SUBSET (0 .. 15)
  BY <1>2 DEF ShiftLeft, Bits
<1>4. PICK w : w = Xor(crc, b)
  OBVIOUS
<1>5. w \in SUBSET (0 .. 15) /\ w \in SUBSET Int
  BY <1>3, <1>4 DEF Xor
<1>6. PICK c : /\ c[0] = w /\ \A j \in Nat : j < 8 => c[j + 1] = Shift16(c[j])
               /\ Times(Shift16, w, 8) = c[8]
  BY <1>5, Times16InTurns
<1>7. Next16(crc, byte) = c[8]
  BY <1>2, <1>4, <1>6, Zenon DEF Next16
<1>8. PICK S : S = { j \in Nat : c[j] \in SUBSET (0 .. 15) }
  OBVIOUS
<1>9. ASSUME NEW v \in SUBSET (0 .. 15)
      PROVE  Shift16(v) = Turned(v, Divisor16, 16) /\ Shift16(v) \in SUBSET (0 .. 15)
  <2>1. Shift16(v) = Turned(v, Divisor16, 16)
    BY Shift16Turns
  <2>2. 16 \in Nat /\ 16 >= 1 /\ 16 - 1 = 15
    OBVIOUS
  <2>3. v \in SUBSET (0 .. 16 - 1)
    BY <2>2
  <2>4. Turned(v, Divisor16, 16) \in SUBSET (0 .. 16 - 1)
    BY <2>2, <2>3, Divisor16Fits, TurnedFits
  <2>5. QED
    BY <2>1, <2>2, <2>4
<1>10. \A j \in 0 .. 8 : j \in S
  <2>1. 0 \in S
    BY <1>5, <1>6, <1>8
  <2>2. ASSUME NEW j \in Nat, j < 8, j \in S PROVE j + 1 \in S
    BY <1>6, <1>8, <1>9, <2>2
  <2>3. QED
    BY <2>1, <2>2, Upwards
<1>11. ASSUME NEW j \in Nat, j < 8 PROVE c[j + 1] = Turned(c[j], Divisor16, 16)
  <2>1. c[j] \in SUBSET (0 .. 15)
    BY <1>8, <1>10, <1>11
  <2>2. QED
    BY <1>6, <1>9, <1>11, <2>1
<1>12. IsTurns(c, w, Divisor16, 16)
  BY <1>6, <1>11 DEF IsTurns
<1>13. QED
  BY <1>1, <1>4, <1>7, <1>12

\* What the register holds after some bytes.
Crc16Of(bytes) == Remainder(Dividend(bytes, 16, SameOrder), Len(bytes), Divisor16, 16)

\* Before the first byte it holds ones.
LEMMA Crc16Start == Crc16Of(<<>>) = Bits(16)
<1>1. <<>> \in Seq(ByteWord) /\ Len(<<>>) = 0 /\ 16 \in Nat
  OBVIOUS
<1>2. Dividend(<<>>, 16, SameOrder) = 0 .. 16 - 1
  BY <1>1, Order16Is, DividendOfNone
<1>3. 0 .. 16 - 1 \in SUBSET Int
  OBVIOUS
<1>4. Remainder(0 .. 16 - 1, 0, Divisor16, 16) = 0 .. 16 - 1
  BY <1>1, <1>3, Divisor16Fits, RemainderOfNone
<1>5. QED
  BY <1>1, <1>2, <1>4 DEF Crc16Of, Bits

\* A byte takes it from what the bytes before make of it to what all of them do.
LEMMA Crc16Step ==
    ASSUME NEW bytes \in Seq(ByteWord), NEW byte \in ByteWord
    PROVE  Next16(Crc16Of(bytes), byte) = Crc16Of(Append(bytes, byte))
<1>1. PICK rest : rest = Crc16Of(bytes)
  OBVIOUS
<1>2. /\ Order16 \in Orders /\ 16 \in Nat /\ 16 >= 8 /\ Len(bytes) \in Nat
      /\ Append(bytes, byte) \in Seq(ByteWord)
  BY Order16Is, AppendProperties
<1>3. rest = Remainder(DividendBy(bytes, 16, Order16), Len(bytes), Divisor16, 16)
  BY <1>1, Order16Is DEF Crc16Of
<1>4. rest \in SUBSET (0 .. 15)
  <2>1. DividendBy(bytes, 16, Order16) \in SUBSET (0 .. 8 * Len(bytes) + 16 - 1)
    BY <1>2, DividendFits
  <2>2. rest \in SUBSET (0 .. 16 - 1)
    BY <1>2, <1>3, <2>1, Divisor16Fits, RemainderFits
  <2>3. 16 - 1 = 15
    OBVIOUS
  <2>4. QED
    BY <2>2, <2>3
<1>5. PICK c : /\ IsTurns(c, Xor(rest, OfByte(byte, 16, Order16)), Divisor16, 16)
               /\ Next16(rest, byte) = c[8]
  BY <1>4, Next16Turns
<1>6. Remainder(DividendBy(Append(bytes, byte), 16, Order16), Len(Append(bytes, byte)),
                Divisor16, 16) = c[8]
  BY <1>2, <1>3, <1>5, Divisor16Fits, RemainderOfAppend
<1>7. Crc16Of(Append(bytes, byte)) = c[8]
  BY <1>2, <1>6, Order16Is DEF Crc16Of
<1>8. QED
  BY <1>1, <1>5, <1>7

-----------------------------------------------------------------------------
(* crc32(): the register is the remainder reflected, the last bit first.   *)

Divisor32 == Reflected(Generator32, 32) \cup {32}
Order32 == [ b \in Bits(8) |-> 7 - b ]

\* The bits of a word reflected,
LEMMA InReflected ==
    ASSUME NEW v \in SUBSET (0 .. 31)
    PROVE  /\ Reflected(v, 32) \in SUBSET (0 .. 31)
           /\ \A x \in Int : x \in Reflected(v, 32) <=> 31 - x \in v
<1>1. ASSUME NEW b \in v PROVE 32 - 1 - b \in 0 .. 31
  <2>1. b \in 0 .. 31
    OBVIOUS
  <2>2. QED
    BY <2>1
<1>2. ASSUME NEW x \in Int PROVE x \in Reflected(v, 32) <=> 31 - x \in v
  <2>1. ASSUME x \in Reflected(v, 32) PROVE 31 - x \in v
    <3>1. PICK b \in v : x = 32 - 1 - b
      BY <2>1 DEF Reflected
    <3>2. b \in Int
      OBVIOUS
    <3>3. b = 31 - x
      BY <3>1, <3>2
    <3>4. QED
      BY <3>3
  <2>2. ASSUME 31 - x \in v PROVE x \in Reflected(v, 32)
    <3>1. x = 32 - 1 - (31 - x)
      OBVIOUS
    <3>2. QED
      BY <2>2, <3>1 DEF Reflected
  <2>3. QED
    BY <2>1, <2>2
<1>3. Reflected(v, 32) \in SUBSET (0 .. 31)
  BY <1>1 DEF Reflected
<1>4. QED
  BY <1>2, <1>3

\* of one shifted right,
LEMMA InShiftRight ==
    ASSUME NEW v \in SUBSET (0 .. 31), NEW n \in Nat
    PROVE  /\ ShiftRight(v, n) \in SUBSET (0 .. 31)
           /\ \A x \in 0 .. 31 : x \in ShiftRight(v, n) <=> x + n \in v
<1>1. ASSUME NEW b \in v, b >= n PROVE b - n \in 0 .. 31
  <2>1. b \in 0 .. 31
    OBVIOUS
  <2>2. QED
    BY <1>1, <2>1
<1>2. ASSUME NEW x \in 0 .. 31 PROVE x \in ShiftRight(v, n) <=> x + n \in v
  <2>1. ASSUME x \in ShiftRight(v, n) PROVE x + n \in v
    <3>1. PICK b \in v : x = b - n
      BY <2>1 DEF ShiftRight
    <3>2. b \in 0 .. 31
      OBVIOUS
    <3>3. b = x + n
      BY <3>1, <3>2
    <3>4. QED
      BY <3>3
  <2>2. ASSUME x + n \in v PROVE x \in ShiftRight(v, n)
    <3>1. x = (x + n) - n /\ x + n >= n
      OBVIOUS
    <3>2. QED
      BY <2>2, <3>1 DEF ShiftRight
  <2>3. QED
    BY <2>1, <2>2
<1>3. ShiftRight(v, n) \in SUBSET (0 .. 31)
  BY <1>1 DEF ShiftRight
<1>4. QED
  BY <1>2, <1>3

\* and of equal words.
LEMMA SameWords ==
    ASSUME NEW v \in SUBSET (0 .. 31), NEW w \in SUBSET (0 .. 31),
           \A x \in 0 .. 31 : x \in v <=> x \in w
    PROVE  v = w
OBVIOUS

\* Words of 32 bits stay such.
LEMMA XorIsWord ==
    ASSUME NEW v \in SUBSET (0 .. 31), NEW w \in SUBSET (0 .. 31)
    PROVE  Xor(v, w) \in SUBSET (0 .. 31)
BY DEF Xor

\* The generator is one.
LEMMA Generator32Fits == Generator32 \in SUBSET (0 .. 31)
BY DEF Generator32

\* The divisor has the degree of the register, and is the generator reflected.
LEMMA Divisor32Fits ==
    /\ Divisor32 \in SUBSET (0 .. 32) /\ 32 \in Divisor32
    /\ \A x \in 0 .. 31 : 31 - x \in Divisor32 <=> x \in Generator32
<1>1. Reflected(Generator32, 32) \in SUBSET (0 .. 31)
  BY Generator32Fits, InReflected
<1>2. Divisor32 \in SUBSET (0 .. 32) /\ 32 \in Divisor32
  BY <1>1 DEF Divisor32
<1>3. ASSUME NEW x \in 0 .. 31 PROVE 31 - x \in Divisor32 <=> x \in Generator32
  <2>1. 31 - x \in Int /\ 31 - x # 32 /\ 31 - (31 - x) = x
    OBVIOUS
  <2>2. 31 - x \in Reflected(Generator32, 32) <=> x \in Generator32
    BY <2>1, Generator32Fits, InReflected
  <2>3. QED
    BY <2>1, <2>2 DEF Divisor32
<1>4. QED
  BY <1>2, <1>3

\* The order of the bits that Dividend is given.
LEMMA Order32Is ==
    /\ Order32 \in Orders
    /\ \A bytes \in Seq(ByteWord) :
          Dividend(bytes, 32, LastBitFirst) = DividendBy(bytes, 32, Order32)
<1>1. Order32 \in Orders
  BY DEF Order32, Orders, Bits
<1>2. ASSUME NEW bytes \in Seq(ByteWord)
      PROVE  Dividend(bytes, 32, LastBitFirst) = DividendBy(bytes, 32, Order32)
  <2> DEFINE given(i) == { 8 * (Len(bytes) - i) + (7 - b) + 32 : b \in bytes[i] }
             same(i) == { 8 * (Len(bytes) - i) + Order32[b] + 32 : b \in bytes[i] }
  <2>1. ASSUME NEW i \in 1 .. Len(bytes) PROVE given(i) = same(i)
    <3>1. bytes[i] \subseteq Bits(8)
      BY DEF ByteWord
    <3>2. \A b \in bytes[i] : Order32[b] = 7 - b
      BY <3>1 DEF Order32
    <3>3. QED
      BY <3>2
  <2>2. { given(i) : i \in 1 .. Len(bytes) } = { same(i) : i \in 1 .. Len(bytes) }
    <3> HIDE DEF given, same
    <3>1. QED
      BY <2>1
  <2>3. QED
    BY <2>2, Zenon DEF Dividend, DividendBy, LastBitFirst
<1>3. QED
  BY <1>1, <1>2

\* A turn of the remainder is a shift of the register.
LEMMA Shift32Turns ==
    ASSUME NEW c \in SUBSET (0 .. 31)
    PROVE  /\ Turned(c, Divisor32, 32) \in SUBSET (0 .. 31)
           /\ Reflected(Turned(c, Divisor32, 32), 32) = Shift32(Reflected(c, 32))
<1>1. PICK t, w, p, s : /\ t = Turned(c, Divisor32, 32) /\ w = Reflected(c, 32)
                        /\ p = Plus(c, 1) /\ s = ShiftRight(w, 1)
  OBVIOUS
<1>2. 32 - 1 = 31 /\ 32 \in Nat /\ 32 >= 1 /\ c \in SUBSET Int /\ 1 \in Int /\ 1 \in Nat
  OBVIOUS
<1>3. t \in SUBSET (0 .. 31)
  <2>1. c \in SUBSET (0 .. 32 - 1)
    BY <1>2
  <2>2. t \in SUBSET (0 .. 32 - 1)
    BY <1>1, <1>2, <2>1, Divisor32Fits, TurnedFits
  <2>3. QED
    BY <1>2, <2>2
<1>4. w \in SUBSET (0 .. 31) /\ \A x \in Int : x \in w <=> 31 - x \in c
  BY <1>1, InReflected
<1>5. \A x \in Int : x \in p <=> x - 1 \in c
  BY <1>1, <1>2, InPlus
<1>6. s \in SUBSET (0 .. 31) /\ \A x \in 0 .. 31 : x \in s <=> x + 1 \in w
  BY <1>1, <1>2, <1>4, InShiftRight
<1>7. 0 \in w <=> 31 \in c
  <2>1. 31 - 0 = 31
    OBVIOUS
  <2>2. QED
    BY <1>4, <2>1
<1>8. ASSUME NEW x \in 0 .. 31 PROVE 31 - x \in p <=> x \in s
  <2>1. 31 - x \in Int /\ x + 1 \in Int /\ (31 - x) - 1 = 31 - (x + 1)
    OBVIOUS
  <2>2. (31 - x \in p <=> 31 - (x + 1) \in c) /\ (x + 1 \in w <=> 31 - (x + 1) \in c)
    BY <1>4, <1>5, <2>1
  <2>3. QED
    BY <1>6, <2>2
<1>9. /\ Reflected(t, 32) \in SUBSET (0 .. 31)
      /\ \A x \in 0 .. 31 : x \in Reflected(t, 32) <=> 31 - x \in t
  BY <1>3, InReflected
<1>10. CASE 31 \in c
  <2>1. t = Xor(p, Divisor32)
    BY <1>1, <1>2, <1>10, Zenon DEF Turned
  <2>2. Shift32(w) = Xor(s, Generator32)
    BY <1>1, <1>7, <1>10, Zenon DEF Shift32
  <2>3. Xor(s, Generator32) \in SUBSET (0 .. 31)
    BY <1>6, Generator32Fits, XorIsWord
  <2>4. ASSUME NEW x \in 0 .. 31 PROVE x \in Reflected(t, 32) <=> x \in Xor(s, Generator32)
    <3>1. 31 - x \in t <=> ~ (31 - x \in p <=> 31 - x \in Divisor32)
      BY <2>1, InXor
    <3>2. x \in Xor(s, Generator32) <=> ~ (x \in s <=> x \in Generator32)
      BY InXor
    <3>3. 31 - x \in Divisor32 <=> x \in Generator32
      BY Divisor32Fits
    <3>4. QED
      BY <1>8, <1>9, <3>1, <3>2, <3>3
  <2>5. Reflected(t, 32) = Xor(s, Generator32)
    BY <1>9, <2>3, <2>4, SameWords
  <2>6. QED
    BY <1>1, <1>3, <2>2, <2>5
<1>11. CASE 31 \notin c
  <2>1. t = p
    BY <1>1, <1>2, <1>11, Zenon DEF Turned
  <2>2. Shift32(w) = s
    BY <1>1, <1>7, <1>11, Zenon DEF Shift32
  <2>3. ASSUME NEW x \in 0 .. 31 PROVE x \in Reflected(t, 32) <=> x \in s
    BY <1>8, <1>9, <2>1
  <2>4. Reflected(t, 32) = s
    BY <1>6, <1>9, <2>3, SameWords
  <2>5. QED
    BY <1>1, <1>3, <2>2, <2>4
<1>12. QED
  BY <1>10, <1>11

\* What does not reach the lowest bit is only shifted.
LEMMA Shift32OfXor ==
    ASSUME NEW v \in SUBSET (0 .. 31), NEW h \in SUBSET (0 .. 31), 0 \notin h
    PROVE  Shift32(Xor(v, h)) = Xor(Shift32(v), ShiftRight(h, 1))
<1>1. PICK w, sw, sv, sh : /\ w = Xor(v, h) /\ sw = ShiftRight(w, 1)
                           /\ sv = ShiftRight(v, 1) /\ sh = ShiftRight(h, 1)
  OBVIOUS
<1>2. w \in SUBSET (0 .. 31) /\ \A x : x \in w <=> ~ (x \in v <=> x \in h)
  BY <1>1, InXor, XorIsWord
<1>3. /\ sw \in SUBSET (0 .. 31) /\ \A x \in 0 .. 31 : x \in sw <=> x + 1 \in w
      /\ sv \in SUBSET (0 .. 31) /\ \A x \in 0 .. 31 : x \in sv <=> x + 1 \in v
      /\ sh \in SUBSET (0 .. 31) /\ \A x \in 0 .. 31 : x \in sh <=> x + 1 \in h
  <2>1. 1 \in Nat
    OBVIOUS
  <2>2. QED
    BY <1>1, <1>2, <2>1, InShiftRight
<1>4. 0 \in w <=> 0 \in v
  BY <1>2
<1>5. CASE 0 \in v
  <2>1. PICK a, b : a = Xor(sw, Generator32) /\ b = Xor(sv, Generator32)
    OBVIOUS
  <2>2. Shift32(w) = a /\ Shift32(v) = b
    BY <1>1, <1>4, <1>5, <2>1, Zenon DEF Shift32
  <2>3. /\ a \in SUBSET (0 .. 31) /\ \A x : x \in a <=> ~ (x \in sw <=> x \in Generator32)
        /\ b \in SUBSET (0 .. 31) /\ \A x : x \in b <=> ~ (x \in sv <=> x \in Generator32)
    BY <1>3, <2>1, Generator32Fits, InXor, XorIsWord
  <2>4. Xor(b, sh) \in SUBSET (0 .. 31) /\ \A x : x \in Xor(b, sh) <=> ~ (x \in b <=> x \in sh)
    BY <1>3, <2>3, InXor, XorIsWord
  <2>5. ASSUME NEW x \in 0 .. 31 PROVE x \in a <=> x \in Xor(b, sh)
    BY <1>2, <1>3, <2>3, <2>4
  <2>6. a = Xor(b, sh)
    BY <2>3, <2>4, <2>5, SameWords
  <2>7. QED
    BY <1>1, <2>2, <2>6
<1>6. CASE 0 \notin v
  <2>1. Shift32(w) = sw /\ Shift32(v) = sv
    BY <1>1, <1>4, <1>6, Zenon DEF Shift32
  <2>2. Xor(sv, sh) \in SUBSET (0 .. 31)
        /\ \A x : x \in Xor(sv, sh) <=> ~ (x \in sv <=> x \in sh)
    BY <1>3, InXor, XorIsWord
  <2>3. ASSUME NEW x \in 0 .. 31 PROVE x \in sw <=> x \in Xor(sv, sh)
    BY <1>2, <1>3, <2>2
  <2>4. sw = Xor(sv, sh)
    BY <1>3, <2>2, <2>3, SameWords
  <2>5. QED
    BY <1>1, <2>1, <2>4
<1>7. QED
  BY <1>5, <1>6

\* Shifts to the right add up.
LEMMA ShiftRightOn ==
    ASSUME NEW h \in SUBSET (0 .. 31), NEW j \in Nat
    PROVE  ShiftRight(ShiftRight(h, j), 1) = ShiftRight(h, j + 1)
<1>1. PICK a, b, c : a = ShiftRight(h, j) /\ b = ShiftRight(a, 1) /\ c = ShiftRight(h, j + 1)
  OBVIOUS
<1>2. j + 1 \in Nat /\ 1 \in Nat
  OBVIOUS
<1>3. a \in SUBSET (0 .. 31) /\ \A x \in 0 .. 31 : x \in a <=> x + j \in h
  BY <1>1, InShiftRight
<1>4. b \in SUBSET (0 .. 31) /\ \A x \in 0 .. 31 : x \in b <=> x + 1 \in a
  BY <1>1, <1>2, <1>3, InShiftRight
<1>5. c \in SUBSET (0 .. 31) /\ \A x \in 0 .. 31 : x \in c <=> x + (j + 1) \in h
  BY <1>1, <1>2, InShiftRight
<1>6. ASSUME NEW x \in 0 .. 31 PROVE x \in b <=> x \in c
  <2>1. (x + 1) + j = x + (j + 1)
    OBVIOUS
  <2>2. CASE x + 1 \in 0 .. 31
    BY <1>3, <1>4, <1>5, <2>1, <2>2
  <2>3. CASE x + 1 \notin 0 .. 31
    <3>1. x + 1 \notin a
      BY <1>3, <2>3
    <3>2. x + (j + 1) \notin 0 .. 31
      BY <2>3
    <3>3. x + (j + 1) \notin h
      BY <3>2
    <3>4. QED
      BY <1>4, <1>5, <3>1, <3>3
  <2>4. QED
    BY <2>2, <2>3
<1>7. b = c
  BY <1>4, <1>5, <1>6, SameWords
<1>8. QED
  BY <1>1, <1>7

\* The eight turns can be made.
LEMMA TurnsExist ==
    ASSUME NEW first \in SUBSET (0 .. 31)
    PROVE  \E c : IsTurns(c, first, Divisor32, 32) /\ \A j \in 0 .. 8 : c[j] \in SUBSET (0 .. 31)
<1>1. PICK T, F : T = SUBSET (0 .. 31) /\ F = [ v \in T |-> Turned(v, Divisor32, 32) ]
  OBVIOUS
<1>2. F \in [T -> T] /\ first \in T
  BY <1>1, Shift32Turns
<1>3. PICK c : IsOctave(c, first, F) /\ c \in [0 .. 8 -> T]
  BY <1>2, OctaveExists
<1>4. \A i \in 0 .. 8 : c[i] = IF i = 0 THEN first ELSE F[c[i - 1]]
  BY <1>3, Zenon DEF IsOctave
<1>5. c[0] = first
  BY <1>4
<1>6. ASSUME NEW j \in Nat, j < 8 PROVE c[j + 1] = Turned(c[j], Divisor32, 32)
  <2>1. PICK i \in 0 .. 8 : i = j + 1 /\ i # 0 /\ i - 1 = j
    BY <1>6
  <2>2. c[i] = F[c[i - 1]]
    BY <1>4, <2>1
  <2>3. j \in 0 .. 8
    BY <1>6
  <2>4. c[j] \in T
    BY <1>3, <2>3
  <2>5. QED
    BY <1>1, <2>1, <2>2, <2>4
<1>7. \A j \in 0 .. 8 : c[j] \in SUBSET (0 .. 31)
  BY <1>1, <1>3
<1>8. QED
  BY <1>5, <1>6, <1>7 DEF IsTurns

\* The bits of the byte are the lowest of the register.
LEMMA Reflected32First ==
    ASSUME NEW rest \in SUBSET (0 .. 31), NEW byte \in ByteWord
    PROVE  /\ OfByte(byte, 32, Order32) \in SUBSET (0 .. 31)
           /\ Reflected(Xor(rest, OfByte(byte, 32, Order32)), 32) = Xor(Reflected(rest, 32), byte)
<1>1. PICK b, v, w, u : /\ b = OfByte(byte, 32, Order32) /\ v = Xor(rest, b)
                        /\ w = Reflected(rest, 32) /\ u = Reflected(v, 32)
  OBVIOUS
<1>2. byte \in SUBSET (0 .. 7)
  BY DEF ByteWord, Bits
<1>3. \A a \in byte : Order32[a] = 7 - a
  BY DEF ByteWord, Order32
<1>4. b = { 31 - a : a \in byte }
  <2>1. ASSUME NEW a \in byte PROVE Order32[a] + 32 - 8 = 31 - a
    <3>1. Order32[a] = 7 - a /\ a \in Int
      BY <1>2, <1>3
    <3>2. QED
      BY <3>1
  <2>2. QED
    BY <1>1, <2>1 DEF OfByte
<1>5. b \in SUBSET (0 .. 31)
  BY <1>2, <1>4
<1>6. ASSUME NEW x \in 0 .. 31 PROVE 31 - x \in b <=> x \in byte
  <2>1. ASSUME 31 - x \in b PROVE x \in byte
    <3>1. PICK a \in byte : 31 - x = 31 - a
      BY <1>4, <2>1
    <3>2. a \in Int
      BY <1>2
    <3>3. x = a
      BY <3>1, <3>2
    <3>4. QED
      BY <3>3
  <2>2. QED
    BY <1>4, <2>1
<1>7. v \in SUBSET (0 .. 31) /\ \A x : x \in v <=> ~ (x \in rest <=> x \in b)
  BY <1>1, <1>5, InXor, XorIsWord
<1>8. w \in SUBSET (0 .. 31) /\ \A x \in Int : x \in w <=> 31 - x \in rest
  BY <1>1, InReflected
<1>9. u \in SUBSET (0 .. 31) /\ \A x \in Int : x \in u <=> 31 - x \in v
  BY <1>1, <1>7, InReflected
<1>10. byte \in SUBSET (0 .. 31)
  BY <1>2
<1>11. Xor(w, byte) \in SUBSET (0 .. 31)
       /\ \A x : x \in Xor(w, byte) <=> ~ (x \in w <=> x \in byte)
  BY <1>8, <1>10, InXor, XorIsWord
<1>12. ASSUME NEW x \in 0 .. 31 PROVE x \in u <=> x \in Xor(w, byte)
  BY <1>6, <1>7, <1>8, <1>9, <1>11
<1>13. u = Xor(w, byte)
  BY <1>9, <1>11, <1>12, SameWords
<1>14. QED
  BY <1>1, <1>5, <1>13

\* The register: the low byte that indexes the table and the rest, which the eight
\* shifts only move.
LEMMA LowAndHigh ==
    ASSUME NEW crc \in SUBSET (0 .. 31), NEW byte \in ByteWord
    PROVE  \E h \in SUBSET (8 .. 31) :
              /\ Xor(crc, byte) = Xor(Index(crc, byte), h)
              /\ ShiftRight(crc, 8) = ShiftRight(h, 8)
              /\ Index(crc, byte) \in SUBSET (0 .. 31)
<1>1. PICK h : h = { b \in crc : b >= 8 }
  OBVIOUS
<1>2. h \in SUBSET (8 .. 31)
  <2>1. ASSUME NEW b \in h PROVE b \in 8 .. 31
    <3>1. b \in 0 .. 31 /\ b >= 8
      BY <1>1
    <3>2. QED
      BY <3>1
  <2>2. QED
    BY <2>1
<1>3. byte \in SUBSET (0 .. 7)
  BY DEF ByteWord, Bits
<1>4. PICK i : i = Index(crc, byte)
  OBVIOUS
<1>5. i = Xor(crc, byte) \cap (0 .. 7)
  BY <1>4 DEF Index, Low, Bits
<1>6. i \in SUBSET (0 .. 31)
  BY <1>5
<1>7. ASSUME NEW x PROVE x \in Xor(crc, byte) <=> x \in Xor(i, h)
  <2>1. CASE x \in 0 .. 7
    <3>1. x \notin h
      BY <1>2, <2>1
    <3>2. QED
      BY <1>5, <2>1, <3>1, InXor
  <2>2. CASE x \notin 0 .. 7
    <3>1. x \notin byte /\ x \notin i
      BY <1>3, <1>5, <2>2
    <3>2. ASSUME x \in crc PROVE x >= 8
      <4>1. x \in 0 .. 31
        BY <3>2
      <4>2. QED
        BY <2>2, <4>1
    <3>3. x \in crc <=> x \in h
      BY <1>1, <3>2
    <3>4. QED
      BY <3>1, <3>3, InXor
  <2>3. QED
    BY <2>1, <2>2
<1>8. Xor(crc, byte) = Xor(i, h)
  BY <1>7
<1>9. ShiftRight(crc, 8) = ShiftRight(h, 8)
  BY <1>1 DEF ShiftRight
<1>10. QED
  BY <1>2, <1>4, <1>6, <1>8, <1>9

\* A byte through the table is the eight turns, where the table is right.
LEMMA Next32Turns ==
    ASSUME NEW rest \in SUBSET (0 .. 31), NEW byte \in ByteWord,
           NEW crc, crc = Reflected(rest, 32), EntryRight(Index(crc, byte))
    PROVE  \E c : /\ IsTurns(c, Xor(rest, OfByte(byte, 32, Order32)), Divisor32, 32)
                  /\ Next32(crc, byte) = Reflected(c[8], 32)
<1>1. PICK first : first = Xor(rest, OfByte(byte, 32, Order32))
  OBVIOUS
<1>2. first \in SUBSET (0 .. 31) /\ Reflected(first, 32) = Xor(crc, byte)
  BY <1>1, Reflected32First, XorIsWord
<1>3. PICK c : IsTurns(c, first, Divisor32, 32) /\ \A j \in 0 .. 8 : c[j] \in SUBSET (0 .. 31)
  BY <1>2, TurnsExist
<1>4. crc \in SUBSET (0 .. 31)
  BY InReflected
<1> PICK i : i = Index(crc, byte)
  OBVIOUS
<1>5. PICK h \in SUBSET (8 .. 31) : /\ i = Index(crc, byte)
                                    /\ Xor(crc, byte) = Xor(i, h)
                                    /\ ShiftRight(crc, 8) = ShiftRight(h, 8)
                                    /\ i \in SUBSET (0 .. 31)
  BY <1>4, LowAndHigh
<1>6. h \in SUBSET (0 .. 31) /\ i \in SUBSET Int
  BY <1>5
<1>7. PICK g : /\ g[0] = i /\ \A j \in Nat : j < 8 => g[j + 1] = Shift32(g[j])
               /\ Times(Shift32, i, 8) = g[8]
  BY <1>6, Times32InTurns
<1>8. PICK S : S = { j \in Nat : /\ g[j] \in SUBSET (0 .. 31)
                                 /\ Reflected(c[j], 32) = Xor(g[j], ShiftRight(h, j)) }
  OBVIOUS
<1>9. 0 \in S
  <2>1. ShiftRight(h, 0) = h
    <3>1. 0 \in Nat /\ \A x \in 0 .. 31 : x + 0 = x
      OBVIOUS
    <3>2. /\ ShiftRight(h, 0) \in SUBSET (0 .. 31)
          /\ \A x \in 0 .. 31 : x \in ShiftRight(h, 0) <=> x + 0 \in h
      BY <1>6, <3>1, InShiftRight
    <3>3. QED
      BY <1>6, <3>1, <3>2, SameWords
  <2>2. c[0] = first
    BY <1>3 DEF IsTurns
  <2>3. QED
    BY <1>2, <1>5, <1>7, <1>8, <2>1, <2>2
<1>10. ASSUME NEW j \in Nat, j < 8, j \in S PROVE j + 1 \in S
  <2>1. PICK v, w, a : v = c[j] /\ w = g[j] /\ a = ShiftRight(h, j)
    OBVIOUS
  <2>2. w \in SUBSET (0 .. 31) /\ Reflected(v, 32) = Xor(w, a)
    BY <1>8, <1>10, <2>1
  <2>3. v \in SUBSET (0 .. 31)
    <3>1. j \in 0 .. 8
      BY <1>10
    <3>2. QED
      BY <1>3, <2>1, <3>1
  <2>4. a \in SUBSET (0 .. 31) /\ 0 \notin a
    <3>1. 0 \in 0 .. 31 /\ 0 + j = j /\ j \notin 8 .. 31
      BY <1>10
    <3>2. a \in SUBSET (0 .. 31) /\ (0 \in a <=> 0 + j \in h)
      BY <1>6, <2>1, <3>1, InShiftRight
    <3>3. j \notin h
      BY <3>1
    <3>4. QED
      BY <3>1, <3>2, <3>3
  <2>5. c[j + 1] = Turned(v, Divisor32, 32)
    BY <1>3, <1>10, <2>1 DEF IsTurns
  <2>6. g[j + 1] = Shift32(w)
    BY <1>7, <1>10, <2>1
  <2>7. Reflected(c[j + 1], 32) = Shift32(Xor(w, a))
    BY <2>2, <2>3, <2>5, Shift32Turns
  <2>8. Shift32(Xor(w, a)) = Xor(Shift32(w), ShiftRight(a, 1))
    BY <2>2, <2>4, Shift32OfXor
  <2>9. ShiftRight(a, 1) = ShiftRight(h, j + 1)
    BY <1>6, <2>1, ShiftRightOn
  <2>10. Shift32(w) \in SUBSET (0 .. 31)
    <3>1. 1 \in Nat
      OBVIOUS
    <3>2. ShiftRight(w, 1) \in SUBSET (0 .. 31)
      BY <2>2, <3>1, InShiftRight
    <3>3. QED
      BY <3>2, Generator32Fits, XorIsWord DEF Shift32
  <2>11. QED
    BY <1>8, <2>6, <2>7, <2>8, <2>9, <2>10
<1>11. \A j \in 0 .. 8 : j \in S
  BY <1>9, <1>10, Upwards
<1>12. Reflected(c[8], 32) = Xor(g[8], ShiftRight(h, 8))
  <2>1. 8 \in 0 .. 8
    OBVIOUS
  <2>2. QED
    BY <1>8, <1>11, <2>1
<1>13. Kcrc32Table(i) = g[8]
  BY <1>5, <1>7, Zenon DEF Kcrc32Table
<1>14. Next32(crc, byte) = Xor(g[8], ShiftRight(h, 8))
  BY <1>5, <1>13, Zenon DEF Next32
<1>15. QED
  BY <1>1, <1>3, <1>12, <1>14

\* What the register holds after some bytes, reflected.
Crc32Of(bytes) == Remainder(Dividend(bytes, 32, LastBitFirst), Len(bytes), Divisor32, 32)

\* Before the first byte it holds ones.
LEMMA Crc32Start == Reflected(Crc32Of(<<>>), 32) = Bits(32)
<1>1. <<>> \in Seq(ByteWord) /\ Len(<<>>) = 0 /\ 32 \in Nat
  OBVIOUS
<1>2. Dividend(<<>>, 32, LastBitFirst) = 0 .. 32 - 1
  BY <1>1, Order32Is, DividendOfNone
<1>3. 0 .. 32 - 1 \in SUBSET Int /\ 32 - 1 = 31
  OBVIOUS
<1>4. Remainder(0 .. 32 - 1, 0, Divisor32, 32) = 0 .. 32 - 1
  BY <1>1, <1>3, Divisor32Fits, RemainderOfNone
<1>5. Crc32Of(<<>>) = 0 .. 31
  BY <1>1, <1>2, <1>3, <1>4 DEF Crc32Of
<1>6. Reflected(0 .. 31, 32) = 0 .. 31
  <2>1. \A x \in 0 .. 31 : x \in Int /\ 31 - x \in 0 .. 31
    OBVIOUS
  <2>2. /\ Reflected(0 .. 31, 32) \in SUBSET (0 .. 31)
        /\ \A x \in Int : x \in Reflected(0 .. 31, 32) <=> 31 - x \in 0 .. 31
    BY InReflected
  <2>3. QED
    BY <2>1, <2>2, SameWords
<1>7. QED
  BY <1>3, <1>5, <1>6 DEF Bits

\* A byte takes it from what the bytes before make of it to what all of them do,
\* if the entry of the table it reads is right.
LEMMA Crc32Step ==
    ASSUME NEW bytes \in Seq(ByteWord), NEW byte \in ByteWord,
           NEW crc, crc = Reflected(Crc32Of(bytes), 32), EntryRight(Index(crc, byte))
    PROVE  Next32(crc, byte) = Reflected(Crc32Of(Append(bytes, byte)), 32)
<1>1. PICK rest : rest = Crc32Of(bytes)
  OBVIOUS
<1>2. /\ Order32 \in Orders /\ 32 \in Nat /\ 32 >= 8 /\ Len(bytes) \in Nat
      /\ Append(bytes, byte) \in Seq(ByteWord)
  BY Order32Is, AppendProperties
<1>3. rest = Remainder(DividendBy(bytes, 32, Order32), Len(bytes), Divisor32, 32)
  BY <1>1, Order32Is DEF Crc32Of
<1>4. rest \in SUBSET (0 .. 31)
  <2>1. DividendBy(bytes, 32, Order32) \in SUBSET (0 .. 8 * Len(bytes) + 32 - 1)
    BY <1>2, DividendFits
  <2>2. rest \in SUBSET (0 .. 32 - 1)
    BY <1>2, <1>3, <2>1, Divisor32Fits, RemainderFits
  <2>3. 32 - 1 = 31
    OBVIOUS
  <2>4. QED
    BY <2>2, <2>3
<1>5. PICK c : /\ IsTurns(c, Xor(rest, OfByte(byte, 32, Order32)), Divisor32, 32)
               /\ Next32(crc, byte) = Reflected(c[8], 32)
  <2>1. crc = Reflected(rest, 32) /\ EntryRight(Index(crc, byte))
    BY <1>1
  <2>2. QED
    BY <1>4, <2>1, Next32Turns
<1>6. Remainder(DividendBy(Append(bytes, byte), 32, Order32), Len(Append(bytes, byte)),
                Divisor32, 32) = c[8]
  <2>1. IsTurns(c, Xor(rest, OfByte(byte, 32, Order32)), Divisor32, 32)
    BY <1>5
  <2>2. Divisor32 \in SUBSET (0 .. 32) /\ 32 \in Divisor32
    BY Divisor32Fits
  <2>3. QED
    BY <1>2, <1>3, <2>1, <2>2, RemainderOfAppend
<1>7. Crc32Of(Append(bytes, byte)) = c[8]
  BY <1>2, <1>6, Order32Is DEF Crc32Of
<1>8. QED
  BY <1>5, <1>7

\* The data are bytes, and each register is what the data make of it.
CrcInd ==
    /\ data \in Seq(ByteWord)
    /\ crc16 = Crc16Of(data)
    /\ tableRight \in BOOLEAN
    /\ tableRight => crc32 = Reflected(Crc32Of(data), 32)

\* It holds at the start,
LEMMA CrcStart == CrcInit => CrcInd
<1> SUFFICES ASSUME CrcInit PROVE CrcInd
  OBVIOUS
<1>1. data = <<>> /\ crc16 = Bits(16) /\ crc32 = Bits(32) /\ tableRight = TRUE
  BY DEF CrcInit
<1>2. <<>> \in Seq(ByteWord)
  OBVIOUS
<1>3. QED
  BY <1>1, <1>2, Crc16Start, Crc32Start DEF CrcInd

\* a byte keeps it,
LEMMA CrcStep == CrcInd /\ CrcNext => CrcInd'
<1> SUFFICES ASSUME CrcInd, CrcNext PROVE CrcInd'
  OBVIOUS
<1>1. PICK byte \in ByteWord :
          /\ data' = Append(data, byte) /\ crc16' = Next16(crc16, byte)
          /\ crc32' = Next32(crc32, byte)
          /\ tableRight' = (tableRight /\ EntryRight(Index(crc32, byte)))
  BY CrcConstants DEF CrcNext, Feed, ByteWord
<1>2. data' \in Seq(ByteWord)
  BY <1>1, AppendProperties DEF CrcInd
<1>3. crc16' = Crc16Of(data')
  BY <1>1, Crc16Step DEF CrcInd
<1>4. tableRight' \in BOOLEAN /\ (tableRight' => tableRight /\ EntryRight(Index(crc32, byte)))
  BY <1>1 DEF CrcInd
<1>5. ASSUME tableRight' PROVE crc32' = Reflected(Crc32Of(data'), 32)
  <2>1. crc32 = Reflected(Crc32Of(data), 32) /\ EntryRight(Index(crc32, byte))
    BY <1>4, <1>5 DEF CrcInd
  <2>2. data \in Seq(ByteWord)
    BY DEF CrcInd
  <2>3. Next32(crc32, byte) = Reflected(Crc32Of(Append(data, byte)), 32)
    BY <2>1, <2>2, Crc32Step
  <2>4. QED
    BY <1>1, <2>3
<1>6. QED
  BY <1>2, <1>3, <1>4, <1>5 DEF CrcInd

\* and no other part touches it.
LEMMA CrcPart == CrcInd /\ [LibraryNext]_libraryVars => CrcInd'
<1> SUFFICES ASSUME CrcInd, [LibraryNext]_libraryVars PROVE CrcInd'
  OBVIOUS
<1>1. CASE CrcNext
  BY <1>1, CrcStep
<1>2. CASE UNCHANGED crcVars
  BY <1>2 DEF crcVars, CrcInd
<1>3. QED
  BY <1>1, <1>2 DEF LibraryNext, libraryVars

\* crc.cpp: over data of any length and content crc16_ccitt() is the remainder of
\* the data as a polynomial, bit by bit from the highest; and crc32(), byte by byte
\* through its table, is that of the data with the last bit of each byte first,
\* reflected, as long as the entries it reads are right.
THEOREM CrcsRight == LibrarySpec => []CrcRight
<1>1. LibraryInit => CrcInd
  BY CrcStart DEF LibraryInit
<1>2. CrcInd => CrcRight
  BY Zenon DEF CrcInd, CrcRight, Crc16Of, Crc32Of, Divisor16, Divisor32
<1>3. QED
  BY <1>1, <1>2, CrcPart, PTL DEF LibrarySpec
=============================================================================
