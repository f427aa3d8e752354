-------------------------- MODULE SnapshotsProofs --------------------------
(***************************************************************************)
(* Proofs about Delta and Snapshots: a diff, encoded and decoded against   *)
(* the snapshot it was made of, is the new snapshot; a state is what it    *)
(* was once it is written and read back; and so a client shows the state   *)
(* the server meant, whatever frames fail on the way.                      *)
(***************************************************************************)
EXTENDS Snapshots, WellFoundedInduction, SequenceTheorems, FiniteSetTheorems, TLAPS

LEMMA SetInduction ==
  ASSUME NEW S \in SUBSET Nat, 0 \in S, \A n \in S : n + 1 \in S
  PROVE  S = Nat
<1> DEFINE T == Nat \ S
           R == OpToRel(<, Nat)
<1>1. SUFFICES ASSUME T # {} PROVE FALSE
  OBVIOUS
<1>2. IsWellFoundedOn(R, Nat)
  BY NatLessThanWellFounded, Zenon
<1>3. \A x, y \in Nat : y < x => <<y, x>> \in R
  BY DEF OpToRel
<1> HIDE DEF R
<1>4. T \subseteq Nat
  OBVIOUS
<1> HIDE DEF T
<1>5. PICK x \in T : \A y \in T : ~(<<y, x>> \in R)
  BY <1>1, <1>2, <1>4, WFMin
<1> USE DEF T
<1>6. x # 0 /\ x \in Nat
  OBVIOUS
<1>7. x - 1 \in Nat /\ x - 1 < x
  BY <1>6
<1>8. x - 1 \notin T
  BY <1>3, <1>5, <1>6, <1>7
<1>9. x - 1 \in S /\ (x - 1) + 1 = x
  BY <1>6, <1>7, <1>8
<1>10. QED
  BY <1>5, <1>9

\* Induction on a measure.
LEMMA MeasureInduction ==
  ASSUME NEW D, NEW N \in Nat, NEW m \in [D -> 0..N], NEW S,
         \A d \in D : (\A e \in D : m[e] < m[d] => e \in S) => d \in S
  PROVE  \A d \in D : d \in S
<1> DEFINE T == {n \in Nat : \A d \in D : m[d] < n => d \in S}
<1>1. \A d \in D : m[d] \in 0..N
  OBVIOUS
<1>2. 0 \in T
  BY <1>1
<1>3. ASSUME NEW n \in T PROVE n + 1 \in T
  <2>1. SUFFICES ASSUME NEW d \in D, m[d] < n + 1 PROVE d \in S
    OBVIOUS
  <2>2. \A x, y \in 0..N : x < n + 1 /\ y < x => y < n
    OBVIOUS
  <2>3. \A e \in D : m[e] < m[d] => m[e] < n
    BY <1>1, <2>1, <2>2
  <2>4. QED
    BY <2>3
<1>4. T \in SUBSET Nat
  OBVIOUS
<1> HIDE DEF T
<1>5. N + 1 \in T
  BY <1>2, <1>3, <1>4, SetInduction
<1>6. \A x \in 0..N : x < N + 1
  OBVIOUS
<1>7. QED
  BY <1>1, <1>5, <1>6 DEF T

\* G says what a function has at d, and looks only at what it has where the
\* measure is smaller.
Recursion(D, V, N, m, G) ==
    /\ V # {} /\ N \in Nat /\ m \in [D -> 0..N]
    /\ G \in [D -> [[D -> V] -> V]]
    /\ \A d \in D : \A f, g \in [D -> V] :
          (\A e \in D : m[e] < m[d] => f[e] = g[e]) => G[d][f] = G[d][g]

\* A function that is defined by recursion on a measure exists.
LEMMA RecursionHasSolution ==
  ASSUME NEW D, NEW V, NEW N, NEW m, NEW G, Recursion(D, V, N, m, G)
  PROVE  \E f \in [D -> V] : \A d \in D : f[d] = G[d][f]
<1> USE DEF Recursion
<1> DEFINE Upto(n, f) == \A d \in D : m[d] < n => f[d] = G[d][f]
           S == {n \in Nat : \E f \in [D -> V] : Upto(n, f)}
<1>1. 0 \in S
  <2> PICK v0 \in V : TRUE
    OBVIOUS
  <2>1. [d \in D |-> v0] \in [D -> V] /\ Upto(0, [d \in D |-> v0])
    OBVIOUS
  <2>2. QED
    BY <2>1
<1>2. ASSUME NEW n \in S PROVE n + 1 \in S
  <2>1. PICK f \in [D -> V] : Upto(n, f)
    OBVIOUS
  <2> DEFINE g == [d \in D |-> IF m[d] = n THEN G[d][f] ELSE f[d]]
  <2>2. g \in [D -> V]
    <3>1. ASSUME NEW d \in D PROVE G[d][f] \in V /\ f[d] \in V
      OBVIOUS
    <3>2. QED
      BY <3>1
  <2>3. Upto(n + 1, g)
    <3>1. SUFFICES ASSUME NEW d \in D, m[d] < n + 1 PROVE g[d] = G[d][g]
      OBVIOUS
    <3>2. \A e \in D : m[e] < m[d] => f[e] = g[e]
      <4>1. m[d] \in Int /\ m[d] <= n /\ n \in Int
        BY <3>1
      <4>2. ASSUME NEW e \in D, m[e] < m[d] PROVE f[e] = g[e]
        <5>1. m[e] \in Int /\ m[e] # n
          BY <4>1, <4>2
        <5>2. QED
          BY <5>1
      <4>3. QED
        BY <4>2
    <3>3. G[d][f] = G[d][g]
      BY <2>2, <3>2
    <3>4. CASE m[d] = n
      BY <3>3, <3>4
    <3>5. CASE m[d] # n
      <4>1. m[d] < n
        <5>1. \A x \in 0..N, y \in Nat : x < y + 1 /\ x # y => x < y
          OBVIOUS
        <5>2. m[d] \in 0..N /\ n \in Nat
          OBVIOUS
        <5>3. QED
          BY <3>1, <3>5, <5>1, <5>2, Zenon
      <4>2. f[d] = G[d][f]
        BY <2>1, <4>1
      <4>3. QED
        BY <3>3, <3>5, <4>2
    <3>6. QED
      BY <3>4, <3>5
  <2>4. n + 1 \in Nat
    OBVIOUS
  <2> HIDE DEF Upto, g
  <2>5. QED
    BY <2>2, <2>3, <2>4
<1>3. S \in SUBSET Nat
  OBVIOUS
<1>4. PICK f \in [D -> V] : Upto(N + 1, f)
  <2> HIDE DEF S
  <2>1. S = Nat
    BY <1>1, <1>2, <1>3, SetInduction
  <2>2. N + 1 \in S
    BY <2>1
  <2>3. QED
    BY <2>2 DEF S
<1>5. \A d \in D : m[d] < N + 1
  <2>1. ASSUME NEW d \in D PROVE m[d] < N + 1
    <3>1. m[d] \in 0..N
      OBVIOUS
    <3>2. QED
      BY <3>1
  <2>2. QED
    BY <2>1
<1>6. QED
  BY <1>4, <1>5

LEMMA LenIsNat == \A s \in Seq(Nat) : Len(s) \in Nat /\ Len(s) \in Int
  OBVIOUS

LEMMA Associative == \A s, t, u \in Seq(Nat) : (s \o t) \o u = s \o (t \o u)
  BY ConcatAssociative, SMTT(30)

LEMMA ItemsAreNat ==
  ASSUME NEW s \in Seq(Nat), NEW i \in Nat \ {0}, NEW j \in Nat, j <= Len(s)
  PROVE  \A k \in i..j : s[k] \in Nat
  OBVIOUS

\* The items of a sequence after the first i, up to the j-th.
Part(s, i, j) == SubSeq(s, i + 1, j)

LEMMA PartIsSeq ==
  ASSUME NEW s \in Seq(Nat), NEW i \in Nat, NEW j \in Nat, j <= Len(s)
  PROVE  Part(s, i, j) \in Seq(Nat)
<1>1. \A k \in i + 1..j : s[k] \in Nat
  OBVIOUS
<1>2. i + 1 \in Int /\ j \in Int
  OBVIOUS
<1>3. QED
  BY <1>1, <1>2, SubSeqProperties DEF Part

LEMMA PartsJoin ==
  ASSUME NEW s \in Seq(Nat), NEW i \in Nat, NEW j \in Nat, NEW k \in Nat,
         i <= j, j <= k, k <= Len(s)
  PROVE  Part(s, i, j) \o Part(s, j, k) = Part(s, i, k)
<1>1. i + 1 \in 1..Len(s) + 1 /\ j \in (i + 1) - 1..Len(s) /\ k \in j..Len(s)
  OBVIOUS
<1>2. QED
  BY <1>1, ConcatAdjacentSubSeq DEF Part

\* The end of a sequence, item for item.
Ends(s, c, t) ==
    /\ Len(s) = c - 1 + Len(t)
    /\ \A k \in 1..Len(t) : s[c - 1 + k] = t[k]

\* The end of a sequence that begins with t is t and the end after it.
LEMMA EndsOfConcat ==
  ASSUME NEW T, NEW s \in Seq(T), NEW c \in Nat \ {0}, NEW t \in Seq(T), NEW u \in Seq(T),
         Ends(s, c, t \o u)
  PROVE  /\ \A k \in 1..Len(t) : s[c - 1 + k] = t[k]
         /\ Ends(s, c + Len(t), u)
<1>1. Len(t) \in Nat /\ Len(u) \in Nat /\ Len(t \o u) = Len(t) + Len(u)
  OBVIOUS
<1>2. ASSUME NEW k \in 1..Len(t) PROVE s[c - 1 + k] = t[k]
  <2>1. k \in 1..Len(t \o u) /\ (t \o u)[k] = t[k]
    BY <1>1
  <2>2. QED
    BY <2>1 DEF Ends
<1>3. Len(s) = c + Len(t) - 1 + Len(u)
  BY <1>1 DEF Ends
<1>4. ASSUME NEW k \in 1..Len(u) PROVE s[c + Len(t) - 1 + k] = u[k]
  <2>1. Len(t) + k \in 1..Len(t \o u) /\ (t \o u)[Len(t) + k] = u[k]
    BY <1>1
  <2>2. s[c - 1 + (Len(t) + k)] = u[k]
    BY <2>1 DEF Ends
  <2>3. c - 1 + (Len(t) + k) = c + Len(t) - 1 + k
    BY <1>1
  <2>4. QED
    BY <2>2, <2>3
<1>5. QED
  BY <1>2, <1>3, <1>4 DEF Ends

-----------------------------------------------------------------------------
LEMMA LargestOf ==
  ASSUME NEW N \in Nat, NEW S \in SUBSET (0..N), S # {}
  PROVE  Max(S) \in S /\ \A y \in S : y <= Max(S)
<1> DEFINE Least(n) == \A y \in S : y <= n
           T == {n \in Nat : N - n \in Nat /\ Least(N - n)}
<1>1. PICK x \in S : \A y \in S : y <= x
  <2>1. SUFFICES ASSUME ~ \E x \in S : \A y \in S : y <= x PROVE FALSE
    OBVIOUS
  <2> DEFINE U == {n \in Nat : \A y \in S : y + n <= N}
  <2>2. 0 \in U
    OBVIOUS
  <2>3. ASSUME NEW n \in U PROVE n + 1 \in U
    <3>1. \A y \in S : y \in Nat /\ y + n <= N
      OBVIOUS
    <3>2. ~ \E y \in S : y + n = N
      BY <2>1, <3>1
    <3>3. \A y \in S : y + (n + 1) <= N
      BY <3>1, <3>2
    <3>4. QED
      BY <3>3
  <2>4. U \in SUBSET Nat
    OBVIOUS
  <2> HIDE DEF U
  <2>5. N + 1 \in U
    BY <2>2, <2>3, <2>4, SetInduction
  <2>6. \A y \in S : y \in Nat /\ y + (N + 1) <= N
    BY <2>5 DEF U
  <2>7. PICK y \in S : TRUE
    OBVIOUS
  <2>8. y \in Nat /\ y + (N + 1) <= N
    BY <2>6
  <2>9. QED
    BY <2>8
<1>2. \A z \in S : (\A y \in S : z >= y) => z = x
  BY <1>1
<1>3. \A y \in S : x >= y
  BY <1>1
<1>4. Max(S) = x
  BY <1>2, <1>3 DEF Max
<1>5. QED
  BY <1>1, <1>4

LEMMA MinOfTwo ==
  ASSUME NEW i \in Int, NEW j \in Int
  PROVE  Min({i, j}) = IF i <= j THEN i ELSE j
<1> DEFINE m == IF i <= j THEN i ELSE j
<1>1. m \in {i, j} /\ \A y \in {i, j} : m <= y
  OBVIOUS
<1>2. \A x \in {i, j} : (\A y \in {i, j} : x <= y) => x = m
  OBVIOUS
<1> HIDE DEF m
<1>3. Min({i, j}) = m
  BY <1>1, <1>2 DEF Min
<1>4. QED
  BY <1>3 DEF m

\* The bytes that are the same are as many as possible ...
SharedFrom(base, next, i, n) ==
    /\ n \in Nat /\ i + n <= Len(next)
    /\ n > 0 => i + n <= Len(base)
    /\ \A k \in i + 1..i + n : base[k] = next[k]
    /\ i + n < Len(next) /\ i + n + 1 <= Len(base) => base[i + n + 1] # next[i + n + 1]

LEMMA SameRunFacts ==
  ASSUME NEW base \in Seq(Nat), NEW next \in Seq(Nat), NEW i \in 0..Len(next)
  PROVE  SharedFrom(base, next, i, SameRun(base, next, i))
<1> DEFINE n == SameRun(base, next, i)
<1> HIDE DEF n
<1> SUFFICES SharedFrom(base, next, i, n)
  BY DEF n
<1> DEFINE shared == Min({Len(base), Len(next)})
           Fits(r) == i + r <= shared /\ \A k \in i + 1..i + r : base[k] = next[k]
           R == {r \in 0..Len(next) : Fits(r)} \cup {0}
<1>1. Len(base) \in Nat /\ Len(next) \in Nat /\ i \in Nat /\ i <= Len(next)
  OBVIOUS
<1>2. shared \in Nat /\ shared <= Len(base) /\ shared <= Len(next)
      /\ (shared = Len(base) \/ shared = Len(next))
  <2>1. shared = IF Len(base) <= Len(next) THEN Len(base) ELSE Len(next)
    BY <1>1, MinOfTwo, \A a, b \in Nat : a \in Int /\ b \in Int, Zenon
  <2> HIDE DEF shared
  <2>2. QED
    BY <1>1, <2>1
<1>3. n = Max(R)
  BY DEF SameRun, n
<1> HIDE DEF shared, Fits
<1>4. R \in SUBSET (0..Len(next)) /\ R # {}
  BY <1>1
<1>5. n \in R /\ \A r \in R : r <= n
  BY <1>1, <1>3, <1>4, LargestOf
<1>6. n \in Nat /\ (n > 0 => Fits(n))
  BY <1>1, <1>4, <1>5
<1>7. n > 0 => i + n <= shared
  BY <1>6 DEF Fits
<1>8. \A k \in i + 1..i + n : base[k] = next[k]
  <2>1. CASE n > 0
    BY <1>6, <2>1 DEF Fits
  <2>2. CASE n = 0
    BY <1>1, <2>2
  <2>3. QED
    BY <1>6, <2>1, <2>2
<1> HIDE DEF R
<1>9. ASSUME i + n < Len(next), i + n + 1 <= Len(base)
      PROVE  base[i + n + 1] # next[i + n + 1]
  <2>1. SUFFICES ASSUME base[i + n + 1] = next[i + n + 1] PROVE FALSE
    OBVIOUS
  <2>2. n + 1 \in 0..Len(next) /\ i + (n + 1) <= shared
    <3>1. \A x, y, l, h \in Nat : x + y < l /\ x + y + 1 <= h
             => y + 1 \in 0..l /\ x + (y + 1) <= l /\ x + (y + 1) <= h
      OBVIOUS
    <3>2. n + 1 \in 0..Len(next) /\ i + (n + 1) <= Len(next) /\ i + (n + 1) <= Len(base)
      BY <1>1, <1>6, <1>9, <3>1
    <3>3. QED
      BY <1>2, <3>2
  <2>3. \A k \in i + 1..i + (n + 1) : base[k] = next[k]
    <3>1. \A x, y \in Nat : \A k \in x + 1..x + (y + 1) : k \in x + 1..x + y \/ k = x + y + 1
      OBVIOUS
    <3>2. QED
      BY <1>1, <1>6, <1>8, <2>1, <3>1
  <2>4. n + 1 \in R
    BY <2>2, <2>3 DEF Fits, R
  <2>5. QED
    BY <1>5, <1>6, <2>4
<1>10. QED
  BY <1>1, <1>2, <1>6, <1>7, <1>8, <1>9 DEF SharedFrom

\* ... and something differs after them, unless the snapshot ends.
LEMMA DiffRunFacts ==
  ASSUME NEW base \in Seq(Nat), NEW next \in Seq(Nat), NEW j \in Nat, j < Len(next),
         NEW n, n = DiffRun(base, next, j)
  PROVE  /\ n \in Nat /\ j + n <= Len(next)
         /\ j + 1 > Len(base) \/ base[j + 1] # next[j + 1] => n > 0
<1> DEFINE Fits(r) == \A k \in j + 1..j + r : k > Len(base) \/ base[k] # next[k]
           R == {r \in 0..Len(next) - j : Fits(r)}
<1>1. Len(base) \in Nat /\ Len(next) \in Nat /\ Len(next) - j \in Nat
  OBVIOUS
<1>2. n = Max(R)
  BY DEF DiffRun
<1>3. Fits(0)
  OBVIOUS
<1>4. ASSUME j + 1 > Len(base) \/ base[j + 1] # next[j + 1] PROVE Fits(1)
  <2>1. \A k \in j + 1..j + 1 : k = j + 1
    OBVIOUS
  <2>2. QED
    BY <1>4, <2>1
<1> HIDE DEF Fits
<1>5. R \in SUBSET (0..Len(next) - j) /\ 0 \in R
  BY <1>1, <1>3
<1>6. n \in R /\ \A r \in R : r <= n
  <2> HIDE DEF R
  <2>1. QED
    BY <1>1, <1>2, <1>5, LargestOf
<1>7. n \in Nat /\ j + n <= Len(next)
  BY <1>1, <1>6
<1>8. ASSUME j + 1 > Len(base) \/ base[j + 1] # next[j + 1] PROVE n > 0
  <2>1. 1 \in R
    BY <1>1, <1>4, <1>8
  <2>2. QED
    BY <1>6, <1>7, <2>1
<1>9. QED
  BY <1>7, <1>8

-----------------------------------------------------------------------------
\* The runs of a diff, as an operator of the ones that come after.
RunsFrom(base, next, from, i) ==
    LET same == SameRun(base, next, i)
        j    == i + same
        diff == DiffRun(base, next, j)
    IN  CASE i = Len(next) -> <<>>
          [] i < Len(next) /\ j = Len(next) -> <<same>>
          [] OTHER -> <<same, diff>> \o SubSeq(next, j + 1, j + diff) \o from[j + diff]

\* A run that is followed by another, and how it is written.
RunAt(base, next, i, same, j, diff) ==
    /\ i < Len(next) /\ same = SameRun(base, next, i) /\ j = i + same
    /\ j < Len(next) /\ diff = DiffRun(base, next, j)
    /\ diff > 0 /\ j + diff \in 0..Len(next)

RunThen(next, same, j, diff, after) == <<same, diff>> \o SubSeq(next, j + 1, j + diff) \o after

LEMMA RunsFromCases ==
  ASSUME NEW base \in Seq(Nat), NEW next \in Seq(Nat), NEW i \in 0..Len(next)
  PROVE  \/ /\ i = Len(next)
            /\ \A from : RunsFrom(base, next, from, i) = <<>>
         \/ /\ i < Len(next) /\ i + SameRun(base, next, i) = Len(next)
            /\ \A from : RunsFrom(base, next, from, i) = <<SameRun(base, next, i)>>
         \/ \E same, j, diff \in Nat :
            /\ RunAt(base, next, i, same, j, diff)
            /\ \A from : RunsFrom(base, next, from, i) = RunThen(next, same, j, diff, from[j + diff])
<1> DEFINE same == SameRun(base, next, i)
           j == i + same
           diff == DiffRun(base, next, j)
<1>1. i \in Nat /\ i <= Len(next) /\ Len(next) \in Nat /\ Len(base) \in Nat
  OBVIOUS
<1>2. /\ same \in Nat /\ j \in Nat /\ j <= Len(next)
      /\ j < Len(next) /\ j + 1 <= Len(base) => base[j + 1] # next[j + 1]
  <2> HIDE DEF same
  <2>1. SharedFrom(base, next, i, same)
    BY SameRunFacts DEF same
  <2>2. QED
    BY <1>1, <2>1 DEF SharedFrom
<1>3. \A from : RunsFrom(base, next, from, i) =
        CASE i = Len(next) -> <<>>
          [] i < Len(next) /\ j = Len(next) -> <<same>>
          [] OTHER -> RunThen(next, same, j, diff, from[j + diff])
  BY DEF RunsFrom, RunThen
<1> HIDE DEF same, j, diff
<1>4. CASE i = Len(next)
  <2>1. \A from : RunsFrom(base, next, from, i) = <<>>
    BY <1>1, <1>3, <1>4
  <2>2. QED
    BY <1>4, <2>1
<1>5. CASE i < Len(next) /\ j = Len(next)
  <2>1. \A from : RunsFrom(base, next, from, i) = <<same>>
    BY <1>1, <1>3, <1>5
  <2>2. QED
    BY <1>5, <2>1 DEF same, j
<1>6. CASE i < Len(next) /\ j < Len(next)
  <2>1. j + 1 > Len(base) \/ base[j + 1] # next[j + 1]
    BY <1>1, <1>2, <1>6
  <2>2. diff \in Nat /\ diff > 0 /\ j + diff <= Len(next)
    BY <1>2, <1>6, <2>1, DiffRunFacts DEF diff
  <2>3. \A from : RunsFrom(base, next, from, i) = RunThen(next, same, j, diff, from[j + diff])
    <3>1. ~ (i = Len(next)) /\ ~ (i < Len(next) /\ j = Len(next))
      BY <1>1, <1>2, <1>6
    <3>2. QED
      BY <1>3, <3>1
  <2>4. j + diff \in 0..Len(next)
    BY <1>1, <1>2, <2>2
  <2>5. RunAt(base, next, i, same, j, diff)
    BY <1>6, <2>2, <2>4 DEF same, j, diff, RunAt
  <2>6. QED
    BY <1>2, <2>2, <2>3, <2>5
<1>7. QED
  BY <1>1, <1>2, <1>4, <1>5, <1>6

LEMMA RunTyped ==
  ASSUME NEW base \in Seq(Nat), NEW next \in Seq(Nat), NEW i \in 0..Len(next), NEW from,
         \A k \in 0..Len(next) : k > i => from[k] \in Seq(Nat)
  PROVE  RunsFrom(base, next, from, i) \in Seq(Nat)
<1>1. CASE RunsFrom(base, next, from, i) = <<>>
  BY <1>1
<1>2. CASE RunsFrom(base, next, from, i) = <<SameRun(base, next, i)>>
  BY <1>2, SameRunFacts DEF SharedFrom
<1>3. ASSUME NEW same \in Nat, NEW j \in Nat, NEW diff \in Nat, RunAt(base, next, i, same, j, diff)
      PROVE  RunThen(next, same, j, diff, from[j + diff]) \in Seq(Nat)
  <2>1. j + diff \in 0..Len(next) /\ j < Len(next) /\ j + diff > i
    BY <1>3 DEF RunAt
  <2>2. from[j + diff] \in Seq(Nat)
    BY <2>1
  <2>3. SubSeq(next, j + 1, j + diff) \in Seq(Nat)
    BY <2>1
  <2>4. <<same, diff>> \in Seq(Nat)
    OBVIOUS
  <2>5. QED
    BY <2>2, <2>3, <2>4 DEF RunThen
<1> DEFINE V == Seq(Nat)
<1>4. \A same, j, diff \in Nat : RunAt(base, next, i, same, j, diff)
         => RunThen(next, same, j, diff, from[j + diff]) \in V
  BY <1>3
<1>5. RunsFrom(base, next, from, i) = <<>> \/ RunsFrom(base, next, from, i) = <<SameRun(base, next, i)>>
      => RunsFrom(base, next, from, i) \in V
  BY <1>1, <1>2
<1> HIDE DEF V
<1>6. RunsFrom(base, next, from, i) \in V
  BY <1>4, <1>5, RunsFromCases
<1>7. QED
  BY <1>6 DEF V

RunsSolved(base, next, from) ==
    /\ from \in [0..Len(next) -> Seq(Nat)]
    /\ \A i \in 0..Len(next) : from[i] = RunsFrom(base, next, from, i)

\* The recursion over the bytes of a snapshot has a solution, and Runs is its value.
LEMMA RunsRun ==
  ASSUME NEW base \in Seq(Nat), NEW next \in Seq(Nat)
  PROVE  \E from : RunsSolved(base, next, from) /\ Runs(base, next) = from[0]
<1> DEFINE D == 0..Len(next)
           V == Seq(Nat)
           N == Len(next)
           m == [i \in D |-> N - i]
           G == [i \in D |-> [f \in [D -> V] |-> RunsFrom(base, next, f, i)]]
<1>1. N \in Nat /\ <<>> \in V
  OBVIOUS
<1>2. m \in [D -> 0..N] /\ \A i, e \in D : m[e] < m[i] <=> e > i
  BY <1>1
<1>3. ASSUME NEW i \in D, NEW f \in [D -> V] PROVE RunsFrom(base, next, f, i) \in V
  BY RunTyped
<1>4. G \in [D -> [[D -> V] -> V]]
  BY <1>3
<1>5. ASSUME NEW i \in D, NEW f \in [D -> V], NEW g \in [D -> V],
             \A e \in D : m[e] < m[i] => f[e] = g[e]
      PROVE  G[i][f] = G[i][g]
  <2>1. \A e \in D : e > i => f[e] = g[e]
    BY <1>2, <1>5
  <2>2. \A same, j, diff \in Nat : RunAt(base, next, i, same, j, diff) => f[j + diff] = g[j + diff]
    BY <2>1 DEF RunAt
  <2>3. RunsFrom(base, next, f, i) = RunsFrom(base, next, g, i)
    <3>1. CASE \E same, j, diff \in Nat :
                  /\ RunAt(base, next, i, same, j, diff)
                  /\ \A h : RunsFrom(base, next, h, i) = RunThen(next, same, j, diff, h[j + diff])
      BY <2>2, <3>1
    <3>2. CASE \E v : \A h : RunsFrom(base, next, h, i) = v
      BY <3>2
    <3>3. QED
      BY <3>1, <3>2, RunsFromCases, ZenonT(60)
  <2>4. QED
    BY <2>3
<1> HIDE DEF m, G, V
<1>6. PICK f \in [D -> V] : \A i \in D : f[i] = G[i][f]
  <2>1. \A i \in D : \A f, g \in [D -> V] :
           (\A e \in D : m[e] < m[i] => f[e] = g[e]) => G[i][f] = G[i][g]
    BY <1>5
  <2>2. N \in Nat /\ m \in [D -> 0..N] /\ V # {}
    BY <1>1, <1>2
  <2>3. Recursion(D, V, N, m, G)
    BY <1>4, <2>1, <2>2, Zenon DEF Recursion
  <2> HIDE DEF D, N
  <2>4. QED
    BY <2>3, RecursionHasSolution
<1>7. \A i \in D : G[i][f] = RunsFrom(base, next, f, i)
  BY DEF G
<1> DEFINE Solves(h) == h = [i \in D |-> RunsFrom(base, next, h, i)]
           from == CHOOSE h : Solves(h)
<1>8. Solves(f)
  BY <1>6, <1>7
<1>9. Runs(base, next) = from[0]
  BY DEF Runs, RunsFrom
<1> HIDE DEF from
<1>10. Solves(from)
  BY <1>8 DEF from
<1>11. \A i \in D : from[i] = RunsFrom(base, next, from, i)
  BY <1>10
<1>12. from \in [D -> V]
  <2> DEFINE S == {i \in D : from[i] \in V}
  <2>1. ASSUME NEW i \in D, \A e \in D : m[e] < m[i] => e \in S PROVE i \in S
    <3>1. \A e \in D : e > i => from[e] \in Seq(Nat)
      BY <1>2, <2>1 DEF V
    <3>2. RunsFrom(base, next, from, i) \in V
      BY <3>1, RunTyped DEF V
    <3>3. QED
      BY <1>11, <3>2
  <2> HIDE DEF S
  <2>2. \A i \in D : i \in S
    <3> HIDE DEF D, N
    <3>1. QED
      BY <1>1, <1>2, <2>1, MeasureInduction
  <2>3. \A i \in D : from[i] \in V
    BY <2>2 DEF S
  <2>4. QED
    BY <1>10, <2>3
<1>13. QED
  BY <1>9, <1>11, <1>12 DEF V, RunsSolved

-----------------------------------------------------------------------------
\* What is decoded from item c of the body on, as an operator of what comes after.
DiffFrom(body, length, rest, c, j) ==
    IF j = length THEN <<>>
    ELSE IF c = Len(body) THEN Failed
    ELSE LET diff == body[c + 1]
             tail == c + 2 + diff
         IN  IF diff = 0 \/ j + diff > length \/ tail > Len(body) + 1
             THEN Failed
             ELSE SubSeq(body, c + 2, tail - 1) \o rest[tail][j + diff]

DecodedFrom(base, body, length, rest, c, i) ==
    IF i = length THEN <<>>
    ELSE IF c > Len(body) THEN Failed
    ELSE LET j == i + body[c] IN
         IF body[c] > 0 /\ j > Min({Len(base), length}) THEN Failed
         ELSE SubSeq(base, i + 1, j) \o DiffFrom(body, length, rest, c, j)

LEMMA DiffFromCases ==
  ASSUME NEW body \in Seq(Nat), NEW length \in Nat, NEW c \in 1..Len(body), NEW j \in 0..length
  PROVE  \/ \E v \in Seq(Int) : \A rest : DiffFrom(body, length, rest, c, j) = v
         \/ \E t \in 2..Len(body) + 1, k \in 0..length, v \in Seq(Int) :
               /\ t > c
               /\ \A rest : DiffFrom(body, length, rest, c, j) = v \o rest[t][k]
<1> DEFINE diff == body[c + 1]
           tail == c + 2 + diff
<1>1. <<>> \in Seq(Int) /\ Failed \in Seq(Int)
  BY DEF Failed
<1>2. CASE j = length
  BY <1>1, <1>2 DEF DiffFrom
<1>3. CASE j # length /\ c = Len(body)
  BY <1>1, <1>3 DEF DiffFrom
<1>4. CASE j # length /\ c # Len(body)
  <2>1. Len(body) \in Nat /\ c \in Nat /\ c + 1 \in 1..Len(body)
    BY <1>4
  <2>2. diff \in Nat /\ tail \in Nat /\ tail >= 2
    BY <2>1
  <2>3. \A rest : DiffFrom(body, length, rest, c, j) =
           IF diff = 0 \/ j + diff > length \/ tail > Len(body) + 1 THEN Failed
           ELSE SubSeq(body, c + 2, tail - 1) \o rest[tail][j + diff]
    BY <1>4 DEF DiffFrom
  <2>4. tail = c + 2 + diff
    OBVIOUS
  <2> HIDE DEF diff, tail
  <2>5. CASE diff = 0 \/ j + diff > length \/ tail > Len(body) + 1
    BY <1>1, <2>3, <2>5
  <2>6. CASE ~ (diff = 0 \/ j + diff > length \/ tail > Len(body) + 1)
    <3>1. diff > 0 /\ tail \in 2..Len(body) + 1 /\ j + diff \in 0..length /\ tail > c
      BY <2>1, <2>2, <2>4, <2>6
    <3>2. SubSeq(body, c + 2, tail - 1) \in Seq(Int)
      <4>1. c + 2 \in 1..Len(body) + 1 /\ tail - 1 \in c + 1..Len(body) /\ tail - 1 \in Nat
        BY <2>1, <2>2, <2>4, <3>1
      <4>2. SubSeq(body, c + 2, tail - 1) \in Seq(Nat)
        BY <2>1, <4>1
      <4>3. QED
        BY <4>2, SeqMonotonic, Nat \subseteq Int
    <3>3. \A rest : DiffFrom(body, length, rest, c, j)
                      = SubSeq(body, c + 2, tail - 1) \o rest[tail][j + diff]
      BY <2>3, <2>6
    <3>4. QED
      BY <3>1, <3>2, <3>3
  <2>7. QED
    BY <2>5, <2>6
<1>5. QED
  BY <1>2, <1>3, <1>4

\* Only what comes later in the body is looked at, and a sequence comes out.
LEMMA DecodedStep ==
  ASSUME NEW base \in Seq(Nat), NEW body \in Seq(Nat), NEW length \in Nat,
         NEW c \in 2..Len(body) + 1, NEW i \in 0..length
  PROVE  \/ \E v \in Seq(Int) : \A rest : DecodedFrom(base, body, length, rest, c, i) = v
         \/ \E t \in 2..Len(body) + 1, k \in 0..length, v, w \in Seq(Int) :
               /\ t > c
               /\ \A rest : DecodedFrom(base, body, length, rest, c, i) = v \o (w \o rest[t][k])
<1> DEFINE j == i + body[c]
           shared == Min({Len(base), length})
           V == Seq(Int)
           D1 == 2..Len(body) + 1
           D2 == 0..length
<1>1. <<>> \in V /\ Failed \in V /\ \A s, t \in V : s \o t \in V
  BY DEF Failed
<1>2. CASE i = length
  BY <1>1, <1>2 DEF DecodedFrom
<1>3. CASE i # length /\ c > Len(body)
  BY <1>1, <1>3 DEF DecodedFrom
<1>4. CASE i # length /\ c <= Len(body)
  <2>1. c \in 1..Len(body) /\ body[c] \in Nat /\ j \in Nat /\ j >= i
    BY <1>4
  <2>2. \A rest : DecodedFrom(base, body, length, rest, c, i) =
           IF body[c] > 0 /\ j > shared THEN Failed
           ELSE SubSeq(base, i + 1, j) \o DiffFrom(body, length, rest, c, j)
    BY <1>4, <2>1 DEF DecodedFrom
  <2>3. shared = IF Len(base) <= length THEN Len(base) ELSE length
    BY MinOfTwo, Len(base) \in Nat, \A a \in Nat : a \in Int, Zenon
  <2>4. j = i + body[c]
    OBVIOUS
  <2> HIDE DEF shared, j, V, D1, D2
  <2>5. CASE body[c] > 0 /\ j > shared
    <3>1. \A rest : DecodedFrom(base, body, length, rest, c, i) = Failed
      BY <2>2, <2>5
    <3>2. QED
      BY <1>1, <3>1 DEF V
  <2>6. CASE ~ (body[c] > 0 /\ j > shared)
    <3>1. j \in 0..length /\ (j > i => j <= Len(base))
      BY <2>1, <2>3, <2>4, <2>6
    <3>2. SubSeq(base, i + 1, j) \in V
      <4>1. CASE j = i
        <5>1. SubSeq(base, i + 1, j) = <<>>
          BY <4>1
        <5>2. QED
          BY <1>1, <5>1
      <4>2. CASE j > i
        <5>1. SubSeq(base, i + 1, j) \in Seq(Nat)
          BY <3>1, <4>2
        <5>2. QED
          BY <5>1, SeqMonotonic, Nat \subseteq Int DEF V
      <4>3. QED
        BY <2>1, <4>1, <4>2
    <3>3. \A rest : DecodedFrom(base, body, length, rest, c, i)
                      = SubSeq(base, i + 1, j) \o DiffFrom(body, length, rest, c, j)
      BY <2>2, <2>6
    <3>4. CASE \E v \in V : \A rest : DiffFrom(body, length, rest, c, j) = v
      <4>1. PICK v \in V : \A rest : DiffFrom(body, length, rest, c, j) = v
        BY <3>4
      <4>2. \A rest : DecodedFrom(base, body, length, rest, c, i) = SubSeq(base, i + 1, j) \o v
        <5>1. ASSUME NEW rest
              PROVE  DecodedFrom(base, body, length, rest, c, i) = SubSeq(base, i + 1, j) \o v
          <6>1. DiffFrom(body, length, rest, c, j) = v
            BY <4>1
          <6>2. DecodedFrom(base, body, length, rest, c, i)
                  = SubSeq(base, i + 1, j) \o DiffFrom(body, length, rest, c, j)
            BY <3>3
          <6>3. QED
            BY <6>1, <6>2
        <5>2. QED
          BY <5>1
      <4>3. SubSeq(base, i + 1, j) \o v \in V
        BY <1>1, <3>2
      <4>4. QED
        BY <4>2, <4>3 DEF V
    <3>5. CASE \E t \in D1, k \in D2, v \in V :
                 t > c /\ \A rest : DiffFrom(body, length, rest, c, j) = v \o rest[t][k]
      <4>1. PICK t \in D1, k \in D2, v \in V :
                 t > c /\ \A rest : DiffFrom(body, length, rest, c, j) = v \o rest[t][k]
        BY <3>5
      <4>2. \A rest : DecodedFrom(base, body, length, rest, c, i)
                        = SubSeq(base, i + 1, j) \o (v \o rest[t][k])
        BY <3>3, <4>1
      <4>3. QED
        BY <3>2, <4>1, <4>2 DEF V, D1, D2
    <3>6. \/ \E v \in V : \A rest : DiffFrom(body, length, rest, c, j) = v
          \/ \E t \in D1, k \in D2, v \in V :
                 t > c /\ \A rest : DiffFrom(body, length, rest, c, j) = v \o rest[t][k]
      BY <2>1, <3>1, DiffFromCases DEF V, D1, D2
    <3>7. QED
      BY <3>4, <3>5, <3>6
  <2>7. QED
    BY <2>5, <2>6
<1>5. c <= Len(body) \/ c > Len(body)
  BY Len(body) \in Nat
<1>6. QED
  BY <1>2, <1>3, <1>4, <1>5, Zenon

DecodingSolved(base, body, length, rest) ==
    \A c \in 2..Len(body) + 1, i \in 0..length :
        rest[c][i] = DecodedFrom(base, body, length, rest, c, i)

Checked(bytes) == IF bytes # <<>> /\ Last(bytes) = Failed[1] THEN Failed ELSE bytes

\* The recursion over the items of a body has a solution, and Decoded looks at its value.
LEMMA DecodedRun ==
  ASSUME NEW base \in Seq(Nat), NEW body \in Seq(Nat), NEW length \in Nat
  PROVE  \E rest : /\ DecodingSolved(base, body, length, rest)
                   /\ Decoded(base, body, length) = Checked(rest[2][0])
<1> DEFINE D == 2..Len(body) + 1
           E == 0..length
           V == Seq(Int)
           W == [E -> V]
           N == Len(body)
           m == [c \in D |-> N + 1 - c]
           Step(f, c) == [i \in E |-> DecodedFrom(base, body, length, f, c, i)]
           G == [c \in D |-> [f \in [D -> W] |-> Step(f, c)]]
<1>1. N \in Nat /\ <<>> \in V
  OBVIOUS
<1>2. m \in [D -> 0..N] /\ \A c, e \in D : m[e] < m[c] <=> e > c
  BY <1>1
<1>3. \A s, t \in V : s \o t \in V
  OBVIOUS
<1> DEFINE Const(c, i) == \E v \in V : \A rest : DecodedFrom(base, body, length, rest, c, i) = v
           Later(c, i) == \E t \in D, k \in E, v, w \in V :
               /\ t > c
               /\ \A rest : DecodedFrom(base, body, length, rest, c, i) = v \o (w \o rest[t][k])
<1>4. \A c \in D, i \in E : Const(c, i) \/ Later(c, i)
  BY DecodedStep
<1>5. \A c, e \in D : e > c => m[e] < m[c]
  BY <1>2
<1> HIDE DEF V, D, E, m, N
<1>6. ASSUME NEW c \in D, NEW f \in [D -> W], NEW i \in E
      PROVE  DecodedFrom(base, body, length, f, c, i) \in V
  <2>1. CASE Const(c, i)
    BY <2>1
  <2>2. CASE Later(c, i)
    <3>1. PICK t \in D, k \in E, v \in V, w \in V :
                 DecodedFrom(base, body, length, f, c, i) = v \o (w \o f[t][k])
      BY <2>2
    <3>2. f[t][k] \in V
      OBVIOUS
    <3>3. QED
      BY <1>3, <3>1, <3>2
  <2>3. QED
    BY <1>4, <2>1, <2>2
<1>7. ASSUME NEW c \in D, NEW f \in [D -> W], NEW g \in [D -> W],
             \A e \in D : m[e] < m[c] => f[e] = g[e], NEW i \in E
      PROVE  DecodedFrom(base, body, length, f, c, i) = DecodedFrom(base, body, length, g, c, i)
  <2>1. \A e \in D : e > c => f[e] = g[e]
    BY <1>5, <1>7
  <2>2. CASE Const(c, i)
    BY <2>2
  <2>3. CASE Later(c, i)
    <3>1. PICK t \in D, k \in E, v \in V, w \in V :
                 /\ t > c
                 /\ \A rest : DecodedFrom(base, body, length, rest, c, i) = v \o (w \o rest[t][k])
      BY <2>3
    <3>2. f[t] = g[t]
      BY <2>1, <3>1
    <3>3. QED
      BY <3>1, <3>2
  <2>4. QED
    BY <1>4, <2>2, <2>3
<1> HIDE DEF Const, Later
<1>8. W # {}
  <2>1. [i \in E |-> <<>>] \in W
    BY <1>1
  <2>2. QED
    BY <2>1
<1>9. G \in [D -> [[D -> W] -> W]]
  <2>1. \A c \in D, f \in [D -> W] : Step(f, c) \in W
    BY <1>6
  <2> HIDE DEF Step, W
  <2>2. QED
    BY <2>1
<1>10. \A c \in D : \A f, g \in [D -> W] :
         (\A e \in D : m[e] < m[c] => f[e] = g[e]) => G[c][f] = G[c][g]
  <2>1. SUFFICES ASSUME NEW c \in D, NEW f \in [D -> W], NEW g \in [D -> W],
                        \A e \in D : m[e] < m[c] => f[e] = g[e]
                 PROVE  G[c][f] = G[c][g]
    OBVIOUS
  <2>2. Step(f, c) = Step(g, c)
    BY <1>7, <2>1
  <2> HIDE DEF Step, W
  <2>3. G[c][f] = Step(f, c) /\ G[c][g] = Step(g, c)
    OBVIOUS
  <2>4. QED
    BY <2>2, <2>3
<1>11. Recursion(D, W, N, m, G)
  <2> HIDE DEF W, G
  <2>1. QED
    BY <1>1, <1>2, <1>8, <1>9, <1>10, Zenon DEF Recursion
<1>12. PICK f \in [D -> W] : \A c \in D : f[c] = G[c][f]
  <2> HIDE DEF W, G
  <2>1. QED
    BY <1>11, RecursionHasSolution
<1>13. \A c \in D : G[c][f] = Step(f, c)
  <2> HIDE DEF Step, W
  <2>1. QED
    OBVIOUS
<1> DEFINE Solves(h) == h = [c \in D |-> Step(h, c)]
           rest == CHOOSE h : Solves(h)
<1> HIDE DEF Step, G
<1>14. Solves(f)
  BY <1>12, <1>13
<1>15. Decoded(base, body, length) = Checked(rest[2][0])
  BY DEF Decoded, DecodedFrom, DiffFrom, Step, Checked, D, E
<1> HIDE DEF rest
<1>16. Solves(rest)
  BY <1>14 DEF rest
<1>17. \A c \in D : rest[c] = Step(rest, c)
  BY <1>16
<1>18. \A c \in D, i \in E : rest[c][i] = DecodedFrom(base, body, length, rest, c, i)
  BY <1>17 DEF Step
<1>19. QED
  BY <1>15, <1>18 DEF D, E, DecodingSolved

RunRead(next, body, c, same, j, diff, n, tail, after) ==
    /\ body[c] = same /\ body[c + 1] = diff
    /\ tail \in 2..Len(body) + 1
    /\ Ends(body, tail, after)
    /\ SubSeq(body, c + 2, tail - 1) = Part(next, j, n)

\* How a run and what follows it are found in a body.
LEMMA RunIsRead ==
  ASSUME NEW next \in Seq(Nat), NEW body \in Seq(Nat), NEW after \in Seq(Nat), NEW c \in Nat,
         NEW same \in Nat, NEW j \in Nat, NEW diff \in Nat, c >= 2,
         NEW n \in Nat, n = j + diff, n <= Len(next),
         Ends(body, c, RunThen(next, same, j, diff, after)), NEW tail, tail = c + 2 + diff
  PROVE  RunRead(next, body, c, same, j, diff, n, tail, after)
<1> DEFINE middle == SubSeq(next, j + 1, j + diff)
<1>1. Len(body) \in Nat /\ Len(next) \in Nat /\ Len(after) \in Nat
  OBVIOUS
<1>2. middle \in Seq(Nat) /\ Len(middle) = diff
  <2>1. \A k \in j + 1..j + diff : next[k] \in Nat
    BY <1>1
  <2>2. /\ middle \in Seq(Nat)
        /\ Len(middle) = IF j + 1 <= j + diff THEN j + diff - (j + 1) + 1 ELSE 0
    <3> HIDE DEF middle
    <3>1. QED
      BY <2>1, SubSeqProperties DEF middle
  <2>3. QED
    BY <2>2
<1> DEFINE pair == <<same, diff>>
<1>3. Ends(body, c, pair \o middle \o after)
  BY DEF RunThen
<1>4. pair \in Seq(Nat) /\ Len(pair) = 2 /\ pair[1] = same /\ pair[2] = diff
  OBVIOUS
<1> HIDE DEF middle, pair
<1>5. pair \o middle \o after = pair \o (middle \o after)
  BY <1>2, <1>4, Associative
<1>6. middle \o after \in Seq(Nat)
  BY <1>2
<1>7. /\ \A k \in 1..Len(pair) : body[c - 1 + k] = pair[k]
      /\ Ends(body, c + Len(pair), middle \o after)
  <2>1. Ends(body, c, pair \o (middle \o after)) /\ c \in Nat \ {0}
    BY <1>3, <1>5
  <2>2. QED
    BY <1>4, <1>6, <2>1, EndsOfConcat
<1>8. body[c] = same /\ body[c + 1] = diff
  <2>1. body[c - 1 + 1] = same /\ body[c - 1 + 2] = diff
    BY <1>4, <1>7
  <2>2. c - 1 + 1 = c /\ c - 1 + 2 = c + 1
    OBVIOUS
  <2>3. QED
    BY <2>1, <2>2
<1>9. /\ \A k \in 1..Len(middle) : body[c + 2 - 1 + k] = middle[k]
      /\ Ends(body, c + 2 + Len(middle), after)
  <2> DEFINE d == c + 2
  <2>1. Ends(body, d, middle \o after)
    BY <1>4, <1>7, Zenon
  <2>2. d \in Nat \ {0}
    OBVIOUS
  <2> HIDE DEF d
  <2>3. /\ \A k \in 1..Len(middle) : body[d - 1 + k] = middle[k]
        /\ Ends(body, d + Len(middle), after)
    BY <1>2, <2>1, <2>2, EndsOfConcat
  <2>4. QED
    BY <2>3 DEF d
<1>10. Ends(body, c + 2 + diff, after)
  BY <1>2, <1>9
<1>11. Len(body) = c + 2 + diff - 1 + Len(after)
  BY <1>10 DEF Ends
<1>12. c + 2 + diff \in 2..Len(body) + 1 /\ c + 1 + diff <= Len(body)
  BY <1>1, <1>11
<1>13. SubSeq(body, c + 2, c + 1 + diff) = middle
  <2> DEFINE part == SubSeq(body, c + 2, c + 1 + diff)
  <2>1. \A k \in c + 2..c + 1 + diff : body[k] \in Nat
    <3>1. c + 2 \in Nat \ {0} /\ c + 1 + diff \in Nat
      OBVIOUS
    <3>2. QED
      BY <1>12, <3>1, ItemsAreNat, Zenon
  <2>2. /\ part \in Seq(Nat)
        /\ Len(part) = IF c + 2 <= c + 1 + diff THEN c + 1 + diff - (c + 2) + 1 ELSE 0
        /\ \A k \in 1..c + 1 + diff - (c + 2) + 1 : part[k] = body[c + 2 + k - 1]
    <3> HIDE DEF part
    <3>1. QED
      BY <2>1, SubSeqProperties DEF part
  <2> HIDE DEF part
  <2>3. Len(part) = diff /\ c + 1 + diff - (c + 2) + 1 = diff
    BY <2>2
  <2>4. \A k \in 1..diff : part[k] = middle[k]
    <3>1. \A k \in 1..diff : c + 2 + k - 1 = c + 2 - 1 + k
      OBVIOUS
    <3>2. QED
      BY <1>2, <1>9, <2>2, <2>3, <3>1
  <2>5. part = middle
    BY <1>2, <2>2, <2>3, <2>4, SeqEqual
  <2>6. QED
    BY <2>5 DEF part
<1>14. tail = c + 2 + diff /\ tail - 1 = c + 1 + diff
  OBVIOUS
<1>15. QED
  BY <1>8, <1>10, <1>12, <1>13, <1>14 DEF middle, Part, RunRead

\* A run of bytes that are the same as in the base, up to j, and a run of others,
\* up to n, and the place c of a body where they are.
RunFits(base, next, body, c, i, same, j, diff, n, tail) ==
    /\ j = i + same /\ n = j + diff /\ diff > 0 /\ n <= Len(next)
    /\ same > 0 => j <= Len(base)
    /\ c < Len(body) /\ tail = c + 2 + diff /\ tail <= Len(body) + 1

RunIsThere(next, body, rest, c, same, j, diff, n, tail) ==
    /\ body[c] = same /\ body[c + 1] = diff
    /\ SubSeq(body, c + 2, tail - 1) = Part(next, j, n)
    /\ rest[tail][n] = Part(next, n, Len(next))

SameBytes(base, next, i, j) == \A k \in i + 1..j : base[k] = next[k]

LEMMA SameBytesSame ==
  ASSUME NEW base \in Seq(Nat), NEW next \in Seq(Nat), NEW i \in Nat, NEW j \in Nat,
         j >= i, j > i => j <= Len(base) /\ j <= Len(next), SameBytes(base, next, i, j)
  PROVE  Part(base, i, j) = Part(next, i, j)
<1>1. Len(base) \in Nat /\ Len(next) \in Nat
  OBVIOUS
<1>2. CASE i = j
  <2>1. j < i + 1 /\ i + 1 \in Int /\ j \in Int
    BY <1>2
  <2>2. QED
    BY <2>1, SubSeqEmpty DEF Part
<1>3. CASE j > i
  <2>1. \A k \in i + 1..j : k \in 1..Len(base) /\ k \in 1..Len(next)
    BY <1>1, <1>3
  <2>2. \A k \in i + 1..j : base[k] \in Nat /\ next[k] \in Nat
    BY <2>1
  <2> DEFINE a == SubSeq(base, i + 1, j)
             b == SubSeq(next, i + 1, j)
             n == j - i
  <2>3. i + 1 \in Int /\ j \in Int /\ n \in Nat /\ n = j - i
    BY <1>3
  <2>4. j - (i + 1) + 1 = n /\ (IF i + 1 <= j THEN j - (i + 1) + 1 ELSE 0) = n
    BY <1>3
  <2> HIDE DEF a, b, n
  <2>5. a \in Seq(Nat) /\ Len(a) = n /\ \A k \in 1..n : a[k] = base[i + 1 + k - 1]
    BY <2>2, <2>3, <2>4, SubSeqProperties DEF a
  <2>6. b \in Seq(Nat) /\ Len(b) = n /\ \A k \in 1..n : b[k] = next[i + 1 + k - 1]
    BY <2>2, <2>3, <2>4, SubSeqProperties DEF b
  <2>7. \A k \in 1..n : i + 1 + k - 1 \in i + 1..j
    BY <2>3
  <2>8. \A k \in 1..Len(a) : a[k] = b[k]
    BY <2>5, <2>6, <2>7 DEF SameBytes
  <2>9. a = b
    BY <2>5, <2>6, <2>8, SeqEqual, Zenon
  <2>10. QED
    BY <2>9 DEF a, b, Part
<1>4. QED
  BY <1>2, <1>3

\* A run and what follows it decode to the bytes they describe, when what
\* follows does.
LEMMA RunIsUndone ==
  ASSUME NEW base \in Seq(Nat), NEW next \in Seq(Nat), NEW body \in Seq(Nat), NEW rest,
         NEW c \in Nat, NEW i \in Nat, NEW same \in Nat, NEW j \in Nat, NEW diff \in Nat,
         NEW n \in Nat, NEW tail \in Nat,
         RunFits(base, next, body, c, i, same, j, diff, n, tail),
         SameBytes(base, next, i, j),
         RunIsThere(next, body, rest, c, same, j, diff, n, tail)
  PROVE  DecodedFrom(base, body, Len(next), rest, c, i) = Part(next, i, Len(next))
<1> DEFINE L == Len(next)
           B == Len(base)
           M == Len(body)
           shared == Min({B, L})
           last == Part(next, n, L)
           middle == Part(next, j, n)
<1>1. B \in Nat /\ L \in Nat /\ M \in Nat
  BY LenIsNat, Zenon
<1>2. shared = IF B <= L THEN B ELSE L
  BY <1>1, MinOfTwo, \A a \in Nat : a \in Int, Zenon
<1>3. /\ c < M /\ n <= L /\ diff > 0 /\ (same > 0 => j <= B) /\ tail <= M + 1
      /\ j = i + same /\ tail = c + 2 + diff /\ n = j + diff
  BY DEF RunFits
<1>4. /\ body[c] = same /\ body[c + 1] = diff
      /\ SubSeq(body, c + 2, tail - 1) = middle /\ rest[tail][n] = last
  BY Zenon DEF RunIsThere
<1>5. DecodedFrom(base, body, L, rest, c, i) =
         IF i = L THEN <<>> ELSE IF c > M THEN Failed
         ELSE IF same > 0 /\ j > shared THEN Failed
         ELSE Part(base, i, j) \o DiffFrom(body, L, rest, c, j)
  BY <1>3, <1>4 DEF DecodedFrom, Part
<1>6. DiffFrom(body, L, rest, c, j) =
         IF j = L THEN <<>> ELSE IF c = M THEN Failed
         ELSE IF diff = 0 \/ n > L \/ tail > M + 1 THEN Failed
         ELSE SubSeq(body, c + 2, tail - 1) \o rest[tail][n]
  BY <1>3, <1>4 DEF DiffFrom
<1> HIDE DEF shared, last, middle, L, B, M
<1>7. j < L /\ i < L /\ j >= i /\ j <= L /\ j <= n
  BY <1>1, <1>3
<1>8. DiffFrom(body, L, rest, c, j) = middle \o last
  <2>1. ~ (j = L) /\ ~ (c = M) /\ ~ (diff = 0 \/ n > L \/ tail > M + 1)
    BY <1>1, <1>3, <1>7
  <2>2. QED
    BY <1>4, <1>6, <2>1, Zenon
<1>9. Part(base, i, j) = Part(next, i, j)
  <2>1. j > i => j <= B /\ j <= L
    BY <1>1, <1>3, <1>7
  <2>2. QED
    BY <1>7, <2>1, SameBytesSame DEF B, L
<1>10. DecodedFrom(base, body, L, rest, c, i) = Part(next, i, j) \o (middle \o last)
  <2>1. ~ (i = L) /\ ~ (c > M) /\ ~ (same > 0 /\ j > shared)
    BY <1>1, <1>2, <1>3, <1>7
  <2>2. DecodedFrom(base, body, L, rest, c, i) = Part(base, i, j) \o DiffFrom(body, L, rest, c, j)
    BY <1>5, <2>1, Zenon
  <2>3. QED
    BY <1>8, <1>9, <2>2
<1>11. middle \o last = Part(next, j, L)
  <2>1. j <= n /\ n <= L /\ L <= Len(next) /\ L \in Nat
    BY <1>1, <1>3, <1>7 DEF L
  <2> HIDE DEF L
  <2>2. Part(next, j, n) \o Part(next, n, L) = Part(next, j, L)
    BY <2>1, PartsJoin, ZenonT(60)
  <2>3. QED
    BY <2>2 DEF middle, last
<1>12. Part(next, i, j) \o Part(next, j, L) = Part(next, i, L)
  <2>1. i <= j /\ j <= L /\ L <= Len(next)
    BY <1>1, <1>7 DEF L
  <2>2. L \in Nat
    BY <1>1
  <2> HIDE DEF L
  <2>3. QED
    BY <2>1, <2>2, PartsJoin, ZenonT(60)
<1>13. QED
  BY <1>10, <1>11, <1>12 DEF L

LastRunFits(base, next, body, c, i, same) ==
    /\ c = Len(body) /\ body[c] = same
    /\ i + same = Len(next) /\ same > 0 /\ i + same <= Len(base)

\* The last run decodes to the bytes it stands for.
LEMMA LastRunIsUndone ==
  ASSUME NEW base \in Seq(Nat), NEW next \in Seq(Nat), NEW body \in Seq(Nat), NEW rest,
         NEW c \in Nat, NEW i \in Nat, NEW same \in Nat,
         LastRunFits(base, next, body, c, i, same),
         SameBytes(base, next, i, Len(next))
  PROVE  DecodedFrom(base, body, Len(next), rest, c, i) = Part(next, i, Len(next))
<1> DEFINE L == Len(next)
           B == Len(base)
           shared == Min({B, L})
<1>1. B \in Nat /\ L \in Nat /\ Len(body) \in Nat
  BY LenIsNat, Zenon
<1>2. shared = IF B <= L THEN B ELSE L
  BY <1>1, MinOfTwo, \A a \in Nat : a \in Int, Zenon
<1>3. c = Len(body) /\ body[c] = same /\ L = i + same /\ same > 0 /\ L <= B
  BY DEF LastRunFits
<1>4. DecodedFrom(base, body, L, rest, c, i) =
         IF i = L THEN <<>> ELSE IF c > Len(body) THEN Failed
         ELSE IF same > 0 /\ L > shared THEN Failed
         ELSE Part(base, i, L) \o DiffFrom(body, L, rest, c, L)
  BY <1>3 DEF DecodedFrom, Part
<1>5. DiffFrom(body, L, rest, c, L) = <<>>
  BY Zenon DEF DiffFrom
<1> HIDE DEF shared, L, B
<1>6. L >= i /\ L <= L /\ i # L
  BY <1>1, <1>3
<1>7. Part(base, i, L) = Part(next, i, L)
  BY <1>1, <1>3, <1>6, SameBytesSame DEF B, L
<1>8. Part(next, i, L) \in Seq(Nat)
  BY <1>1, <1>6, PartIsSeq DEF L
<1>9. ~ (i = L) /\ ~ (c > Len(body)) /\ ~ (same > 0 /\ L > shared)
  BY <1>1, <1>2, <1>3, <1>6
<1>10. DecodedFrom(base, body, L, rest, c, i) = Part(base, i, L) \o DiffFrom(body, L, rest, c, L)
  BY <1>4, <1>9, Zenon
<1>11. DecodedFrom(base, body, L, rest, c, i) = Part(next, i, L) \o <<>>
  BY <1>5, <1>7, <1>10, Zenon
<1>12. QED
  BY <1>8, <1>11, ConcatEmptySeq DEF L

\* The runs that describe the bytes after the first i, wherever they are in a
\* body, decode to those bytes.
RunsUndone(next, body, from, rest) ==
    \A i \in 0..Len(next), c \in 2..Len(body) + 1 :
        Ends(body, c, from[i]) => rest[c][i] = Part(next, i, Len(next))

LEMMA DecodingUndoesRuns ==
  ASSUME NEW base \in Seq(Nat), NEW next \in Seq(Nat), NEW body \in Seq(Nat),
         NEW from, RunsSolved(base, next, from),
         NEW rest, DecodingSolved(base, body, Len(next), rest)
  PROVE  RunsUndone(next, body, from, rest)
<1> SUFFICES \A i \in 0..Len(next), c \in 2..Len(body) + 1 :
                 Ends(body, c, from[i]) => rest[c][i] = Part(next, i, Len(next))
  BY DEF RunsUndone
<1> DEFINE N == Len(next)
           D == 0..N
           C == 2..Len(body) + 1
           m == [i \in D |-> N - i]
           Right(i) == \A c \in C : Ends(body, c, from[i]) => rest[c][i] = Part(next, i, N)
           S == {i \in D : Right(i)}
<1>1. N \in Nat /\ Len(base) \in Nat /\ Len(body) \in Nat
  OBVIOUS
<1>2. m \in [D -> 0..N] /\ \A i, e \in D : m[e] < m[i] <=> e > i
  BY <1>1
<1>3. /\ \A c \in C, i \in D : rest[c][i] = DecodedFrom(base, body, N, rest, c, i)
      /\ \A i \in D : from[i] = RunsFrom(base, next, from, i) /\ from[i] \in Seq(Nat)
  BY DEF DecodingSolved, RunsSolved
<1>4. ASSUME NEW i \in D, \A e \in D : e > i => Right(e), NEW c \in C, Ends(body, c, from[i])
      PROVE  DecodedFrom(base, body, N, rest, c, i) = Part(next, i, N)
  <2> HIDE DEF Right, S, m
  <2>1. c \in Nat /\ c >= 2 /\ i \in Nat /\ i <= N
    BY <1>1
  <2> DEFINE same == SameRun(base, next, i)
  <2>2. SharedFrom(base, next, i, same)
    BY SameRunFacts
  <2>3. CASE i = N /\ \A h : RunsFrom(base, next, h, i) = <<>>
    <3>1. DecodedFrom(base, body, N, rest, c, i) = <<>>
      BY <2>3 DEF DecodedFrom
    <3>2. Part(next, i, N) = <<>>
      BY <1>1, <2>3, SubSeqEmpty DEF Part
    <3>3. QED
      BY <3>1, <3>2
  <2>4. CASE i < N /\ i + same = N /\ \A h : RunsFrom(base, next, h, i) = <<same>>
    <3>1. from[i] = <<same>>
      BY <1>3, <2>4
    <3> HIDE DEF same
    <3>2. same \in Nat /\ same > 0 /\ i + same <= Len(base) /\ SameBytes(base, next, i, N)
      <4>1. /\ same \in Nat /\ i + same <= N
            /\ same > 0 => i + same <= Len(base)
            /\ \A k \in i + 1..i + same : base[k] = next[k]
        BY <2>2 DEF SharedFrom
      <4>2. i + same = N
        BY <2>4
      <4> HIDE DEF N
      <4>3. same > 0
        BY <1>1, <2>1, <2>4, <4>1
      <4>4. QED
        BY <4>1, <4>2, <4>3 DEF SameBytes
    <3>3. Len(body) = c /\ body[c] = same
      <4>1. Ends(body, c, <<same>>)
        BY <1>4, <3>1
      <4>2. Len(body) = c - 1 + 1 /\ body[c - 1 + 1] = same
        BY <4>1 DEF Ends
      <4>3. c - 1 + 1 = c
        BY <2>1
      <4>4. QED
        BY <4>2, <4>3
    <3>4. LastRunFits(base, next, body, c, i, same)
      BY <2>4, <3>2, <3>3 DEF LastRunFits
    <3>5. QED
      BY <2>1, <3>2, <3>4, LastRunIsUndone
  <2>5. CASE \E s, j, diff \in Nat :
                /\ RunAt(base, next, i, s, j, diff)
                /\ \A h : RunsFrom(base, next, h, i) = RunThen(next, s, j, diff, h[j + diff])
    <3>1. PICK s \in Nat, j \in Nat, diff \in Nat :
                /\ RunAt(base, next, i, s, j, diff)
                /\ \A h : RunsFrom(base, next, h, i) = RunThen(next, s, j, diff, h[j + diff])
      BY <2>5
    <3> DEFINE n == j + diff
               after == from[n]
               tail == c + 2 + diff
    <3>2. /\ s = same /\ j = i + s /\ n \in D /\ n > i /\ diff > 0
          /\ n <= N /\ n = j + diff /\ tail = c + 2 + diff /\ n \in Nat /\ tail \in Nat
      <4>1. s = same /\ j = i + s /\ n \in D /\ diff > 0
        BY <3>1 DEF RunAt
      <4>2. n = j + diff /\ tail = c + 2 + diff /\ n \in Nat /\ tail \in Nat
        BY <2>1
      <4> HIDE DEF same, n, tail
      <4>3. n <= N /\ n > i
        BY <1>1, <2>1, <4>1, <4>2
      <4>4. QED
        BY <4>1, <4>2, <4>3
    <3>3. Ends(body, c, RunThen(next, s, j, diff, after))
      BY <1>3, <1>4, <3>1
    <3>4. after \in Seq(Nat)
      BY <1>3, <3>2
    <3> HIDE DEF after, n, tail
    <3>5. /\ body[c] = s /\ body[c + 1] = diff
          /\ tail \in C
          /\ Ends(body, tail, after)
          /\ SubSeq(body, c + 2, tail - 1) = Part(next, j, n)
      <4>1. /\ c \in Nat /\ c >= 2 /\ n \in Nat /\ n = j + diff /\ n <= Len(next) /\ tail = c + 2 + diff
            /\ after \in Seq(Nat)
        BY <2>1, <3>2, <3>4
      <4>2. QED
        <5>1. RunRead(next, body, c, s, j, diff, n, tail, after)
          BY <3>3, <4>1, RunIsRead
        <5>2. QED
          BY <5>1 DEF RunRead
    <3>6. rest[tail][n] = Part(next, n, N)
      <4>1. Right(n)
        BY <1>4, <3>2
      <4>2. QED
        BY <3>5, <4>1 DEF Right, after
    <3>7. RunFits(base, next, body, c, i, s, j, diff, n, tail)
      <4>1. s > 0 => j <= Len(base)
        BY <2>2, <3>2 DEF SharedFrom
      <4>2. c < Len(body) /\ tail <= Len(body) + 1
        <5>1. tail \in Nat /\ tail <= Len(body) + 1
          BY <1>1, <3>5
        <5>2. QED
          BY <1>1, <2>1, <3>2, <5>1
      <4>3. QED
        BY <3>2, <4>1, <4>2 DEF RunFits
    <3>8. SameBytes(base, next, i, j)
      BY <2>2, <3>2 DEF SharedFrom, SameBytes
    <3>9. RunIsThere(next, body, rest, c, s, j, diff, n, tail)
      BY <3>2, <3>5, <3>6, Zenon DEF RunIsThere
    <3>10. QED
      BY <2>1, <3>2, <3>7, <3>8, <3>9, RunIsUndone, SMTT(30)
  <2>6. QED
    BY <2>3, <2>4, <2>5, RunsFromCases
<1>5. \A i \in D : (\A e \in D : m[e] < m[i] => e \in S) => i \in S
  <2>1. SUFFICES ASSUME NEW i \in D, \A e \in D : m[e] < m[i] => e \in S PROVE Right(i)
    OBVIOUS
  <2>2. \A e \in D : e > i => Right(e)
    BY <1>2, <2>1
  <2> HIDE DEF m, D, C
  <2>3. QED
    BY <1>3, <1>4, <2>2
<1>6. \A i \in D : i \in S
  <2>1. N \in Nat /\ m \in [D -> 0..N]
    BY <1>1, <1>2
  <2> HIDE DEF D, N, m, S
  <2>2. QED
    BY <1>5, <2>1, MeasureInduction, SMTT(30)
<1>7. QED
  BY <1>6

-----------------------------------------------------------------------------
(* A diff decodes to the snapshot it was made of *)

\* A sequence of n items, then one of m.
Joined(u, s, n, t, m) ==
    /\ u \in Seq(Nat) /\ Len(u) = n + m
    /\ \A i \in 1..n : u[i] = s[i]
    /\ \A i \in 1..m : u[n + i] = t[i]

LEMMA JoinFacts ==
  ASSUME NEW s \in Seq(Nat), NEW t \in Seq(Nat), NEW n \in Nat, NEW m \in Nat,
         Len(s) = n, Len(t) = m
  PROVE  Joined(s \o t, s, n, t, m)
<1>1. s \o t \in Seq(Nat) /\ Len(s \o t) = n + m
  BY SMTT(30)
<1>2. \A i \in 1..n + m : (s \o t)[i] = IF i <= n THEN s[i] ELSE t[i - n]
  OBVIOUS
<1> DEFINE u == s \o t
<1> HIDE DEF u
<1>3. \A i \in 1..n : u[i] = s[i]
  BY <1>2 DEF u
<1>4. \A i \in 1..m : u[n + i] = t[i]
  <2> TAKE i \in 1..m
  <2>1. n + i \in 1..n + m /\ ~(n + i <= n) /\ n + i - n = i
    OBVIOUS
  <2>2. QED
    BY <1>2, <2>1 DEF u
<1>5. QED
  BY <1>1, <1>3, <1>4 DEF Joined, u

LEMMA SequenceIsFunction ==
  ASSUME NEW s \in Seq(Nat), NEW n \in Nat, Len(s) = n
  PROVE  s = [i \in 1..n |-> s[i]]
<1>1. s \in [1..n -> Nat]
  OBVIOUS
<1>2. QED
  BY <1>1

\* A sequence and one item more.
LEMMA JoinOneFacts ==
  ASSUME NEW s \in Seq(Nat), NEW a \in Nat, NEW n \in Nat, Len(s) = n
  PROVE  /\ Joined(s \o <<a>>, s, n, <<a>>, 1) /\ (s \o <<a>>)[n + 1] = a
<1>1. <<a>> \in Seq(Nat) /\ Len(<<a>>) = 1 /\ <<a>>[1] = a /\ 1 \in 1..1
  OBVIOUS
<1>2. Joined(s \o <<a>>, s, n, <<a>>, 1)
  BY <1>1, JoinFacts
<1>3. QED
  BY <1>1, <1>2 DEF Joined

LEMMA DiffIsDecoded ==
  ASSUME NEW base \in Seq(Nat), NEW next \in Seq(Nat), next # <<>>, NEW body,
         body = <<Len(next)>> \o Runs(base, next)
  PROVE  body \in Seq(Nat) /\ body # <<>> /\ body[1] = Len(next) /\ Decoded(base, body, Len(next)) = next
<1>1. PICK from : RunsSolved(base, next, from) /\ Runs(base, next) = from[0]
  BY RunsRun
<1> DEFINE N == Len(next)
           runs == from[0]
<1>2. N \in Nat /\ N > 0 /\ 0 \in 0..N
  OBVIOUS
<1>3. runs \in Seq(Nat)
  BY <1>1, <1>2 DEF RunsSolved
<1>4. body = <<N>> \o runs
  BY <1>1
<1> HIDE DEF runs
<1>5. body \in Seq(Nat) /\ body # <<>> /\ body[1] = N /\ Ends(body, 2, runs)
  <2> HIDE DEF N
  <2>1. <<N>> \in Seq(Nat) /\ Len(<<N>>) = 1 /\ <<N>>[1] = N
    BY <1>2
  <2>2. Len(runs) \in Nat
    BY <1>3
  <2>3. /\ body \in Seq(Nat) /\ Len(body) = 1 + Len(runs)
        /\ body[1] = N /\ \A k \in 1..Len(runs) : body[1 + k] = runs[k]
    <3> DEFINE m == Len(runs)
    <3>1. 1 \in Nat /\ 1 \in 1..1
      OBVIOUS
    <3> HIDE DEF m
    <3>2. Joined(body, <<N>>, 1, runs, m)
      BY <1>3, <1>4, <2>1, <2>2, <3>1, JoinFacts DEF m
    <3>3. QED
      BY <2>1, <3>1, <3>2, Zenon DEF Joined, m
  <2>4. body # <<>> /\ Len(body) = 2 - 1 + Len(runs) /\ 2 - 1 = 1
    BY <2>2, <2>3
  <2>5. QED
    BY <2>3, <2>4 DEF Ends
<1>6. PICK rest : /\ DecodingSolved(base, body, N, rest)
                  /\ Decoded(base, body, N) = Checked(rest[2][0])
  BY <1>2, <1>5, DecodedRun
<1>7. 2 \in 2..Len(body) + 1
  BY <1>5
<1>8. rest[2][0] = Part(next, 0, N)
  <2>1. runs = from[0] /\ N = Len(next) /\ 2 \in Nat
    BY DEF runs
  <2> HIDE DEF N
  <2>2. \A i \in 0..N, c \in 2..Len(body) + 1 : Ends(body, c, from[i]) => rest[c][i] = Part(next, i, N)
    <3>1. DecodingSolved(base, body, Len(next), rest)
      BY <1>6, <2>1, Zenon
    <3>2. \A i \in 0..Len(next), c \in 2..Len(body) + 1 :
              Ends(body, c, from[i]) => rest[c][i] = Part(next, i, Len(next))
      <4>1. RunsSolved(base, next, from)
        BY <1>1
      <4>2. body \in Seq(Nat)
        BY <1>5
      <4>3. RunsUndone(next, body, from, rest)
        BY <3>1, <4>1, <4>2, DecodingUndoesRuns, Zenon
      <4>4. QED
        BY <4>3, Zenon DEF RunsUndone
    <3>3. QED
      BY <2>1, <3>2, Zenon
  <2>3. QED
    BY <1>2, <1>5, <1>7, <2>1, <2>2
<1>9. Part(next, 0, N) = next
  BY SubSeqFull DEF Part
<1>10. Checked(next) = next
  <2>1. Last(next) = next[N] /\ next[N] \in Nat
    BY <1>2 DEF Last
  <2>2. Failed[1] \notin Nat
    BY DEF Failed
  <2>3. QED
    BY <2>1, <2>2 DEF Checked
<1>11. QED
  BY <1>5, <1>6, <1>8, <1>9, <1>10

\* A frame decodes, with the baseline it was made against, to the snapshot it was made of.
LEMMA FrameIsDecoded ==
  ASSUME NEW base \in Seq(Nat), NEW next \in Seq(Nat), next # <<>>
  PROVE  /\ DecodeFrame(base, SnapshotFrame(base, next)) = next
         /\ DecodeFrame(<<>>, SnapshotFrame(base, next)) \in {next, Failed}
         /\ SnapshotFrame(<<>>, next) = FullFrame(next)
         /\ SnapshotFrame(base, next) \in Frame
         /\ SnapshotFrame(base, next) # Garbled
<1> DEFINE body == <<Len(next)>> \o Runs(base, next)
<1>1. body \in Seq(Nat) /\ body # <<>> /\ body[1] = Len(next) /\ Decoded(base, body, Len(next)) = next
  BY DiffIsDecoded
<1>2. CASE SnapshotFrame(base, next) = FullFrame(next)
  BY <1>2 DEF DecodeFrame, FullFrame, Frame, Garbled, SnapshotFrame
<1>3. CASE base # <<>> /\ SnapshotFrame(base, next) = [full |-> FALSE, body |-> body]
  <2> HIDE DEF body
  <2> DEFINE frame == [full |-> FALSE, body |-> body]
  <2>1. frame.full = FALSE /\ frame.body = body /\ frame \in Frame
    BY <1>1 DEF Frame
  <2>2. frame # Garbled
    BY <1>1 DEF Garbled
  <2> HIDE DEF frame
  <2>3. DecodeFrame(base, frame) = next /\ DecodeFrame(<<>>, frame) = Failed
    BY <1>1, <1>3, <2>1 DEF DecodeFrame
  <2>4. SnapshotFrame(<<>>, next) = FullFrame(next)
    BY DEF SnapshotFrame
  <2>5. SnapshotFrame(base, next) = frame
    BY <1>3 DEF frame
  <2>6. QED
    BY <2>1, <2>2, <2>3, <2>4, <2>5, Zenon
<1>4. SnapshotFrame(base, next) = FullFrame(next)
      \/ (base # <<>> /\ SnapshotFrame(base, next) = [full |-> FALSE, body |-> body])
  BY DEF SnapshotFrame
<1>5. QED
  BY <1>2, <1>3, <1>4

-----------------------------------------------------------------------------
(* A state is written and read back *)

Written == [board : [1..Cells -> Nat], queue : Seq(Nat), alive : {0, 1}]

LEMMA SerializeTyped ==
  ASSUME NEW s \in Written
  PROVE  /\ Serialize(s) \in Seq(Nat) /\ Serialize(s) # <<>> /\ Serialize(s) # Failed
         /\ Len(Serialize(s)) = Cells + Len(s.queue) + 2
         /\ \A i \in 1..Cells : Serialize(s)[i] = s.board[i]
         /\ Serialize(s)[Cells + 1] = Len(s.queue)
         /\ \A i \in 1..Len(s.queue) : Serialize(s)[Cells + 1 + i] = s.queue[i]
         /\ Serialize(s)[Cells + Len(s.queue) + 2] = s.alive
<1> DEFINE b == s.board
           q == s.queue
           a == s.alive
           n == Len(q)
<1>1. b \in [1..Cells -> Nat] /\ q \in Seq(Nat) /\ a \in Nat
  BY DEF Written
<1>2. Cells \in Nat /\ Cells > 0 /\ n \in Nat
  BY <1>1, SnapshotsAssumption
<1>3. b \in Seq(Nat) /\ Len(b) = Cells
  BY <1>1, <1>2
<1>4. Serialize(s) = ((b \o <<n>>) \o q) \o <<a>>
  BY DEF Serialize
<1> HIDE DEF b, q, a, n
<1> DEFINE s1 == b \o <<n>>
           s2 == s1 \o q
           s3 == s2 \o <<a>>
<1>5. /\ s1 \in Seq(Nat) /\ Len(s1) = Cells + 1
      /\ \A i \in 1..Cells : s1[i] = b[i]
      /\ s1[Cells + 1] = n
  BY <1>2, <1>3, JoinOneFacts DEF Joined
<1> HIDE DEF s1
<1>6. /\ s2 \in Seq(Nat) /\ Len(s2) = Cells + 1 + n
      /\ \A i \in 1..Cells + 1 : s2[i] = s1[i]
      /\ \A i \in 1..n : s2[Cells + 1 + i] = q[i]
  <2>1. n = Len(q)
    BY DEF n
  <2>2. Cells + 1 \in Nat
    BY <1>2
  <2>3. QED
    <3> DEFINE m == Cells + 1
    <3>1. m \in Nat /\ \A i \in 1..n : Cells + 1 + i = m + i
      BY <2>2
    <3> HIDE DEF m
    <3>2. Joined(s2, s1, m, q, n)
      BY <1>1, <1>2, <1>5, <2>1, <3>1, JoinFacts DEF m
    <3>3. QED
      BY <3>2 DEF Joined, m
<1> HIDE DEF s2
<1>7. /\ s3 \in Seq(Nat) /\ Len(s3) = Cells + n + 2
      /\ \A i \in 1..Cells + 1 + n : s3[i] = s2[i]
      /\ s3[Cells + n + 2] = a
  <2>2. Cells + 1 + n \in Nat /\ Cells + 1 + n + 1 = Cells + n + 2 /\ 1 \in 1..1
    BY <1>2
  <2> DEFINE m == Cells + 1 + n
  <2> HIDE DEF m
  <2>3. /\ s3 \in Seq(Nat) /\ Len(s3) = m + 1
        /\ \A i \in 1..m : s3[i] = s2[i]
        /\ s3[m + 1] = a
    BY <1>1, <1>6, <2>2, JoinOneFacts DEF m, Joined
  <2>4. QED
    BY <2>2, <2>3 DEF m
<1>8. Serialize(s) = s3
  BY <1>4 DEF s3, s2, s1
<1> HIDE DEF s3
<1>9. \A i \in 1..Cells : i \in 1..Cells + 1 /\ i \in 1..Cells + 1 + n
  BY <1>2
<1>10. Cells + 1 \in 1..Cells + 1 /\ Cells + 1 \in 1..Cells + 1 + n
  BY <1>2
<1>11. \A i \in 1..n : Cells + 1 + i \in 1..Cells + 1 + n
  BY <1>2
<1>12. s3 # <<>> /\ s3 # Failed
  <2>1. s3[Cells + n + 2] \in Nat /\ Cells + n + 2 >= 3 /\ Cells + n + 2 \in Nat
    BY <1>1, <1>2, <1>7
  <2>2. Len(<<>>) = 0 /\ Len(Failed) = 1
    BY DEF Failed
  <2>3. Len(s3) >= 3
    BY <1>7, <2>1
  <2>4. QED
    <3>1. ASSUME s3 = <<>> PROVE FALSE
      BY <2>2, <2>3, <3>1
    <3>2. ASSUME s3 = Failed PROVE FALSE
      <4>1. Len(s3) = 1
        BY <2>2, <3>2, Zenon
      <4>2. QED
        BY <2>3, <4>1
    <3>3. QED
      BY <3>1, <3>2
<1>13. QED
  BY <1>5, <1>6, <1>7, <1>8, <1>9, <1>10, <1>11, <1>12 DEF b, q, a, n

LEMMA DeserializeUndoesSerialize ==
  ASSUME NEW s \in Written
  PROVE  Deserialize(Serialize(s), Cells) = s
<1> DEFINE bytes == Serialize(s)
           n == Len(s.queue)
<1>1. s.board \in [1..Cells -> Nat] /\ s.queue \in Seq(Nat)
  BY DEF Written
<1>2. Cells \in Nat /\ Cells > 0 /\ n \in Nat
  BY <1>1, SnapshotsAssumption
<1>3. /\ bytes \in Seq(Nat) /\ Len(bytes) = Cells + n + 2
      /\ \A i \in 1..Cells : bytes[i] = s.board[i]
      /\ bytes[Cells + 1] = n
      /\ \A i \in 1..n : bytes[Cells + 1 + i] = s.queue[i]
      /\ bytes[Cells + n + 2] = s.alive
  BY SerializeTyped
<1>4. s.queue = [i \in 1..n |-> s.queue[i]] /\ s.board = [i \in 1..Cells |-> s.board[i]]
  BY <1>1, <1>2, SequenceIsFunction
<1> HIDE DEF bytes, n
<1>5. DOMAIN bytes = 1..Cells + n + 2
  BY <1>3
<1>6. /\ Cells + 1 \in DOMAIN bytes /\ Cells + n + 2 \in DOMAIN bytes
      /\ \A i \in 1..Cells : i \in DOMAIN bytes
      /\ \A i \in 1..n : Cells + 1 + i \in DOMAIN bytes
  BY <1>2, <1>5
<1>7. /\ ByteAt(bytes, Cells + 1) = n /\ ByteAt(bytes, Cells + n + 2) = s.alive
      /\ \A i \in 1..Cells : ByteAt(bytes, i) = s.board[i]
      /\ \A i \in 1..n : ByteAt(bytes, Cells + 1 + i) = s.queue[i]
  BY <1>3, <1>6 DEF ByteAt
<1>8. [i \in 1..Cells |-> ByteAt(bytes, i)] = s.board
  BY <1>4, <1>7
<1>9. [i \in 1..n |-> ByteAt(bytes, Cells + 1 + i)] = s.queue
  BY <1>4, <1>7
<1>10. Deserialize(bytes, Cells) = [board |-> s.board, queue |-> s.queue, alive |-> s.alive]
  BY <1>7, <1>8, <1>9 DEF Deserialize
<1>11. s = [board |-> s.board, queue |-> s.queue, alive |-> s.alive]
  BY DEF Written
<1>12. QED
  BY <1>10, <1>11 DEF bytes

-----------------------------------------------------------------------------
(* What a client shows *)

\* A frame as it was sent for a socket believed to hold b, or garbled since.
Genuine(u, b) ==
    /\ u.full <=> b = <<>>
    /\ u.frame = Garbled \/ u.frame = SnapshotFrame(b, Serialize(u.of))

\* A frame made against b can be given to a client that holds this: it is whole,
\* or the client holds nothing, or what it was made against.
Follows(held, b) == b = <<>> \/ held = <<>> \/ held = b

\* What the client holds before its i-th message on the way, if none fails.
Held(c, i) == IF i = 1 THEN baseline[c] ELSE Serialize(updates[c][i - 1].of)

InOrder(c) ==
    /\ \A i \in 1..Len(updates[c]) :
          \E b \in Baseline : Genuine(updates[c][i], b) /\ Follows(Held(c, i), b)
    /\ Follows(Held(c, Len(updates[c]) + 1), BaseFor(c))

SnapshotsInv ==
    /\ TypeOK
    /\ \A c \in Sockets : InOrder(c)
    /\ ShowsWhatTheServerMeant

LEMMA HeldNext ==
  ASSUME NEW c, NEW i \in Nat \ {0}
  PROVE  /\ Held(c, i + 1) = Serialize(updates[c][i].of)
         /\ Held(c, i + 1)' = Serialize(updates'[c][i].of)
<1>1. i + 1 # 1 /\ i + 1 - 1 = i
  OBVIOUS
<1> DEFINE j == i + 1
<1> HIDE DEF j
<1>2. Held(c, j) = Serialize(updates[c][j - 1].of) /\ Held(c, j)' = Serialize(updates'[c][j - 1].of)
  BY <1>1 DEF Held, j
<1>3. QED
  BY <1>1, <1>2 DEF j

LEMMA StatesAreWritten ==
  ASSUME NEW s \in States
  PROVE  /\ s \in Written /\ Serialize(s) \in Seq(Nat) /\ Serialize(s) # <<>>
         /\ Serialize(s) # Failed /\ Serialize(s) \in Baseline
         /\ Deserialize(Serialize(s), Cells) = s
<1>1. s \in Written
  BY SnapshotsAssumption DEF Written
<1>2. QED
  BY <1>1, SerializeTyped, DeserializeUndoesSerialize DEF Baseline, Snapshot

LEMMA BaselineTyped ==
  ASSUME NEW b \in Baseline
  PROVE  b \in Seq(Nat) /\ b # Failed
<1>1. CASE b = <<>>
  <2>1. Len(Failed) = 1 /\ Len(<<>>) = 0
    BY DEF Failed
  <2>2. QED
    BY <1>1, <2>1
<1>2. CASE b # <<>>
  BY <1>2, StatesAreWritten DEF Baseline, Snapshot
<1>3. QED
  BY <1>1, <1>2

\* What a client makes of the next message: nothing, or the state it stands for.
LEMMA FollowerDecodes ==
  ASSUME NEW u \in Update, NEW b \in Baseline, NEW held, Genuine(u, b), Follows(held, b)
  PROVE  (IF u.frame = Garbled THEN Failed
          ELSE DecodeFrame(IF u.full THEN <<>> ELSE held, u.frame)) \in {Failed, Serialize(u.of)}
<1> DEFINE next == Serialize(u.of)
           given == IF u.full THEN <<>> ELSE held
<1>1. u.of \in States
  BY DEF Update
<1>2. next \in Seq(Nat) /\ next # <<>> /\ b \in Seq(Nat)
  BY <1>1, StatesAreWritten, BaselineTyped
<1>3. given = <<>> \/ given = b
  BY DEF Genuine, Follows
<1>4. u.frame = Garbled \/ u.frame = SnapshotFrame(b, next)
  BY DEF Genuine
<1> HIDE DEF next, given
<1>5. /\ DecodeFrame(b, SnapshotFrame(b, next)) = next
      /\ DecodeFrame(<<>>, SnapshotFrame(b, next)) \in {next, Failed}
  BY <1>2, FrameIsDecoded
<1>6. CASE u.frame = Garbled
  BY <1>6
<1>7. CASE u.frame = SnapshotFrame(b, next)
  <2>1. DecodeFrame(given, u.frame) \in {next, Failed}
    BY <1>3, <1>5, <1>7
  <2>2. QED
    BY <2>1 DEF next, given
<1>8. QED
  BY <1>4, <1>6, <1>7

LEMMA SnapshotsInit == Init => SnapshotsInv
<1> SUFFICES ASSUME Init PROVE SnapshotsInv
  OBVIOUS
<1>1. TypeOK
  <2>1. MaxInFlight \in Nat /\ MaxCorrupted \in Nat /\ <<>> \in Baseline /\ <<>> \in Seq(Update)
    BY SnapshotsAssumption DEF Baseline
  <2>2. updates \in [Sockets -> Seq(Update)]
    BY <2>1 DEF Init
  <2>3. resyncs \in [Sockets -> 0..MaxInFlight] /\ corrupted \in 0..MaxCorrupted
    BY <2>1 DEF Init
  <2>4. \A c \in Sockets : Len(updates[c]) + resyncs[c] <= MaxInFlight
    <3> TAKE c \in Sockets
    <3>1. Len(updates[c]) = 0 /\ resyncs[c] = 0
      BY DEF Init
    <3>2. QED
      BY <2>1, <3>1
  <2>5. QED
    BY <2>1, <2>2, <2>3, <2>4 DEF Init, TypeOK
<1>2. \A c \in Sockets : InOrder(c)
  BY DEF Init, InOrder, Follows, Held, BaseFor
<1>3. ShowsWhatTheServerMeant
  BY DEF Init, ShowsWhatTheServerMeant
<1>4. QED
  BY <1>1, <1>2, <1>3 DEF SnapshotsInv

\* The frame of a step is typed and genuine.
LEMMA UpdateIsGenuine ==
  ASSUME TypeOK, NEW c \in Sockets, NEW next \in States
  PROVE  /\ UpdateFor(c, next) \in Update
         /\ BaseFor(c) \in Baseline
         /\ Genuine(UpdateFor(c, next), BaseFor(c))
         /\ UpdateFor(c, next).of = next
<1>1. BaseFor(c) \in Baseline
  BY DEF TypeOK, BaseFor, Baseline
<1>2. SnapshotFrame(BaseFor(c), Serialize(next)) \in Frame
  BY <1>1, BaselineTyped, StatesAreWritten, FrameIsDecoded
<1>3. QED
  BY <1>1, <1>2 DEF UpdateFor, Update, Genuine

LEMMA SnapshotsTick ==
  ASSUME SnapshotsInv, NEW next \in States, NEW ends \in BOOLEAN, Tick(next, ends)
  PROVE  SnapshotsInv'
<1> USE DEF Tick
<1>1. TypeOK
  BY DEF SnapshotsInv
<1>2. updates \in [Sockets -> Seq(Update)] /\ MaxInFlight \in Nat /\ resyncs \in [Sockets -> 0..MaxInFlight]
  BY <1>1, SnapshotsAssumption DEF TypeOK
<1>3. \A c \in Sockets : UpdateFor(c, next) \in Update
  BY <1>1, UpdateIsGenuine
<1>4. /\ updates' \in [Sockets -> Seq(Update)]
      /\ \A c \in Sockets : updates'[c] = Append(updates[c], UpdateFor(c, next))
  BY <1>2, <1>3
<1>5. ASSUME NEW c \in Sockets
      PROVE  Len(updates'[c]) + resyncs'[c] <= MaxInFlight
  <2>1. Len(updates'[c]) = Len(updates[c]) + 1 /\ Len(updates[c]) \in Nat /\ resyncs[c] \in Nat
    BY <1>2, <1>4
  <2>2. QED
    BY <1>2, <2>1
<1>6. TypeOK'
  <2>1. /\ state' \in States /\ finished' \in BOOLEAN /\ needFull' \subseteq Sockets
        /\ baselines' \in [Sockets -> Baseline]
    BY StatesAreWritten
  <2>2. QED
    BY <1>1, <1>4, <1>5, <2>1 DEF TypeOK, Update, Frame, Baseline, Snapshot
<1>7. ASSUME NEW c \in Sockets
      PROVE  InOrder(c)'
  <2> DEFINE u == updates[c]
  <2>1. u \in Seq(Update) /\ Len(u) \in Nat
    BY <1>2
  <2> PICK n \in Nat : n = Len(u)
    BY <2>1
  <2>2. /\ Len(updates'[c]) = n + 1 /\ updates'[c][n + 1] = UpdateFor(c, next)
        /\ \A i \in 1..n : updates'[c][i] = u[i]
    BY <1>3, <1>4, <2>1
  <2>3. /\ \A i \in 1..n : \E b \in Baseline : Genuine(u[i], b) /\ Follows(Held(c, i), b)
        /\ Follows(Held(c, n + 1), BaseFor(c))
    BY DEF SnapshotsInv, InOrder
  <2>4. \A i \in 1..n + 1 : Held(c, i)' = Held(c, i)
    <3> TAKE i \in 1..n + 1
    <3>1. i = 1 \/ i - 1 \in 1..n
      BY <2>1
    <3>2. QED
      BY <2>2, <3>1 DEF Held
  <2>5. Held(c, n + 2)' = Serialize(next)
    <3>1. n + 1 \in Nat \ {0} /\ n + 1 + 1 = n + 2
      OBVIOUS
    <3>2. updates'[c][n + 1].of = next
      BY <1>1, <2>2, UpdateIsGenuine
    <3>3. Held(c, n + 1 + 1)' = Serialize(updates'[c][n + 1].of)
      BY <3>1, HeldNext, Zenon
    <3>4. QED
      BY <3>1, <3>2, <3>3, Zenon
  <2>6. BaseFor(c)' = Serialize(next)
    BY DEF BaseFor
  <2>7. ASSUME NEW i \in 1..n + 1
        PROVE  \E b \in Baseline : Genuine(updates'[c][i], b) /\ Follows(Held(c, i)', b)
    <3>1. CASE i = n + 1
      BY <1>1, <2>2, <2>3, <2>4, <3>1, UpdateIsGenuine
    <3>2. CASE i # n + 1
      <4>1. i \in 1..n
        BY <2>1, <3>2
      <4>2. QED
        BY <2>2, <2>3, <2>4, <4>1
    <3>3. QED
      BY <3>1, <3>2
  <2>8. n + 1 + 1 = n + 2
    BY <2>1
  <2>9. QED
    <3>1. Follows(Held(c, n + 2), BaseFor(c))'
      BY <2>5, <2>6 DEF Follows
    <3>2. Len(updates'[c]) + 1 = n + 2
      BY <2>2, <2>8
    <3>3. Follows(Held(c, Len(updates[c]) + 1), BaseFor(c))'
      BY <3>1, <3>2, Zenon DEF Follows, Held
    <3>4. \A i \in 1..Len(updates'[c]) :
             \E b \in Baseline : Genuine(updates'[c][i], b) /\ Follows(Held(c, i)', b)
      BY <2>2, <2>7
    <3> HIDE DEF u, Tick
    <3>5. QED
      BY <3>3, <3>4 DEF InOrder, Follows, Baseline, Snapshot
<1>8. ShowsWhatTheServerMeant'
  BY DEF SnapshotsInv, ShowsWhatTheServerMeant
<1>9. QED
  BY <1>6, <1>7, <1>8 DEF SnapshotsInv

LEMMA SnapshotsResync ==
  ASSUME SnapshotsInv, NEW d \in Sockets, Resync(d)
  PROVE  SnapshotsInv'
<1> USE DEF Resync
<1>1. TypeOK
  BY DEF SnapshotsInv
<1>2. TypeOK'
  <2>1. <<>> \in Baseline /\ MaxInFlight \in Nat
    BY SnapshotsAssumption DEF Baseline
  <2>2. resyncs' \in [Sockets -> 0..MaxInFlight] /\ \A c \in Sockets : resyncs'[c] <= resyncs[c]
    BY <1>1, <2>1 DEF TypeOK
  <2>3. baselines' \in [Sockets -> Baseline] /\ needFull' \subseteq Sockets
    BY <1>1, <2>1 DEF TypeOK
  <2>4. ASSUME NEW c \in Sockets
        PROVE  Len(updates'[c]) + resyncs'[c] <= MaxInFlight
    <3>1. updates[c] \in Seq(Update) /\ resyncs[c] \in Nat /\ resyncs'[c] \in Nat
          /\ Len(updates[c]) + resyncs[c] <= MaxInFlight /\ updates' = updates
      BY <1>1, <2>1, <2>2 DEF TypeOK
    <3>2. Len(updates[c]) \in Nat
      BY <3>1
    <3>3. QED
      BY <2>1, <2>2, <3>1, <3>2
  <2>5. QED
    BY <1>1, <2>2, <2>3, <2>4 DEF TypeOK, Update, Frame, Baseline, Snapshot
<1>3. ASSUME NEW c \in Sockets
      PROVE  InOrder(c)'
  <2>1. BaseFor(c)' = BaseFor(c) \/ BaseFor(c)' = <<>>
    BY <1>1 DEF BaseFor, TypeOK
  <2>2. \A i : Held(c, i)' = Held(c, i)
    BY DEF Held
  <2>3. QED
    BY <2>1, <2>2 DEF SnapshotsInv, InOrder, Follows, Baseline, Snapshot
<1>4. ShowsWhatTheServerMeant'
  BY DEF SnapshotsInv, ShowsWhatTheServerMeant
<1>5. QED
  BY <1>2, <1>3, <1>4 DEF SnapshotsInv

LEMMA SnapshotsApply ==
  ASSUME SnapshotsInv, NEW d \in Sockets, Apply(d)
  PROVE  SnapshotsInv'
<1>1. TypeOK
  BY DEF SnapshotsInv
<1> DEFINE u == updates[d]
           decoded == DecodedBy(d, Head(u))
<1> PICK n : n = Len(u)
  OBVIOUS
<1>2. /\ u # <<>> /\ updates' = [updates EXCEPT ![d] = Tail(@)]
      /\ baseline' = [baseline EXCEPT ![d] = BaselineAfter(d, decoded)]
      /\ UNCHANGED <<state, finished, baselines, needFull, corrupted>>
  BY DEF Apply
<1>3. \/ /\ decoded = Failed
         /\ resyncs' = [resyncs EXCEPT ![d] = @ + 1]
         /\ shown' = shown /\ meant' = meant
      \/ /\ decoded # Failed
         /\ shown' = [shown EXCEPT ![d] = Deserialize(decoded, Cells)]
         /\ meant' = [meant EXCEPT ![d] = Head(u).of]
         /\ resyncs' = resyncs
  BY DEF Apply
<1>4. /\ updates \in [Sockets -> Seq(Update)] /\ resyncs \in [Sockets -> 0..MaxInFlight]
      /\ baseline \in [Sockets -> Baseline] /\ MaxInFlight \in Nat
      /\ shown \in [Sockets -> States \cup {Nothing}] /\ meant \in [Sockets -> States \cup {Nothing}]
  BY <1>1, SnapshotsAssumption DEF TypeOK
<1>5. /\ u \in Seq(Update) /\ n \in Nat /\ n >= 1 /\ Head(u) = u[1] /\ u[1] \in Update
      /\ Tail(u) \in Seq(Update) /\ Len(Tail(u)) = n - 1
      /\ \A i \in 1..n - 1 : Tail(u)[i] = u[i + 1]
  BY <1>2, <1>4
<1>6. u[1].of \in States
  BY <1>5 DEF Update
<1>7. decoded \in {Failed, Serialize(u[1].of)}
  <2>1. PICK b \in Baseline : Genuine(u[1], b) /\ Follows(Held(d, 1), b)
    BY <1>5 DEF SnapshotsInv, InOrder
  <2>2. Held(d, 1) = baseline[d]
    BY DEF Held
  <2>3. decoded = IF u[1].frame = Garbled THEN Failed
                  ELSE DecodeFrame(IF u[1].full THEN <<>> ELSE baseline[d], u[1].frame)
    BY <1>5 DEF DecodedBy
  <2>4. QED
    BY <1>5, <2>1, <2>2, <2>3, FollowerDecodes
<1>8. decoded # Failed => Deserialize(decoded, Cells) = u[1].of
  BY <1>6, <1>7, StatesAreWritten
<1>9. BaselineAfter(d, decoded) \in {<<>>, Serialize(u[1].of)}
  BY <1>7 DEF BaselineAfter
<1> HIDE DEF decoded
<1>10. /\ updates' \in [Sockets -> Seq(Update)]
       /\ \A c \in Sockets : updates'[c] = IF c = d THEN Tail(u) ELSE updates[c]
  BY <1>2, <1>4, <1>5
<1>11. /\ baseline' \in [Sockets -> Baseline]
       /\ \A c \in Sockets : baseline'[c] = IF c = d THEN BaselineAfter(d, decoded) ELSE baseline[c]
  BY <1>2, <1>4, <1>6, <1>9 DEF Baseline, Snapshot
<1>12. ShowsWhatTheServerMeant' /\ shown' \in [Sockets -> States \cup {Nothing}]
  BY <1>3, <1>4, <1>5, <1>6, <1>8 DEF SnapshotsInv, ShowsWhatTheServerMeant
<1>13. /\ resyncs' \in [Sockets -> 0..MaxInFlight]
       /\ \A c \in Sockets : Len(updates'[c]) + resyncs'[c] <= MaxInFlight
  <2>1. \A c \in Sockets : /\ Len(updates[c]) \in Nat /\ resyncs[c] \in Nat
                           /\ Len(updates[c]) + resyncs[c] <= MaxInFlight
    BY <1>1, <1>4 DEF TypeOK
  <2>2. resyncs[d] + 1 \in 0..MaxInFlight
    BY <1>4, <1>5, <2>1
  <2>3. resyncs' \in [Sockets -> 0..MaxInFlight]
        /\ \A c \in Sockets : resyncs'[c] = resyncs[c] \/ (c = d /\ resyncs'[c] = resyncs[c] + 1)
    BY <1>3, <1>4, <2>2
  <2>4. ASSUME NEW c \in Sockets
        PROVE  Len(updates'[c]) + resyncs'[c] <= MaxInFlight
    <3>1. CASE c = d
      <4>1. Len(updates'[c]) = Len(updates[c]) - 1
        BY <1>5, <1>10, <3>1
      <4>2. resyncs'[c] = resyncs[c] \/ resyncs'[c] = resyncs[c] + 1
        BY <2>3
      <4> DEFINE l == Len(updates[c])
                 r == resyncs[c]
      <4>3. l \in Nat /\ r \in Nat /\ l + r <= MaxInFlight
        BY <2>1
      <4> HIDE DEF l, r
      <4>4. l - 1 + r <= MaxInFlight /\ l - 1 + (r + 1) <= MaxInFlight
        BY <1>4, <4>3
      <4>5. QED
        BY <4>1, <4>2, <4>4 DEF l, r
    <3>2. CASE c # d
      BY <1>10, <2>1, <2>3, <3>2
    <3>3. QED
      BY <3>1, <3>2
  <2>5. QED
    BY <2>3, <2>4
<1>14. TypeOK'
  BY <1>1, <1>2, <1>4, <1>10, <1>11, <1>12, <1>13 DEF TypeOK, ShowsWhatTheServerMeant, Update, Frame, Baseline, Snapshot
<1>15. ASSUME NEW c \in Sockets
       PROVE  InOrder(c)'
  <2>1. BaseFor(c)' = BaseFor(c)
    BY <1>2 DEF BaseFor
  <2>2. CASE c # d
    <3>1. updates'[c] = updates[c] /\ baseline'[c] = baseline[c]
      BY <1>10, <1>11, <2>2
    <3>2. \A i : Held(c, i)' = Held(c, i)
      BY <3>1 DEF Held
    <3>3. InOrder(c)
      BY DEF SnapshotsInv
    <3>4. Follows(Held(c, Len(updates[c]) + 1), BaseFor(c))'
      BY <2>1, <3>1, <3>2, <3>3 DEF InOrder, Follows
    <3>5. \A i \in 1..Len(updates'[c]) :
             \E b \in Baseline : Genuine(updates'[c][i], b) /\ Follows(Held(c, i)', b)
      BY <3>1, <3>2, <3>3 DEF InOrder
    <3> HIDE DEF u
    <3>6. QED
      BY <3>4, <3>5 DEF InOrder, Baseline, Snapshot
  <2>3. CASE c = d
    <3>1. /\ \A i \in 1..n : \E b \in Baseline : Genuine(u[i], b) /\ Follows(Held(c, i), b)
          /\ Follows(Held(c, n + 1), BaseFor(c))
      BY <2>3 DEF SnapshotsInv, InOrder
    <3>2. ASSUME NEW i \in 1..n
          PROVE  Held(c, i)' = Held(c, i + 1) \/ Held(c, i)' = <<>>
      <4>1. i \in Nat \ {0}
        BY <1>5
      <4>2. Held(c, i + 1) = Serialize(u[i].of)
        BY <2>3, <4>1, HeldNext, Zenon
      <4>3. CASE i = 1
        BY <1>9, <1>11, <2>3, <4>2, <4>3 DEF Held
      <4>4. CASE i # 1
        <5>1. i - 1 \in 1..n - 1 /\ i - 1 + 1 = i
          BY <1>5, <4>4
        <5>2. updates'[c][i - 1] = u[i]
          BY <1>5, <1>10, <2>3, <5>1
        <5>3. Held(c, i)' = Serialize(updates'[c][i - 1].of)
          BY <4>4 DEF Held
        <5>4. QED
          BY <4>2, <5>2, <5>3
      <4>5. QED
        BY <4>3, <4>4
    <3>3. Len(updates'[c]) = n - 1 /\ n - 1 + 1 = n /\ n \in 1..n
      BY <1>5, <1>10, <2>3
    <3>4. Follows(Held(c, Len(updates[c]) + 1), BaseFor(c))'
      <4>1. Follows(Held(c, n)', BaseFor(c))
        BY <3>1, <3>2, <3>3 DEF Follows
      <4>2. Len(updates'[c]) + 1 = n
        BY <3>3
      <4>3. QED
        BY <2>1, <4>1, <4>2, Zenon DEF Follows, Held
    <3>5. ASSUME NEW i \in 1..n - 1
          PROVE  \E b \in Baseline : Genuine(updates'[c][i], b) /\ Follows(Held(c, i)', b)
      <4>1. i \in 1..n /\ i + 1 \in 1..n
        BY <1>5
      <4>2. updates'[c][i] = u[i + 1]
        BY <1>5, <1>10, <2>3
      <4>3. PICK b \in Baseline : Genuine(u[i + 1], b) /\ Follows(Held(c, i + 1), b)
        BY <3>1, <4>1
      <4>4. QED
        BY <3>2, <4>1, <4>2, <4>3 DEF Follows
    <3> HIDE DEF u
    <3>6. QED
      BY <3>3, <3>4, <3>5 DEF InOrder, Baseline, Snapshot
  <2>4. QED
    BY <2>2, <2>3
<1>16. QED
  BY <1>12, <1>14, <1>15 DEF SnapshotsInv

LEMMA SnapshotsCorrupt ==
  ASSUME SnapshotsInv, NEW d \in Sockets, Corrupt(d)
  PROVE  SnapshotsInv'
<1>1. TypeOK
  BY DEF SnapshotsInv
<1> DEFINE u == updates[d]
           damaged == [u[1] EXCEPT !.frame = Garbled]
           w == [u EXCEPT ![1] = damaged]
<1>2. /\ u # <<>> /\ updates' = [updates EXCEPT ![d] = w]
      /\ corrupted < MaxCorrupted /\ corrupted' = corrupted + 1
      /\ UNCHANGED <<state, finished, baselines, needFull, resyncs, baseline, shown, meant>>
  BY DEF Corrupt
<1>3. updates \in [Sockets -> Seq(Update)] /\ MaxCorrupted \in Nat /\ corrupted \in 0..MaxCorrupted
  BY <1>1, SnapshotsAssumption DEF TypeOK
<1>4. u \in Seq(Update) /\ Len(u) \in Nat /\ 1 \in 1..Len(u) /\ u[1] \in Update
  BY <1>2, <1>3
<1>5. Garbled \in Frame
  BY DEF Garbled, Frame
<1>6. /\ damaged \in Update /\ damaged.of = u[1].of /\ damaged.full = u[1].full
      /\ damaged.frame = Garbled
  <2> HIDE DEF u
  <2>1. QED
    BY <1>4, <1>5 DEF Update
<1> HIDE DEF damaged
<1>7. /\ w \in Seq(Update) /\ Len(w) = Len(u) /\ w[1] = damaged
      /\ \A i \in 1..Len(u) : i # 1 => w[i] = u[i]
  BY <1>4, <1>6
<1> HIDE DEF w
<1>8. /\ updates' \in [Sockets -> Seq(Update)]
      /\ \A c \in Sockets : updates'[c] = IF c = d THEN w ELSE updates[c]
  BY <1>2, <1>3, <1>7
<1>9. TypeOK'
  <2>1. corrupted' \in 0..MaxCorrupted
    BY <1>2, <1>3
  <2>2. \A c \in Sockets : Len(updates'[c]) = Len(updates[c])
    BY <1>7, <1>8
  <2>3. QED
    BY <1>1, <1>2, <1>8, <2>1, <2>2 DEF TypeOK, Update, Frame, Baseline, Snapshot
<1>10. ASSUME NEW c \in Sockets
       PROVE  InOrder(c)'
  <2>1. BaseFor(c)' = BaseFor(c) /\ Len(updates'[c]) = Len(updates[c]) /\ Len(updates[c]) \in Nat
    BY <1>2, <1>3, <1>7, <1>8 DEF BaseFor
  <2>2. /\ \A i \in 1..Len(updates[c]) : updates'[c][i].of = updates[c][i].of
        /\ \A i \in 1..Len(updates[c]) : \A b : Genuine(updates[c][i], b) => Genuine(updates'[c][i], b)
    BY <1>6, <1>7, <1>8 DEF Genuine
  <2>3. \A i \in 1..Len(updates[c]) + 1 : Held(c, i)' = Held(c, i)
    <3> TAKE i \in 1..Len(updates[c]) + 1
    <3>1. i = 1 \/ i - 1 \in 1..Len(updates[c])
      BY <2>1
    <3>2. QED
      BY <1>2, <2>2, <3>1 DEF Held
  <2>4. /\ \A i \in 1..Len(updates[c]) :
              \E b \in Baseline : Genuine(updates[c][i], b) /\ Follows(Held(c, i), b)
        /\ Follows(Held(c, Len(updates[c]) + 1), BaseFor(c))
    BY DEF SnapshotsInv, InOrder
  <2>5. \A i \in 1..Len(updates'[c]) :
              \E b \in Baseline : Genuine(updates'[c][i], b) /\ Follows(Held(c, i)', b)
    <3> TAKE i \in 1..Len(updates'[c])
    <3>1. i \in 1..Len(updates[c]) /\ i \in 1..Len(updates[c]) + 1
      BY <2>1
    <3>2. QED
      BY <2>2, <2>3, <2>4, <3>1
  <2>6. Follows(Held(c, Len(updates[c]) + 1), BaseFor(c))'
    <3>1. Len(updates[c]) + 1 \in 1..Len(updates[c]) + 1
      BY <2>1
    <3>2. QED
      BY <2>1, <2>3, <2>4, <3>1
  <2>7. QED
    BY <2>5, <2>6 DEF InOrder, Baseline, Snapshot
<1>11. ShowsWhatTheServerMeant'
  BY <1>2 DEF SnapshotsInv, ShowsWhatTheServerMeant
<1>12. QED
  BY <1>9, <1>10, <1>11 DEF SnapshotsInv

LEMMA SnapshotsStep == SnapshotsInv /\ [Next]_vars => SnapshotsInv'
<1> SUFFICES ASSUME SnapshotsInv, [Next]_vars PROVE SnapshotsInv'
  OBVIOUS
<1>1. ASSUME NEW next \in States, NEW ends \in BOOLEAN, Tick(next, ends) PROVE SnapshotsInv'
  BY <1>1, SnapshotsTick
<1>2. ASSUME NEW c \in Sockets, Resync(c) PROVE SnapshotsInv'
  BY <1>2, SnapshotsResync
<1>3. ASSUME NEW c \in Sockets, Apply(c) PROVE SnapshotsInv'
  BY <1>3, SnapshotsApply
<1>4. ASSUME NEW c \in Sockets, Corrupt(c) PROVE SnapshotsInv'
  BY <1>4, SnapshotsCorrupt
<1>5. CASE UNCHANGED vars
  <2>1. TypeOK' /\ ShowsWhatTheServerMeant'
    BY <1>5 DEF vars, SnapshotsInv, TypeOK, Update, Frame, Baseline, Snapshot, ShowsWhatTheServerMeant
  <2>2. ASSUME NEW c \in Sockets PROVE InOrder(c)'
    <3>1. updates' = updates /\ BaseFor(c)' = BaseFor(c) /\ \A i : Held(c, i)' = Held(c, i)
      BY <1>5 DEF vars, BaseFor, Held
    <3>2. InOrder(c)
      BY DEF SnapshotsInv
    <3>3. QED
      BY <3>1, <3>2 DEF InOrder, Baseline, Snapshot, Genuine, Follows
  <2>3. QED
    BY <2>1, <2>2 DEF SnapshotsInv
<1>6. QED
  BY <1>1, <1>2, <1>3, <1>4, <1>5 DEF Next

\* A client shows the state the server was in when it sent what is on the screen,
\* whatever diffs, full frames, refused frames and resyncs are on their way
\* (broadcast, match:resync, SnapshotStream.apply, encode/decodeSnapshotFrame,
\* serialize/deserialize).
THEOREM ClientsShowWhatTheServerMeant == Spec => []ShowsWhatTheServerMeant
<1>1. SnapshotsInv => ShowsWhatTheServerMeant
  BY DEF SnapshotsInv
<1>2. QED
  BY <1>1, SnapshotsInit, SnapshotsStep, PTL DEF Spec

\* The room, what each socket was sent and each stream keep their types: nothing
\* but frames and resyncs travels, never more of them than the bound allows, and
\* only those who sit in the room wait for a full frame (broadcast, match:resync,
\* SnapshotStream).
THEOREM SnapshotsAreTyped == Spec => []TypeOK
<1>1. SnapshotsInv => TypeOK
  BY DEF SnapshotsInv
<1>2. QED
  BY <1>1, SnapshotsInit, SnapshotsStep, PTL DEF Spec
=============================================================================
