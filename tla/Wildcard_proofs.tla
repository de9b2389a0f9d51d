--------------------------- MODULE Wildcard_proofs --------------------------
(***************************************************************************)
(* wildcard_match means what it is to mean, for every pattern and input.   *)
(* It is recursive, so that the proofs are by induction, over sets of      *)
(* numbers.                                                                *)
(***************************************************************************)
EXTENDS Wildcard, WellFoundedInduction, TLAPS

LEMMA SetInduction ==
    ASSUME NEW S, 0 \in S, \A k \in Nat : k \in S => k + 1 \in S
    PROVE  Nat \subseteq S
<1> DEFINE Bad == Nat \ S
<1>1. SUFFICES ASSUME Bad # {} PROVE FALSE
  OBVIOUS
<1>2. PICK k \in Bad : \A y \in Bad : ~(<<y, k>> \in OpToRel(<, Nat))
  BY <1>1, NatLessThanWellFounded, WFMin
<1>3. k \in Nat /\ k # 0 /\ k - 1 \in Nat /\ k - 1 < k /\ (k - 1) + 1 = k
  OBVIOUS
<1>4. k - 1 \in Bad
  BY <1>2, <1>3
<1>5. <<k - 1, k>> \in OpToRel(<, Nat)
  BY <1>3, Zenon DEF OpToRel
<1> QED BY <1>2, <1>4, <1>5
-----------------------------------------------------------------------------
(***************************************************************************)
(* The recursion is well founded: every call is for one character less     *)
(***************************************************************************)
IsMatch(pattern, input, f) ==
    f = [i \in 1 .. Len(pattern) + 1 |-> MatchFrom(pattern, input, i, f[i + 1])]

\* Past the end of the pattern, the rest does not matter.
LEMMA MatchFromEnd ==
    ASSUME NEW Char, NEW pattern \in Seq(Char), NEW input \in Seq(Char), NEW f, NEW g
    PROVE  MatchFrom(pattern, input, Len(pattern) + 1, f) = MatchFrom(pattern, input, Len(pattern) + 1, g)
<1>1. Len(pattern) \in Nat /\ Len(pattern) + 1 > Len(pattern)
  OBVIOUS
<1> QED BY <1>1 DEF MatchFrom

LEMMA MatchExists ==
    ASSUME NEW Char, NEW pattern \in Seq(Char), NEW input \in Seq(Char)
    PROVE  \E f : IsMatch(pattern, input, f)
<1> DEFINE n == Len(pattern)
           Places == 1 .. n + 1
           Row(i, rest) == MatchFrom(pattern, input, i, rest)
           Defines(f, k) == /\ f = [i \in Places |-> f[i]]
                            /\ \A i \in Places : i + k >= n + 1 => f[i] = Row(i, f[i + 1])
           S == {k \in Nat : k <= n => \E f : Defines(f, k)}
<1>1. n \in Nat
  OBVIOUS
<1>2. \A f, g : Row(n + 1, f) = Row(n + 1, g)
  BY MatchFromEnd
<1> HIDE DEF Row, n
<1>3. 0 \in S
  <2> DEFINE f == [i \in Places |-> Row(n + 1, i)]
  <2>1. Defines(f, 0)
    <3>1. \A i \in Places : i + 0 >= n + 1 => i = n + 1
      BY <1>1
    <3> QED BY <1>2, <3>1
  <2> QED BY <2>1
<1>4. ASSUME NEW k \in Nat, k \in S PROVE k + 1 \in S
  <2>1. SUFFICES ASSUME k + 1 <= n PROVE \E f : Defines(f, k + 1)
    OBVIOUS
  <2>2. PICK g : Defines(g, k)
    BY <1>1, <1>4, <2>1
  <2> DEFINE p == n - k
             f == [i \in Places |-> IF i = p THEN Row(p, g[p + 1]) ELSE g[i]]
  <2>3. p \in Places /\ p + 1 \in Places /\ p + 1 # p
    BY <1>1, <2>1
  <2>4. ASSUME NEW i \in Places, i + (k + 1) >= n + 1 PROVE f[i] = Row(i, f[i + 1])
    <3>1. CASE i = p
      BY <2>3, <3>1
    <3>2. CASE i = n + 1
      <4>1. i # p /\ i + k >= n + 1
        BY <1>1, <3>2
      <4>2. f[i] = g[i] /\ g[i] = Row(i, g[i + 1])
        BY <2>2, <4>1
      <4> HIDE DEF f
      <4> QED BY <1>2, <3>2, <4>2
    <3>3. CASE i # p /\ i # n + 1
      <4>1. i + k >= n + 1 /\ i + 1 \in Places /\ i + 1 # p
        BY <1>1, <2>1, <2>4, <3>3
      <4> QED BY <2>2, <3>3, <4>1
    <3> QED BY <3>1, <3>2, <3>3
  <2> QED BY <2>4
<1>5. n \in S
  <2> HIDE DEF S
  <2> QED BY <1>1, <1>3, <1>4, SetInduction
<1>6. PICK f : Defines(f, n)
  BY <1>1, <1>5
<1>7. \A i \in Places : i + n >= n + 1
  BY <1>1
<1>8. f = [i \in Places |-> Row(i, f[i + 1])]
  BY <1>6, <1>7
<1> QED BY <1>8 DEF IsMatch, Row, n

LEMMA WildcardMatchUnfolds ==
    ASSUME NEW Char, NEW pattern \in Seq(Char), NEW input \in Seq(Char)
    PROVE  \E f : IsMatch(pattern, input, f) /\ WildcardMatch(pattern, input) = f[1][1]
<1> DEFINE match == CHOOSE f : f = [i \in 1 .. Len(pattern) + 1 |->
                                      MatchFrom(pattern, input, i, f[i + 1])]
<1>1. IsMatch(pattern, input, match)
  <2>1. \E f : f = [i \in 1 .. Len(pattern) + 1 |-> MatchFrom(pattern, input, i, f[i + 1])]
    BY MatchExists DEF IsMatch
  <2> QED BY <2>1, Zenon DEF IsMatch
<1>2. WildcardMatch(pattern, input) = match[1][1]
  BY Zenon DEF WildcardMatch
<1> QED BY <1>1, <1>2
-----------------------------------------------------------------------------
(***************************************************************************)
(* What the recursion computes                                             *)
(***************************************************************************)

\* The pattern from its i-th character on matches the input from its j-th on.
MatchesFrom(pattern, input, i, j) ==
    \E cut \in [0 .. Len(pattern) -> 0 .. Len(input)] :
        /\ cut[i - 1] = j - 1 /\ cut[Len(pattern)] = Len(input)
        /\ \A x \in i .. Len(pattern) : Piece(pattern, input, cut, x)

\* Nothing of the pattern is left.
LEMMA MatchesNothing ==
    ASSUME NEW Char, NEW pattern \in Seq(Char), NEW input \in Seq(Char),
           NEW j \in 1 .. Len(input) + 1
    PROVE  MatchesFrom(pattern, input, Len(pattern) + 1, j) <=> j > Len(input)
<1> DEFINE n == Len(pattern)
           m == Len(input)
           cut == [x \in 0 .. n |-> m]
<1>1. n \in Nat /\ m \in Nat
  OBVIOUS
<1> HIDE DEF n, m
<1>2. ASSUME j > m PROVE MatchesFrom(pattern, input, n + 1, j)
  <2>1. cut \in [0 .. n -> 0 .. m] /\ cut[(n + 1) - 1] = j - 1 /\ cut[n] = m
    BY <1>1, <1>2 DEF m
  <2>2. (n + 1) .. n = {}
    BY <1>1
  <2> HIDE DEF cut
  <2> QED BY <2>1, <2>2 DEF MatchesFrom, n, m
<1>3. ASSUME MatchesFrom(pattern, input, n + 1, j) PROVE j > m
  <2>1. PICK c \in [0 .. n -> 0 .. m] : c[(n + 1) - 1] = j - 1 /\ c[n] = m
    BY <1>3 DEF MatchesFrom, n, m
  <2>2. (n + 1) - 1 = n
    BY <1>1
  <2>3. j - 1 = m
    BY <2>1, <2>2
  <2> QED BY <1>1, <2>3
<1> QED BY <1>2, <1>3 DEF n, m

\* The next character of the pattern stands for the piece from j to k.
LEMMA MatchesPiece ==
    ASSUME NEW Char, NEW pattern \in Seq(Char), NEW input \in Seq(Char),
           NEW i \in 1 .. Len(pattern), NEW j \in 1 .. Len(input) + 1
    PROVE  MatchesFrom(pattern, input, i, j) <=>
              \E k \in 1 .. Len(input) + 1 :
                 /\ \/ pattern[i] = "*" /\ j <= k
                    \/ k = j + 1 /\ pattern[i] \in {"?", input[j]}
                 /\ MatchesFrom(pattern, input, i + 1, k)
<1> DEFINE n == Len(pattern)
           m == Len(input)
<1>1. n \in Nat /\ m \in Nat /\ i \in Nat /\ (i + 1) - 1 = i /\ i \in 0 .. n /\ i - 1 \in 0 .. n
  OBVIOUS
<1> HIDE DEF n, m
<1>2. ASSUME MatchesFrom(pattern, input, i, j)
      PROVE  \E k \in 1 .. m + 1 :
                 /\ \/ pattern[i] = "*" /\ j <= k
                    \/ k = j + 1 /\ pattern[i] \in {"?", input[j]}
                 /\ MatchesFrom(pattern, input, i + 1, k)
  <2>1. PICK cut \in [0 .. n -> 0 .. m] :
           /\ cut[i - 1] = j - 1 /\ cut[n] = m
           /\ \A x \in i .. n : Piece(pattern, input, cut, x)
    BY <1>2 DEF MatchesFrom, n, m
  <2> DEFINE k == cut[i] + 1
  <2>2. cut[i] \in 0 .. m /\ k \in 1 .. m + 1 /\ k - 1 = cut[i]
    BY <1>1
  <2>3. Piece(pattern, input, cut, i)
    BY <1>1, <2>1 DEF n
  <2>4. \/ pattern[i] = "*" /\ j <= k
        \/ k = j + 1 /\ pattern[i] \in {"?", input[j]}
    <3>1. j \in Nat /\ (j - 1) + 1 = j
      BY <1>1 DEF m
    <3> QED BY <2>1, <2>2, <2>3, <3>1 DEF Piece
  <2>5. MatchesFrom(pattern, input, i + 1, k)
    <3>1. \A x \in i + 1 .. n : Piece(pattern, input, cut, x)
      BY <1>1, <2>1
    <3>2. cut[(i + 1) - 1] = k - 1
      BY <1>1, <2>2
    <3> HIDE DEF k
    <3> QED BY <2>1, <3>1, <3>2 DEF MatchesFrom, n, m
  <2> QED BY <2>2, <2>4, <2>5
<1>3. ASSUME NEW k \in 1 .. m + 1,
             \/ pattern[i] = "*" /\ j <= k
             \/ k = j + 1 /\ pattern[i] \in {"?", input[j]},
             MatchesFrom(pattern, input, i + 1, k)
      PROVE  MatchesFrom(pattern, input, i, j)
  <2>1. PICK c \in [0 .. n -> 0 .. m] :
           /\ c[(i + 1) - 1] = k - 1 /\ c[n] = m
           /\ \A x \in i + 1 .. n : Piece(pattern, input, c, x)
    BY <1>3 DEF MatchesFrom, n, m
  <2> DEFINE cut == [c EXCEPT ![i - 1] = j - 1]
  <2>2. j - 1 \in 0 .. m /\ j \in Nat
    BY <1>1 DEF m
  <2>3. /\ cut \in [0 .. n -> 0 .. m] /\ cut[i - 1] = j - 1
        /\ \A x \in 0 .. n : x # i - 1 => cut[x] = c[x]
    BY <1>1, <2>2
  <2> HIDE DEF cut
  <2>4. cut[n] = m /\ cut[i] = k - 1
    BY <1>1, <2>1, <2>3 DEF n
  <2>5. ASSUME NEW x \in i .. n PROVE Piece(pattern, input, cut, x)
    <3>1. CASE x = i
      <4>1. (j - 1) + 1 = j /\ (k = j + 1 => k - 1 = j) /\ (j <= k => j - 1 <= k - 1)
        BY <1>1, <2>2
      <4> QED BY <1>3, <2>3, <2>4, <3>1, <4>1 DEF Piece
    <3>2. CASE x # i
      <4>1. /\ x \in i + 1 .. n /\ x \in 0 .. n /\ x - 1 \in 0 .. n
            /\ x # i - 1 /\ x - 1 # i - 1
        BY <1>1, <3>2
      <4>2. cut[x] = c[x] /\ cut[x - 1] = c[x - 1]
        BY <2>3, <4>1
      <4> QED BY <2>1, <4>1, <4>2 DEF Piece
    <3> QED BY <3>1, <3>2
  <2> QED BY <2>3, <2>4, <2>5 DEF MatchesFrom, n, m
<1> QED BY <1>2, <1>3 DEF n, m

\* One call of wildcard_match is right if the calls it makes are.
LEMMA MatchStep ==
    ASSUME NEW Char, NEW pattern \in Seq(Char), NEW input \in Seq(Char),
           NEW i \in 1 .. Len(pattern), NEW rest,
           \A k \in 1 .. Len(input) + 1 : rest[k] <=> MatchesFrom(pattern, input, i + 1, k),
           NEW j \in 1 .. Len(input) + 1
    PROVE  MatchFrom(pattern, input, i, rest)[j] <=> MatchesFrom(pattern, input, i, j)
<1> DEFINE n == Len(pattern)
           m == Len(input)
           Right(k) == MatchesFrom(pattern, input, i + 1, k)
<1>1. n \in Nat /\ m \in Nat /\ i \in 1 .. n /\ ~(i > n) /\ j \in 1 .. m + 1
  OBVIOUS
<1>2. MatchFrom(pattern, input, i, rest)[j] <=>
         IF pattern[i] = "*" THEN i = n \/ \E k \in j .. m + 1 : rest[k]
         ELSE j <= m /\ pattern[i] \in {"?", input[j]} /\ rest[j + 1]
  BY <1>1 DEF MatchFrom
<1>3. MatchesFrom(pattern, input, i, j) <=>
         \E k \in 1 .. m + 1 :
            /\ \/ pattern[i] = "*" /\ j <= k
               \/ k = j + 1 /\ pattern[i] \in {"?", input[j]}
            /\ Right(k)
  BY MatchesPiece
<1>4. \A k \in 1 .. m + 1 : rest[k] <=> Right(k)
  OBVIOUS
<1>5. i = n => Right(m + 1)
  <2>1. m + 1 \in 1 .. Len(input) + 1 /\ m + 1 > Len(input)
    BY <1>1
  <2> QED BY <2>1, MatchesNothing
<1> HIDE DEF n, m, Right
<1>6. CASE pattern[i] = "*"
  <2>1. \A k \in 1 .. m + 1 : j <= k <=> k \in j .. m + 1
    BY <1>1
  <2>2. \A k \in j .. m + 1 : k \in 1 .. m + 1
    BY <1>1
  <2>3. m + 1 \in j .. m + 1
    BY <1>1
  <2>4. \A k \in 1 .. m + 1 : k = j + 1 => j <= k
    BY <1>1
  <2>5. MatchesFrom(pattern, input, i, j) <=> \E k \in j .. m + 1 : Right(k)
    BY <1>3, <1>6, <2>1, <2>2, <2>4
  <2>6. MatchFrom(pattern, input, i, rest)[j] <=> i = n \/ \E k \in j .. m + 1 : Right(k)
    BY <1>2, <1>4, <1>6, <2>2
  <2> QED BY <1>5, <2>3, <2>5, <2>6
<1>7. CASE pattern[i] # "*"
  <2>1. j <= m <=> j + 1 \in 1 .. m + 1
    BY <1>1
  <2> QED BY <1>2, <1>3, <1>4, <1>7, <2>1
<1> QED BY <1>6, <1>7

\* wildcard_match says that a pattern matches an input exactly when the input
\* falls into pieces that the pattern's characters stand for.
THEOREM WildcardMatchIsRight ==
    ASSUME NEW Char, NEW pattern \in Seq(Char), NEW input \in Seq(Char)
    PROVE  WildcardMatch(pattern, input) <=> Matches(pattern, input)
<1> DEFINE n == Len(pattern)
           m == Len(input)
           Right(i, j) == MatchesFrom(pattern, input, i, j)
<1>1. n \in Nat /\ m \in Nat
  OBVIOUS
<1>2. PICK f : IsMatch(pattern, input, f) /\ WildcardMatch(pattern, input) = f[1][1]
  BY WildcardMatchUnfolds
<1>3. \A i \in 1 .. n + 1 : f[i] = MatchFrom(pattern, input, i, f[i + 1])
  BY <1>2 DEF IsMatch
<1> DEFINE S == {k \in Nat : \A i \in 1 .. n + 1 : i + k >= n + 1 =>
                                \A j \in 1 .. m + 1 : f[i][j] <=> Right(i, j)}
<1>4. 0 \in S
  <2>1. \A j \in 1 .. m + 1 : f[n + 1][j] <=> j > m
    <3>1. f[n + 1] = MatchFrom(pattern, input, n + 1, f[(n + 1) + 1])
      BY <1>1, <1>3
    <3>2. \A rest : \A j \in 1 .. m + 1 : MatchFrom(pattern, input, n + 1, rest)[j] <=> j > m
      <4>1. n + 1 > n
        BY <1>1
      <4> QED BY <4>1 DEF MatchFrom
    <3> HIDE DEF n, m
    <3> QED BY <3>1, <3>2
  <2>2. \A j \in 1 .. m + 1 : Right(n + 1, j) <=> j > m
    BY MatchesNothing
  <2>3. \A i \in 1 .. n + 1 : i + 0 >= n + 1 => i = n + 1
    BY <1>1
  <2> HIDE DEF n, m, Right
  <2> QED BY <2>1, <2>2, <2>3
<1>5. ASSUME NEW k \in Nat, k \in S PROVE k + 1 \in S
  <2>1. SUFFICES ASSUME NEW i \in 1 .. n + 1, i + (k + 1) >= n + 1, NEW j \in 1 .. m + 1
                 PROVE  f[i][j] <=> Right(i, j)
    OBVIOUS
  <2>2. CASE i = n + 1
    <3>1. i + k >= n + 1
      BY <1>1, <2>2
    <3> QED BY <1>5, <3>1
  <2>3. CASE i # n + 1
    <3>1. i \in 1 .. n /\ i + 1 \in 1 .. n + 1 /\ (i + 1) + k >= n + 1
      BY <1>1, <2>1, <2>3
    <3>2. \A x \in 1 .. m + 1 : f[i + 1][x] <=> Right(i + 1, x)
      BY <1>5, <3>1
    <3>3. MatchFrom(pattern, input, i, f[i + 1])[j] <=> Right(i, j)
      BY <3>1, <3>2, MatchStep
    <3> QED BY <1>3, <3>3
  <2> QED BY <2>2, <2>3
<1>6. n \in S
  <2> HIDE DEF S
  <2> QED BY <1>1, <1>4, <1>5, SetInduction
<1>7. f[1][1] <=> Right(1, 1)
  <2>1. 1 \in 1 .. n + 1 /\ 1 + n >= n + 1 /\ 1 \in 1 .. m + 1
    BY <1>1
  <2> QED BY <1>6, <2>1
<1>8. Right(1, 1) <=> Matches(pattern, input)
  BY DEF MatchesFrom, Matches
<1> QED BY <1>2, <1>7, <1>8
=============================================================================
