---------------------------- MODULE ListsProofs ----------------------------
(***************************************************************************)
(* What InOrder and Among give, for every set, every order and every list. *)
(***************************************************************************)
EXTENDS Lists, SequencesExt, Integers, FiniteSetTheorems, NaturalsInduction,
        WellFoundedInduction, TLAPS

\* less is a strict total order on S.
Orders(less, S) ==
  /\ \A i \in S : <<i, i>> \notin less
  /\ \A i, j \in S : i # j => <<i, j>> \in less \/ <<j, i>> \in less
  /\ \A i, j, k \in S : <<i, j>> \in less /\ <<j, k>> \in less => <<i, k>> \in less

\* Every element has its turn, the lesser ones first.
LEMMA InOrderFacts ==
  ASSUME NEW S, IsFiniteSet(S), NEW less, Orders(less, S)
  PROVE  /\ Cardinality(S) \in Nat
         /\ InOrder(S, less) \in [1 .. Cardinality(S) -> S]
         /\ \A k, m \in 1 .. Cardinality(S) :
              k < m => <<InOrder(S, less)[k], InOrder(S, less)[m]>> \in less
         /\ \A i \in S : \E k \in 1 .. Cardinality(S) : InOrder(S, less)[k] = i
         /\ \A k \in 1 .. Cardinality(S) : Cardinality({j \in S : \/ j = InOrder(S, less)[k]
                                                               \/ <<j, InOrder(S, less)[k]>> \in less}) = k
<1> DEFINE Upto(i) == {j \in S : j = i \/ <<j, i>> \in less}
           c == Cardinality(S)
           R == [i \in S |-> Cardinality(Upto(i))]
           r == InOrder(S, less)
<1>1. c \in Nat
  BY FS_CardinalityType
<1>2. \A i \in S : IsFiniteSet(Upto(i)) /\ Cardinality(Upto(i)) \in 1 .. c
  <2> TAKE i \in S
  <2>1. Upto(i) \in SUBSET S /\ i \in Upto(i)
    OBVIOUS
  <2>2. IsFiniteSet(Upto(i)) /\ Cardinality(Upto(i)) <= c
    BY <2>1, FS_Subset
  <2>3. Cardinality(Upto(i)) \in Nat /\ Cardinality(Upto(i)) # 0
    BY <2>1, <2>2, FS_CardinalityType, FS_EmptySet
  <2> HIDE DEF Upto
  <2> QED
    BY <1>1, <2>2, <2>3
<1>3. \A i, j \in S : <<i, j>> \in less => Cardinality(Upto(i)) < Cardinality(Upto(j))
  <2> SUFFICES ASSUME NEW i \in S, NEW j \in S, <<i, j>> \in less
               PROVE  Cardinality(Upto(i)) < Cardinality(Upto(j))
    OBVIOUS
  <2>1. \A k \in Upto(i) : k \in Upto(j)
    BY DEF Orders
  <2>2. j \in Upto(j) /\ j \notin Upto(i)
    BY DEF Orders
  <2>3. Upto(i) \in SUBSET Upto(j) /\ Upto(j) # Upto(i)
    <3> HIDE DEF Upto
    <3> QED BY <2>1, <2>2
  <2>4. /\ Cardinality(Upto(i)) <= Cardinality(Upto(j))
        /\ Cardinality(Upto(j)) = Cardinality(Upto(i)) => Upto(j) = Upto(i)
    BY <1>2, <2>3, FS_Subset
  <2>5. Cardinality(Upto(i)) \in Nat /\ Cardinality(Upto(j)) \in Nat
    BY <1>2, <1>1
  <2> HIDE DEF Upto
  <2> QED
    BY <2>3, <2>4, <2>5
<1>4. R \in [S -> 1 .. c] /\ \A i \in S : R[i] = Cardinality(Upto(i))
  BY <1>2
<1>5. r = [k \in 1 .. c |-> CHOOSE i \in S : Cardinality(Upto(i)) = k]
  BY DEF InOrder
<1> HIDE DEF c, R, Upto, r
<1>6. \A i, j \in S : R[i] = R[j] => i = j
  <2> SUFFICES ASSUME NEW i \in S, NEW j \in S, R[i] = R[j], i # j
               PROVE  FALSE
    OBVIOUS
  <2>1. <<i, j>> \in less \/ <<j, i>> \in less
    BY DEF Orders
  <2>2. Cardinality(Upto(i)) < Cardinality(Upto(j)) \/ Cardinality(Upto(j)) < Cardinality(Upto(i))
    BY <1>3, <2>1
  <2> QED
    BY <1>1, <1>4, <2>2
<1>7. \A k \in 1 .. c : \E i \in S : R[i] = k
  <2>1. IsFiniteSet(1 .. c) /\ Cardinality(1 .. c) = c
    BY <1>1, FS_Interval
  <2>2. R \in Injection(S, 1 .. c)
    BY <1>4, <1>6 DEF Injection, IsInjective
  <2>3. R \in Surjection(S, 1 .. c)
    BY <2>1, <2>2, FS_Injection, Zenon DEF c
  <2> QED
    BY <2>3 DEF Surjection
<1>8. \A k \in 1 .. c : r[k] \in S /\ R[r[k]] = k
  <2> SUFFICES ASSUME NEW k \in 1 .. c
               PROVE  r[k] \in S /\ R[r[k]] = k
    OBVIOUS
  <2>1. \E i \in S : Cardinality(Upto(i)) = k
    BY <1>4, <1>7
  <2>2. r[k] = CHOOSE i \in S : Cardinality(Upto(i)) = k
    BY <1>5
  <2>3. r[k] \in S /\ Cardinality(Upto(r[k])) = k
    BY <2>1, <2>2, Zenon
  <2> QED
    BY <1>4, <2>3
<1>9. r \in [1 .. c -> S]
  BY <1>5, <1>8
<1>10. ASSUME NEW k \in 1 .. c, NEW m \in 1 .. c, k < m
       PROVE  <<r[k], r[m]>> \in less
  <2>1. r[k] \in S /\ r[m] \in S /\ R[r[k]] = k /\ R[r[m]] = m
    BY <1>8
  <2>2. <<r[m], r[k]>> \in less => R[r[m]] < R[r[k]]
    BY <1>3, <1>4, <2>1
  <2>3. r[k] # r[m] /\ ~(m < k)
    BY <1>1, <1>10, <2>1
  <2> QED
    BY <2>1, <2>2, <2>3 DEF Orders
<1>11. ASSUME NEW i \in S PROVE \E k \in 1 .. c : r[k] = i
  <2>1. R[i] \in 1 .. c
    BY <1>4
  <2>2. r[R[i]] \in S /\ R[r[R[i]]] = R[i]
    BY <1>8, <2>1
  <2> QED
    BY <1>6, <2>1, <2>2
<1>12. \A k \in 1 .. c : Cardinality(Upto(r[k])) = k
  BY <1>4, <1>8
<1> QED
  BY <1>1, <1>9, <1>10, <1>11, <1>12 DEF c, r, Upto

\* r has the elements of seq that are in S, in their order: h says which place
\* each of them had.
Embeds(h, r, seq, S) ==
  /\ h \in [1 .. Len(r) -> 1 .. Len(seq)]
  /\ \A k \in 1 .. Len(r) : r[k] = seq[h[k]]
  /\ \A k, m \in 1 .. Len(r) : k < m => h[k] < h[m]
  /\ \A i \in 1 .. Len(seq) : seq[i] \in S => \E k \in 1 .. Len(r) : h[k] = i

\* Among gives these.
LEMMA AmongFacts ==
  ASSUME NEW X, NEW seq \in Seq(X), NEW S
  PROVE  /\ Among(seq, S) \in Seq(X \cap S) /\ Len(Among(seq, S)) <= Len(seq)
         /\ \E h : Embeds(h, Among(seq, S), seq, S)
<1> DEFINE n == Len(seq)
           K == {i \in DOMAIN seq : seq[i] \in S}
           less == {x \in K \X K : x[1] < x[2]}
           c == Cardinality(K)
           h == InOrder(K, less)
           r == Among(seq, S)
<1>1. n \in Nat /\ DOMAIN seq = 1 .. n /\ K \in SUBSET (1 .. n) /\ \A i \in 1 .. n : seq[i] \in X
  OBVIOUS
<1>2. IsFiniteSet(K) /\ c \in 0 .. n
  <2>1. IsFiniteSet(1 .. n) /\ Cardinality(1 .. n) = n
    BY <1>1, FS_Interval
  <2>2. IsFiniteSet(K) /\ c <= n
    BY <1>1, <2>1, FS_Subset
  <2> QED
    BY <1>1, <2>2, FS_CardinalityType
<1>3. \A i, j \in K : <<i, j>> \in less <=> i < j
  <2> HIDE DEF K
  <2> QED OBVIOUS
<1>4. \A i \in K : i \in 1 .. n /\ i \in Int
  BY <1>1
<1>5. r = [k \in DOMAIN h |-> seq[h[k]]]
  BY DEF Among
<1>6. \A i \in 1 .. n : seq[i] \in S => i \in K
  BY <1>1
<1>7. \A i \in K : seq[i] \in X \cap S
  BY <1>1
<1> HIDE DEF K, less, n, r
<1>8. Orders(less, K)
  BY <1>3, <1>4 DEF Orders
<1>9. /\ h \in [1 .. c -> K]
      /\ \A k, m \in 1 .. c : k < m => <<h[k], h[m]>> \in less
      /\ \A i \in K : \E k \in 1 .. c : h[k] = i
  BY <1>2, <1>8, InOrderFacts
<1> HIDE DEF h, c
<1>10. r \in [1 .. c -> X \cap S] /\ c \in Nat /\ \A k \in 1 .. c : r[k] = seq[h[k]]
  <2>1. DOMAIN h = 1 .. c /\ \A k \in 1 .. c : h[k] \in K
    BY <1>9
  <2>2. r = [k \in 1 .. c |-> seq[h[k]]]
    BY <1>5, <2>1
  <2>3. c \in Nat
    BY <1>1, <1>2
  <2>4. \A k \in 1 .. c : r[k] = seq[h[k]] /\ r[k] \in X \cap S
    BY <1>7, <2>1, <2>2
  <2> QED
    BY <2>2, <2>3, <2>4
<1>11. r \in Seq(X \cap S) /\ Len(r) = c
  BY <1>10
<1>12. \A k, m \in 1 .. c : k < m => h[k] < h[m]
  BY <1>3, <1>9
<1>13. h \in [1 .. c -> 1 .. n]
  BY <1>4, <1>9
<1>14. Embeds(h, r, seq, S)
  BY <1>6, <1>9, <1>10, <1>11, <1>12, <1>13 DEF Embeds, n
<1> QED
  BY <1>1, <1>2, <1>11, <1>14 DEF r, n

\* What is in the list and in the set is what is left; and of a list without
\* repetitions a list without repetitions.
LEMMA AmongElements ==
  ASSUME NEW X, NEW seq \in Seq(X), NEW S
  PROVE  /\ ToSet(Among(seq, S)) = ToSet(seq) \cap S
         /\ IsInjective(seq) => IsInjective(Among(seq, S))
<1> DEFINE r == Among(seq, S)
<1>1. /\ r \in Seq(X \cap S) /\ Len(r) <= Len(seq)
      /\ \E h : Embeds(h, r, seq, S)
  BY AmongFacts
<1> HIDE DEF r
<1>2. PICK h : Embeds(h, r, seq, S)
  BY <1>1
<1>3. DOMAIN r = 1 .. Len(r) /\ DOMAIN seq = 1 .. Len(seq) /\ \A k \in 1 .. Len(r) : r[k] \in S
  BY <1>1
<1>4. \A x \in ToSet(r) : x \in ToSet(seq) \cap S
  BY <1>2, <1>3 DEF ToSet, Embeds
<1>5. \A x \in ToSet(seq) \cap S : x \in ToSet(r)
  BY <1>2, <1>3 DEF ToSet, Embeds
<1>6. ASSUME IsInjective(seq), NEW k \in DOMAIN r, NEW m \in DOMAIN r, r[k] = r[m], k # m
      PROVE  FALSE
  <2>1. k \in Int /\ m \in Int /\ h[k] \in 1 .. Len(seq) /\ h[m] \in 1 .. Len(seq)
    BY <1>2, <1>3, <1>6 DEF Embeds
  <2>2. h[k] # h[m]
    <3>1. k < m \/ m < k
      BY <1>6, <2>1
    <3>2. h[k] < h[m] \/ h[m] < h[k]
      BY <1>2, <1>3, <3>1 DEF Embeds
    <3> QED BY <2>1, <3>2
  <2>3. seq[h[k]] = seq[h[m]]
    BY <1>2, <1>3, <1>6 DEF Embeds
  <2> QED BY <1>3, <1>6, <2>1, <2>2, <2>3 DEF IsInjective
<1>7. IsInjective(seq) => IsInjective(r)
  BY <1>6 DEF IsInjective
<1> QED BY <1>4, <1>5, <1>7 DEF r

\* The places of the elements that are in the set; and h goes through such places,
\* each in its turn, and r has what is there.
PlacesOf(seq, n, S) == {i \in 1 .. n : seq[i] \in S}
Visits(h, K, r, seq) ==
  /\ h \in [1 .. Cardinality(K) -> K]
  /\ \A k \in 1 .. Cardinality(K) : Cardinality({j \in K : j <= h[k]}) = k
  /\ \A i \in K : \E k \in 1 .. Cardinality(K) : h[k] = i
  /\ r = [k \in 1 .. Cardinality(K) |-> seq[h[k]]]

LEMMA AmongPlaces ==
  ASSUME NEW seq, NEW n \in Nat, DOMAIN seq = 1 .. n, NEW S
  PROVE  /\ IsFiniteSet(PlacesOf(seq, n, S)) /\ Cardinality(PlacesOf(seq, n, S)) \in Nat
         /\ \E h : Visits(h, PlacesOf(seq, n, S), Among(seq, S), seq)
<1> DEFINE K == {i \in 1 .. n : seq[i] \in S}
           less == {x \in K \X K : x[1] < x[2]}
           c == Cardinality(K)
           h == InOrder(K, less)
<1>1. IsFiniteSet(K) /\ c \in Nat
  <2>1. IsFiniteSet(1 .. n) /\ K \in SUBSET (1 .. n)
    BY FS_Interval
  <2> QED BY <2>1, FS_Subset, FS_CardinalityType
<1>2. \A i, j \in K : <<i, j>> \in less <=> i < j
  <2> HIDE DEF K
  <2> QED OBVIOUS
<1>3. \A i \in K : i \in Int
  OBVIOUS
<1>4. Among(seq, S) = [k \in DOMAIN h |-> seq[h[k]]]
  BY DEF Among
<1> HIDE DEF K, less
<1>5. Orders(less, K)
  BY <1>2, <1>3 DEF Orders
<1>6. /\ h \in [1 .. c -> K]
      /\ \A i \in K : \E k \in 1 .. c : h[k] = i
      /\ \A k \in 1 .. c : Cardinality({j \in K : j = h[k] \/ <<j, h[k]>> \in less}) = k
  BY <1>1, <1>5, InOrderFacts
<1> HIDE DEF h
<1>7. ASSUME NEW k \in 1 .. c PROVE Cardinality({j \in K : j <= h[k]}) = k
  <2>1. h[k] \in K
    BY <1>6
  <2>2. {j \in K : j <= h[k]} = {j \in K : j = h[k] \/ <<j, h[k]>> \in less}
    BY <1>2, <1>3, <2>1
  <2> QED BY <1>6, <2>2
<1>8. Among(seq, S) = [k \in 1 .. c |-> seq[h[k]]]
  BY <1>4, <1>6
<1>9. Visits(h, K, Among(seq, S), seq)
  BY <1>6, <1>7, <1>8 DEF Visits
<1>10. K = PlacesOf(seq, n, S)
  BY DEF K, PlacesOf
<1> QED BY <1>1, <1>9, <1>10

\* What is in the set at the beginning of a list comes first in what is left of
\* the whole list.
LEMMA AmongBegins ==
  ASSUME NEW X, NEW short \in Seq(X), NEW long \in Seq(X), NEW S, NEW R,
         Len(short) <= Len(long),
         \A i \in 1 .. Len(short) : short[i] = long[i] /\ (short[i] \in S <=> long[i] \in R)
  PROVE  /\ Len(Among(short, S)) <= Len(Among(long, R))
         /\ \A k \in 1 .. Len(Among(short, S)) : Among(short, S)[k] = Among(long, R)[k]
<1> DEFINE m == Len(short)
           n == Len(long)
           J == PlacesOf(short, m, S)
           K == PlacesOf(long, n, R)
           b == Cardinality(J)
           c == Cardinality(K)
           s == Among(short, S)
           t == Among(long, R)
<1>1. /\ m \in Nat /\ n \in Nat /\ DOMAIN short = 1 .. m /\ DOMAIN long = 1 .. n
  OBVIOUS
<1>2. IsFiniteSet(J) /\ b \in Nat /\ \E g : Visits(g, J, s, short)
  BY <1>1, AmongPlaces
<1>3. IsFiniteSet(K) /\ c \in Nat /\ \E h : Visits(h, K, t, long)
  BY <1>1, AmongPlaces
<1>4. \A i \in 1 .. m : i \in 1 .. n /\ (i \in J <=> i \in K) /\ short[i] = long[i]
  BY <1>1 DEF PlacesOf
<1>5. J \in SUBSET (1 .. m) /\ K \in SUBSET (1 .. n)
  BY DEF PlacesOf
<1> HIDE DEF J, K
<1>6. J \in SUBSET K
  BY <1>4, <1>5
<1>7. b <= c
  BY <1>3, <1>6, FS_Subset
<1> HIDE DEF s, t, m, n
<1>8. PICK g \in [1 .. b -> J] :
           /\ \A k \in 1 .. b : Cardinality({j \in J : j <= g[k]}) = k
           /\ s = [k \in 1 .. b |-> short[g[k]]]
  BY <1>2 DEF Visits
<1>9. PICK h \in [1 .. c -> K] :
           /\ \A k \in 1 .. c : Cardinality({j \in K : j <= h[k]}) = k
           /\ \A i \in K : \E k \in 1 .. c : h[k] = i
           /\ t = [k \in 1 .. c |-> long[h[k]]]
  BY <1>3 DEF Visits
<1> HIDE DEF b, c
<1>10. ASSUME NEW k \in 1 .. b PROVE g[k] = h[k] /\ k \in 1 .. c
  <2>1. g[k] \in J /\ g[k] \in 1 .. m /\ g[k] \in K
    BY <1>5, <1>6
  <2>2. PICK l \in 1 .. c : h[l] = g[k]
    BY <1>9, <2>1
  <2>3. {j \in J : j <= g[k]} = {j \in K : j <= g[k]}
    <3>1. \A j \in K : j <= g[k] => j \in 1 .. m
      BY <1>1, <1>5, <2>1
    <3> QED BY <1>4, <1>6, <3>1
  <2>4. l = k
    BY <1>8, <1>9, <2>2, <2>3
  <2> QED BY <2>2, <2>4
<1>11. s \in [1 .. b -> X] /\ t \in [1 .. c -> X] /\ \A k \in 1 .. b : s[k] = t[k]
  <2>1. \A k \in 1 .. b : s[k] = short[g[k]] /\ g[k] \in 1 .. m
    BY <1>5, <1>8
  <2>2. \A k \in 1 .. c : t[k] = long[h[k]] /\ h[k] \in 1 .. n
    BY <1>5, <1>9
  <2>3. \A k \in 1 .. b : s[k] = t[k]
    BY <1>4, <1>10, <2>1, <2>2
  <2>4. (\A i \in 1 .. m : short[i] \in X) /\ \A i \in 1 .. n : long[i] \in X
    BY <1>1
  <2> QED BY <1>8, <1>9, <2>1, <2>2, <2>3, <2>4
<1>12. Len(s) = b /\ Len(t) = c
  BY <1>2, <1>3, <1>11
<1> QED BY <1>7, <1>11, <1>12 DEF s, t

-----------------------------------------------------------------------------
(***************************************************************************)
(* Induction over the natural numbers, with the set of the numbers that    *)
(* have a property for the property; and what FlattenSeq gives, from the   *)
(* lists that it goes through.                                             *)
(***************************************************************************)
LEMMA Least ==
  ASSUME NEW T, T \subseteq Nat, T # {}
  PROVE  \E x \in T : \A y \in T : x <= y
<1> DEFINE R == {ss \in Nat \X Nat : ss[1] < ss[2]}
<1>1. IsWellFoundedOn(R, Nat)
  BY NatLessThanWellFounded DEF OpToRel
<1>2. PICK x \in T : \A y \in T : ~ (<<y, x>> \in R)
  BY <1>1, WFMin
<1>3. \A y \in T : x <= y
  <2> TAKE y \in T
  <2>1. x \in Nat /\ y \in Nat
    OBVIOUS
  <2>2. ~ (<<y, x>> \in R)
    BY <1>2
  <2>3. ~ (y < x)
    BY <2>1, <2>2
  <2> QED
    BY <2>1, <2>3
<1> QED
  BY <1>3

LEMMA Induct ==
  ASSUME NEW n \in Nat, NEW S, 0 \in S, \A k \in 0 .. n - 1 : k \in S => k + 1 \in S
  PROVE  0 .. n \subseteq S
<1> SUFFICES ASSUME (0 .. n) \ S # {} PROVE FALSE
  OBVIOUS
<1> DEFINE T == (0 .. n) \ S
<1>1. PICK x \in T : \A y \in T : x <= y
  <2>1. T \subseteq Nat /\ T # {}
    OBVIOUS
  <2> HIDE DEF T
  <2> QED
    BY <2>1, Least
<1>2. x - 1 \in 0 .. n - 1 /\ x - 1 \notin (0 .. n) \ S
  BY <1>1
<1> QED
  BY <1>1, <1>2

\* t: the lists that FlattenSeq goes through.
Partials(t, seqs, D) ==
  /\ t \in [0 .. Len(seqs) -> Seq(D)] /\ t[0] = <<>>
  /\ \A i \in 1 .. Len(seqs) : t[i] = t[i - 1] \o seqs[i]

LEMMA PartialsStep ==
  ASSUME NEW D, NEW seqs \in Seq(Seq(D)), NEW t, Partials(t, seqs, D), NEW k \in 0 .. Len(seqs) - 1
  PROVE  /\ k + 1 \in 1 .. Len(seqs) /\ t[k + 1] = t[k] \o seqs[k + 1]
         /\ t[k] \in Seq(D) /\ seqs[k + 1] \in Seq(D) /\ t[k + 1] \in Seq(D)
<1>1. k + 1 \in 1 .. Len(seqs) /\ k \in 0 .. Len(seqs) /\ k + 1 \in 0 .. Len(seqs) /\ (k + 1) - 1 = k
  BY Len(seqs) \in Nat
<1>2. t[k + 1] = t[(k + 1) - 1] \o seqs[k + 1]
  BY <1>1 DEF Partials
<1>3. t[k] \in Seq(D) /\ t[k + 1] \in Seq(D)
  BY <1>1 DEF Partials
<1>4. seqs[k + 1] \in Seq(D)
  BY <1>1
<1> QED
  BY <1>1, <1>2, <1>3, <1>4

LEMMA PartialsExist ==
  ASSUME NEW D, NEW seqs \in Seq(Seq(D))
  PROVE  \E t : Partials(t, seqs, D)
<1> DEFINE n == Len(seqs)
           Upto(k, t) == /\ t \in [0 .. k -> Seq(D)] /\ t[0] = <<>>
                         /\ \A i \in 1 .. k : t[i] = t[i - 1] \o seqs[i]
           S == {k \in Nat : \E t : Upto(k, t)}
<1>1. n \in Nat
  OBVIOUS
<1>2. 0 \in S
  <2>1. Upto(0, [i \in 0 .. 0 |-> <<>>])
    OBVIOUS
  <2> QED
    BY <2>1
<1>3. ASSUME NEW k \in 0 .. n - 1, k \in S PROVE k + 1 \in S
  <2>1. PICK t : Upto(k, t)
    BY <1>3
  <2> DEFINE u == [i \in 0 .. k + 1 |-> IF i = k + 1 THEN t[k] \o seqs[k + 1] ELSE t[i]]
  <2>2. seqs[k + 1] \in Seq(D) /\ t[k] \in Seq(D) /\ k \in Nat
    BY <1>1, <2>1
  <2>3. u \in [0 .. k + 1 -> Seq(D)] /\ u[0] = <<>>
    BY <2>1, <2>2
  <2>4. ASSUME NEW i \in 1 .. k + 1 PROVE u[i] = u[i - 1] \o seqs[i]
    <3>1. CASE i = k + 1
      <4>1. i - 1 = k /\ k \in 0 .. k + 1 /\ k # k + 1
        BY <2>2, <3>1
      <4>2. u[k] = t[k]
        BY <4>1
      <4>3. k + 1 \in 0 .. k + 1
        BY <2>2
      <4>4. u[k + 1] = t[k] \o seqs[k + 1]
        BY <4>3
      <4> QED
        BY <3>1, <4>1, <4>2, <4>4
    <3>2. CASE i # k + 1
      <4>1. /\ i \in 1 .. k /\ i - 1 \in 0 .. k + 1 /\ i - 1 # k + 1 /\ i \in 0 .. k + 1
        BY <2>2, <3>2
      <4>2. u[i] = t[i] /\ u[i - 1] = t[i - 1]
        BY <3>2, <4>1
      <4>3. t[i] = t[i - 1] \o seqs[i]
        BY <2>1, <4>1
      <4> QED
        BY <4>2, <4>3
    <3> QED BY <3>1, <3>2
  <2> HIDE DEF u
  <2>5. Upto(k + 1, u)
    BY <2>3, <2>4
  <2> HIDE DEF Upto
  <2> QED
    BY <2>2, <2>5
<1> HIDE DEF S
<1>4. n \in S
  <2>1. 0 .. n \subseteq S
    BY <1>1, <1>2, <1>3, Induct
  <2> QED
    BY <1>1, <2>1
<1>5. \E t : Upto(n, t)
  BY <1>4 DEF S
<1> QED
  BY <1>5 DEF Partials

LEMMA FlattenIs ==
  ASSUME NEW D, NEW seqs \in Seq(Seq(D)), NEW t, Partials(t, seqs, D)
  PROVE  FlattenSeq(seqs) = t[Len(seqs)]
<1> DEFINE n == Len(seqs)
<1>1. n \in Nat
  OBVIOUS
<1>2. CASE n = 0
  BY <1>2 DEF FlattenSeq, Partials
<1>3. CASE n # 0
  <2> DEFINE Next(f) == [i \in 1 .. n |-> IF i = 1 THEN seqs[i] ELSE f[i - 1] \o seqs[i]]
             f0 == [i \in 1 .. n |-> t[i]]
             f  == CHOOSE g : g = Next(g)
             S  == {k \in Nat : k = 0 \/ f[k] = t[k]}
  <2>1. FlattenSeq(seqs) = f[n]
    BY <1>3 DEF FlattenSeq
  <2>2. f0 = Next(f0)
    <3>1. ASSUME NEW i \in 1 .. n PROVE t[i] = IF i = 1 THEN seqs[i] ELSE f0[i - 1] \o seqs[i]
      <4>1. t[i] = t[i - 1] \o seqs[i]
        BY DEF Partials
      <4>2. CASE i = 1
        <5>1. t[0] = <<>> /\ seqs[1] \in Seq(D) /\ i - 1 = 0
          BY <4>2 DEF Partials
        <5>2. t[i] = <<>> \o seqs[1]
          BY <4>1, <4>2, <5>1
        <5> QED
          BY <4>2, <5>1, <5>2
      <4>3. CASE i # 1
        <5>1. f0[i - 1] = t[i - 1]
          BY <1>1, <4>3
        <5> QED
          BY <4>1, <4>3, <5>1
      <4> QED BY <4>2, <4>3
    <3> QED BY <3>1
  <2>3. f = Next(f)
    <3> HIDE DEF Next, f0
    <3> QED BY <2>2
  <2> HIDE DEF f
  <2>4. ASSUME NEW i \in 1 .. n PROVE f[i] = IF i = 1 THEN seqs[i] ELSE f[i - 1] \o seqs[i]
    BY <2>3
  <2> HIDE DEF Next
  <2>5. ASSUME NEW k \in 0 .. n - 1, k \in S PROVE k + 1 \in S
    <3>1. k + 1 \in 1 .. n /\ k \in Nat /\ (k + 1) - 1 = k
      BY <1>1
    <3>2. t[k + 1] = t[k] \o seqs[k + 1]
      BY PartialsStep
    <3>3. CASE k = 0
      <4>1. t[0] = <<>> /\ seqs[1] \in Seq(D)
        BY <3>1, <3>3 DEF Partials
      <4> QED
        BY <2>4, <3>1, <3>2, <3>3, <4>1
    <3>4. CASE k # 0
      <4>1. f[k] = t[k]
        BY <2>5, <3>4
      <4>2. f[k + 1] = f[(k + 1) - 1] \o seqs[k + 1]
        <5>1. k + 1 # 1
          BY <3>1, <3>4
        <5> QED
          BY <2>4, <3>1, <5>1
      <4>3. f[k + 1] = t[k + 1]
        BY <3>1, <3>2, <4>1, <4>2
      <4> QED
        BY <3>1, <4>3
    <3> QED BY <3>3, <3>4
  <2>6. 0 \in S
    OBVIOUS
  <2>7. n \in S
    <3> HIDE DEF S
    <3>1. 0 .. n \subseteq S
      BY <1>1, <2>5, <2>6, Induct
    <3> QED
      BY <1>1, <3>1
  <2> QED
    BY <1>3, <2>1, <2>7
<1> QED
  BY <1>2, <1>3

LEMMA JoinElements ==
  ASSUME NEW D, NEW a \in Seq(D), NEW b \in Seq(D)
  PROVE  ToSet(a \o b) = ToSet(a) \cup ToSet(b)
<1>1. /\ Len(a) \in Nat /\ Len(b) \in Nat /\ DOMAIN (a \o b) = 1 .. Len(a) + Len(b)
      /\ DOMAIN a = 1 .. Len(a) /\ DOMAIN b = 1 .. Len(b)
      /\ \A i \in 1 .. Len(a) : (a \o b)[i] = a[i]
      /\ \A i \in 1 .. Len(b) : (a \o b)[Len(a) + i] = b[i]
  OBVIOUS
<1>2. ASSUME NEW x \in ToSet(a) PROVE x \in ToSet(a \o b)
  <2>1. PICK i \in 1 .. Len(a) : x = a[i]
    BY <1>1 DEF ToSet
  <2>2. i \in 1 .. Len(a) + Len(b)
    BY <1>1
  <2> QED
    BY <1>1, <2>1, <2>2 DEF ToSet
<1>3. ASSUME NEW x \in ToSet(b) PROVE x \in ToSet(a \o b)
  <2>1. PICK i \in 1 .. Len(b) : x = b[i]
    BY <1>1 DEF ToSet
  <2>2. Len(a) + i \in 1 .. Len(a) + Len(b)
    BY <1>1
  <2> QED
    BY <1>1, <2>1, <2>2 DEF ToSet
<1>4. ASSUME NEW x \in ToSet(a \o b) PROVE x \in ToSet(a) \cup ToSet(b)
  <2>1. PICK i \in 1 .. Len(a) + Len(b) : x = (a \o b)[i]
    BY <1>1 DEF ToSet
  <2>2. CASE i \in 1 .. Len(a)
    BY <1>1, <2>1, <2>2 DEF ToSet
  <2>3. CASE i \notin 1 .. Len(a)
    <3>1. i - Len(a) \in 1 .. Len(b) /\ Len(a) + (i - Len(a)) = i
      BY <1>1, <2>3
    <3>2. x = b[i - Len(a)]
      BY <1>1, <2>1, <3>1
    <3> QED
      BY <1>1, <3>1, <3>2 DEF ToSet
  <2> QED BY <2>2, <2>3
<1> QED
  BY <1>2, <1>3, <1>4

LEMMA FlattenElements ==
  ASSUME NEW D, NEW seqs \in Seq(Seq(D))
  PROVE  /\ FlattenSeq(seqs) \in Seq(D)
         /\ \A x : x \in ToSet(FlattenSeq(seqs)) <=> \E i \in 1 .. Len(seqs) : x \in ToSet(seqs[i])
<1> DEFINE n == Len(seqs)
<1>1. n \in Nat
  OBVIOUS
<1>2. PICK t : Partials(t, seqs, D)
  BY PartialsExist
<1>3. FlattenSeq(seqs) = t[n] /\ t[n] \in Seq(D)
  <2>1. FlattenSeq(seqs) = t[n]
    BY <1>2, FlattenIs
  <2>2. n \in 0 .. n /\ t \in [0 .. n -> Seq(D)]
    BY <1>1, <1>2 DEF Partials
  <2> QED
    BY <2>1, <2>2
<1>4. ASSUME NEW x PROVE x \in ToSet(t[n]) <=> \E i \in 1 .. n : x \in ToSet(seqs[i])
  <2> DEFINE S == {k \in 0 .. n : x \in ToSet(t[k]) <=> \E i \in 1 .. k : x \in ToSet(seqs[i])}
  <2>1. 0 \in S
    BY <1>1, <1>2 DEF Partials, ToSet
  <2>2. ASSUME NEW k \in 0 .. n - 1, k \in S PROVE k + 1 \in S
    <3>1. /\ k + 1 \in 0 .. n /\ k + 1 \in 1 .. n /\ k \in 0 .. n /\ (k + 1) - 1 = k
          /\ \A i : i \in 1 .. k + 1 <=> i \in 1 .. k \/ i = k + 1
      BY <1>1
    <3>2. t[k + 1] = t[k] \o seqs[k + 1] /\ t[k] \in Seq(D) /\ seqs[k + 1] \in Seq(D)
      BY <1>2, PartialsStep
    <3>3. ToSet(t[k + 1]) = ToSet(t[k]) \cup ToSet(seqs[k + 1])
      BY <3>2, JoinElements
    <3>4. x \in ToSet(t[k]) <=> \E i \in 1 .. k : x \in ToSet(seqs[i])
      BY <2>2
    <3> QED
      BY <3>1, <3>3, <3>4
  <2> HIDE DEF S
  <2>3. 0 .. n \subseteq S
    BY <1>1, <2>1, <2>2, Induct
  <2>4. n \in S
    BY <1>1, <2>3
  <2> QED
    BY <2>4 DEF S
<1> QED
  BY <1>3, <1>4
=============================================================================
