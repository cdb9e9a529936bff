-------------------------- MODULE FilteringProofs ---------------------------
(***************************************************************************)
(* What Without computes, for every sequence: which elements are left,     *)
(* that their order is kept, and what it does to an appended element or a  *)
(* single one.  Without is a function defined by recursion; each fact is   *)
(* proved by induction over the set of the numbers at which it holds       *)
(* (Counting).  Then what concatenation and an enumeration of a set hold.  *)
(***************************************************************************)
EXTENDS Filtering, SequenceTheorems, FiniteSetTheorems, WellFoundedInduction, TLAPS

\* Induction over a set of numbers.
LEMMA Counting ==
  ASSUME NEW G, 0 \in G, \A n \in Nat : n \in G => n + 1 \in G
  PROVE  Nat \subseteq G
<1> SUFFICES ASSUME Nat \ G # {} PROVE FALSE
  OBVIOUS
<1>1. IsWellFoundedOn(OpToRel(<, Nat), Nat)
  BY NatLessThanWellFounded
<1>2. PICK n \in Nat \ G : \A m \in Nat \ G : ~(<<m, n>> \in OpToRel(<, Nat))
  <2>1. Nat \ G \subseteq Nat
    OBVIOUS
  <2> QED
    BY <1>1, <2>1, WFMin
<1>3. n # 0 /\ n - 1 \in Nat
  OBVIOUS
<1>4. <<n - 1, n>> \in OpToRel(<, Nat)
  BY <1>3 DEF OpToRel
<1>5. n - 1 \in G
  BY <1>2, <1>3, <1>4
<1> QED
  BY <1>3, <1>5

\* f[i] is what the loop of Without has kept after i elements.
Builds(f, s, X) ==
  /\ f[0] = <<>>
  /\ \A i \in 1..Len(s) : f[i] = IF s[i] \in X THEN f[i-1] ELSE Append(f[i-1], s[i])

\* Without computes what its loop says.
LEMMA WithoutLoop ==
  ASSUME NEW T, NEW s \in Seq(T), NEW X
  PROVE  \E f \in [0..Len(s) -> Seq(T)] : Builds(f, s, X) /\ Without(s, X) = f[Len(s)]
<1> DEFINE Turn(f, i) == IF i = 0 THEN <<>> ELSE IF s[i] \in X THEN f[i-1] ELSE Append(f[i-1], s[i])
           Upto(n) == \E f \in [0..n -> Seq(T)] : \A i \in 0..n : f[i] = Turn(f, i)
           G == {n \in Nat : n <= Len(s) => Upto(n)}
<1> HIDE DEF Upto
<1>1. 0 \in G
  <2>1. [i \in 0..0 |-> <<>>] \in [0..0 -> Seq(T)]
    OBVIOUS
  <2>2. \A i \in 0..0 : [j \in 0..0 |-> <<>>][i] = Turn([j \in 0..0 |-> <<>>], i)
    OBVIOUS
  <2> QED
    BY <2>1, <2>2 DEF Upto
<1>2. ASSUME NEW n \in Nat, n \in G PROVE n + 1 \in G
  <2> SUFFICES ASSUME n + 1 <= Len(s) PROVE Upto(n + 1)
    OBVIOUS
  <2>1. PICK f \in [0..n -> Seq(T)] : \A i \in 0..n : f[i] = Turn(f, i)
    BY SMTT(40), <1>2 DEF Upto
  <2> DEFINE e == IF s[n+1] \in X THEN f[n] ELSE Append(f[n], s[n+1])
             g == [i \in 0..n+1 |-> IF i = n + 1 THEN e ELSE f[i]]
  <2>2. e \in Seq(T)
    <3>1. s[n+1] \in T /\ f[n] \in Seq(T)
      OBVIOUS
    <3> QED
      BY <3>1
  <2>3. g \in [0..n+1 -> Seq(T)] /\ g[n+1] = e /\ \A i \in 0..n : g[i] = f[i]
    BY <2>2
  <2> HIDE DEF g
  <2>4. ASSUME NEW i \in 0..n+1 PROVE g[i] = Turn(g, i)
    <3>1. CASE i = n + 1
      <4>1. i # 0 /\ i - 1 = n /\ n \in 0..n
        BY <3>1
      <4> QED
        BY <2>3, <3>1, <4>1
    <3>2. CASE i \in 0..n
      <4>1. i = 0 \/ i - 1 \in 0..n
        BY <3>2
      <4> QED
        BY <2>1, <2>3, <3>2, <4>1
    <3> QED
      BY <3>1, <3>2
  <2> QED
    BY <2>3, <2>4 DEF Upto
<1>3. Len(s) \in Nat /\ Len(s) \in G
  <2> HIDE DEF G
  <2>1. Nat \subseteq G
    BY <1>1, <1>2, Counting
  <2> QED
    BY <2>1
<1>4. PICK f \in [0..Len(s) -> Seq(T)] : \A i \in 0..Len(s) : f[i] = Turn(f, i)
  BY <1>3 DEF Upto
<1> DEFINE Loop(h) == h = [i \in 0..Len(s) |-> Turn(h, i)]
           k == CHOOSE h : Loop(h)
<1>5. Loop(f)
  BY <1>4
<1>6. Loop(k)
  <2> HIDE DEF Loop
  <2> QED
    BY <1>5
<1>7. Without(s, X) = k[Len(s)]
  BY DEF Without
<1>8. k = f
  <2> HIDE DEF k
  <2> DEFINE H == {n \in Nat : n <= Len(s) => k[n] = f[n]}
  <2>1. \A i \in 0..Len(s) : k[i] = Turn(k, i)
    BY <1>6
  <2>2. 0 \in H
    BY <1>3, <1>4, <2>1
  <2>3. ASSUME NEW n \in Nat, n \in H PROVE n + 1 \in H
    <3> SUFFICES ASSUME n + 1 <= Len(s) PROVE k[n+1] = f[n+1]
      OBVIOUS
    <3>1. n + 1 \in 0..Len(s) /\ n + 1 # 0 /\ (n + 1) - 1 = n /\ k[n] = f[n]
      BY <1>3, <2>3
    <3> QED
      BY <1>4, <2>1, <3>1
  <2>4. Nat \subseteq H
    <3> HIDE DEF H
    <3> QED
      BY <2>2, <2>3, Counting
  <2>5. \A i \in 0..Len(s) : k[i] = f[i]
    BY <2>4
  <2> QED
    BY <1>4, <1>6, <2>5
<1>9. /\ f[0] = <<>> /\ Without(s, X) = f[Len(s)]
      /\ \A i \in 1..Len(s) : f[i] = IF s[i] \in X THEN f[i-1] ELSE Append(f[i-1], s[i])
  <2> HIDE DEF k
  <2>1. 0 \in 0..Len(s) /\ \A i \in 1..Len(s) : i \in 0..Len(s) /\ i # 0
    BY <1>3
  <2> QED
    BY <1>4, <1>7, <1>8, <2>1
<1> QED
  BY <1>9 DEF Builds

LEMMA AppendOK ==
  ASSUME NEW T, NEW q \in Seq(T), NEW e \in T
  PROVE  /\ ToSet(Append(q, e)) = ToSet(q) \union {e}
         /\ IsInjective(q) /\ e \notin ToSet(q) => IsInjective(Append(q, e))
<1>1. /\ DOMAIN q = 1..Len(q) /\ Len(q) \in Nat /\ DOMAIN Append(q, e) = 1..Len(q)+1
      /\ \A i \in 1..Len(q) : Append(q, e)[i] = q[i]
      /\ Append(q, e)[Len(q)+1] = e
  OBVIOUS
<1>2. \A i \in 1..Len(q)+1 : i \in 1..Len(q) \/ i = Len(q)+1
  BY <1>1
<1> QED
  BY <1>1, <1>2 DEF ToSet, IsInjective

\* A step of the loop adds one more element to what has been seen.
LEMMA Seen ==
  ASSUME NEW T, NEW s \in Seq(T), NEW n \in Nat, n + 1 <= Len(s)
  PROVE  /\ {s[j] : j \in 1..n+1} = {s[j] : j \in 1..n} \union {s[n+1]} /\ s[n+1] \in T
         /\ IsInjective(s) => s[n+1] \notin {s[j] : j \in 1..n}
<1>1. \A j \in 1..n+1 : j \in 1..n \/ j = n+1
  OBVIOUS
<1>2. 1..n \subseteq 1..n+1 /\ n+1 \in 1..n+1 /\ n+1 \notin 1..n
  OBVIOUS
<1>3. DOMAIN s = 1..Len(s) /\ 1..n+1 \subseteq 1..Len(s)
  OBVIOUS
<1>4. s[n+1] \in T
  OBVIOUS
<1> QED
  BY <1>1, <1>2, <1>3, <1>4 DEF IsInjective

\* What is left is what was there and is not taken out, each as often.
LEMMA WithoutOK ==
  ASSUME NEW T, NEW s \in Seq(T), NEW X
  PROVE  /\ Without(s, X) \in Seq(T)
         /\ ToSet(Without(s, X)) = ToSet(s) \ X
         /\ IsInjective(s) => IsInjective(Without(s, X))
<1>1. PICK f \in [0..Len(s) -> Seq(T)] : Builds(f, s, X) /\ Without(s, X) = f[Len(s)]
  BY WithoutLoop
<1> DEFINE G == {n \in Nat : n <= Len(s) =>
                   /\ ToSet(f[n]) = {s[j] : j \in 1..n} \ X
                   /\ IsInjective(s) => IsInjective(f[n])}
<1>2. 0 \in G
  BY <1>1 DEF Builds, ToSet, IsInjective
<1>3. ASSUME NEW n \in Nat, n \in G PROVE n + 1 \in G
  <2> SUFFICES ASSUME n + 1 <= Len(s)
               PROVE  /\ ToSet(f[n+1]) = {s[j] : j \in 1..n+1} \ X
                      /\ IsInjective(s) => IsInjective(f[n+1])
    OBVIOUS
  <2>1. /\ ToSet(f[n]) = {s[j] : j \in 1..n} \ X /\ f[n] \in Seq(T)
        /\ IsInjective(s) => IsInjective(f[n])
    BY <1>3
  <2>2. f[n+1] = IF s[n+1] \in X THEN f[n] ELSE Append(f[n], s[n+1])
    BY <1>1 DEF Builds
  <2> HIDE DEF G
  <2> QED
    BY <2>1, <2>2, Seen, AppendOK
<1>4. Nat \subseteq G
  <2> HIDE DEF G
  <2> QED
    BY <1>2, <1>3, Counting
<1>5. ToSet(s) = {s[j] : j \in 1..Len(s)} /\ Len(s) \in Nat
  BY DEF ToSet
<1>6. /\ ToSet(f[Len(s)]) = {s[j] : j \in 1..Len(s)} \ X /\ f[Len(s)] \in Seq(T)
      /\ IsInjective(s) => IsInjective(f[Len(s)])
  <2>1. Len(s) \in G
    <3> HIDE DEF G
    <3> QED
      BY <1>4, <1>5
  <2>2. f[Len(s)] \in Seq(T)
    BY <1>5
  <2> QED
    BY <1>5, <2>1, <2>2
<1> QED
  BY <1>1, <1>5, <1>6

\* Only those elements of X matter that are there.
LEMMA WithoutSame ==
  ASSUME NEW T, NEW s \in Seq(T), NEW X, NEW Y, ToSet(s) \cap X = ToSet(s) \cap Y
  PROVE  Without(s, X) = Without(s, Y)
<1>1. PICK f \in [0..Len(s) -> Seq(T)] : Builds(f, s, X) /\ Without(s, X) = f[Len(s)]
  BY WithoutLoop
<1>2. PICK g \in [0..Len(s) -> Seq(T)] : Builds(g, s, Y) /\ Without(s, Y) = g[Len(s)]
  BY WithoutLoop
<1> DEFINE G == {n \in Nat : n <= Len(s) => f[n] = g[n]}
<1>3. 0 \in G
  BY <1>1, <1>2 DEF Builds
<1>4. ASSUME NEW n \in Nat, n \in G PROVE n + 1 \in G
  <2> SUFFICES ASSUME n + 1 <= Len(s) PROVE f[n+1] = g[n+1]
    OBVIOUS
  <2>1. n + 1 \in 1..Len(s) /\ (n + 1) - 1 = n /\ f[n] = g[n]
    BY <1>4
  <2>2. s[n+1] \in X <=> s[n+1] \in Y
    BY <2>1 DEF ToSet
  <2> HIDE DEF G
  <2> QED
    BY <1>1, <1>2, <2>1, <2>2 DEF Builds
<1>5. Nat \subseteq G
  <2> HIDE DEF G
  <2> QED
    BY <1>3, <1>4, Counting
<1> QED
  BY <1>1, <1>2, <1>5

LEMMA WithoutNone ==
  ASSUME NEW T, NEW s \in Seq(T), NEW X, ToSet(s) \cap X = {}
  PROVE  Without(s, X) = s
<1>1. PICK f \in [0..Len(s) -> Seq(T)] : Builds(f, s, X) /\ Without(s, X) = f[Len(s)]
  BY WithoutLoop
<1> DEFINE G == {n \in Nat : n <= Len(s) => Len(f[n]) = n /\ \A j \in 1..n : f[n][j] = s[j]}
<1>2. 0 \in G
  BY <1>1 DEF Builds
<1>3. ASSUME NEW n \in Nat, n \in G PROVE n + 1 \in G
  <2> SUFFICES ASSUME n + 1 <= Len(s)
               PROVE  Len(f[n+1]) = n + 1 /\ \A j \in 1..n+1 : f[n+1][j] = s[j]
    OBVIOUS
  <2>1. /\ n + 1 \in 1..Len(s) /\ (n + 1) - 1 = n /\ Len(f[n]) = n /\ f[n] \in Seq(T)
        /\ \A j \in 1..n : f[n][j] = s[j]
    BY <1>3
  <2>2. s[n+1] \notin X /\ s[n+1] \in T
    BY <2>1 DEF ToSet
  <2>3. f[n+1] = Append(f[n], s[n+1])
    BY <1>1, <2>1, <2>2 DEF Builds
  <2>4. /\ Len(f[n+1]) = n + 1 /\ f[n+1][n+1] = s[n+1]
        /\ \A j \in 1..n : f[n+1][j] = f[n][j]
    BY <2>1, <2>2, <2>3
  <2> HIDE DEF G
  <2> QED
    BY <2>1, <2>4
<1>4. Nat \subseteq G
  <2> HIDE DEF G
  <2> QED
    BY <1>2, <1>3, Counting
<1>5. /\ Len(s) \in Nat /\ f[Len(s)] \in Seq(T) /\ Len(f[Len(s)]) = Len(s)
      /\ \A j \in 1..Len(s) : f[Len(s)][j] = s[j]
  BY <1>4
<1> QED
  BY <1>1, <1>5

LEMMA WithoutAppend ==
  ASSUME NEW T, NEW s \in Seq(T), NEW e \in T, NEW X
  PROVE  Without(Append(s, e), X) = IF e \in X THEN Without(s, X) ELSE Append(Without(s, X), e)
<1> DEFINE t == Append(s, e)
<1>0. /\ t \in Seq(T) /\ Len(t) = Len(s) + 1 /\ Len(s) \in Nat /\ t[Len(s)+1] = e
      /\ \A i \in 1..Len(s) : t[i] = s[i]
  OBVIOUS
<1> HIDE DEF t
<1>1. PICK f \in [0..Len(s) -> Seq(T)] : Builds(f, s, X) /\ Without(s, X) = f[Len(s)]
  BY WithoutLoop
<1>2. PICK g \in [0..Len(t) -> Seq(T)] : Builds(g, t, X) /\ Without(t, X) = g[Len(t)]
  BY <1>0, WithoutLoop
<1> DEFINE G == {n \in Nat : n <= Len(s) => f[n] = g[n]}
<1>3. 0 \in G
  BY <1>1, <1>2 DEF Builds
<1>4. ASSUME NEW n \in Nat, n \in G PROVE n + 1 \in G
  <2> SUFFICES ASSUME n + 1 <= Len(s) PROVE f[n+1] = g[n+1]
    OBVIOUS
  <2>1. /\ n + 1 \in 1..Len(s) /\ n + 1 \in 1..Len(t) /\ (n + 1) - 1 = n /\ f[n] = g[n]
        /\ s[n+1] = t[n+1]
    BY <1>0, <1>4
  <2> HIDE DEF G
  <2> QED
    BY <1>1, <1>2, <2>1 DEF Builds
<1>5. Nat \subseteq G
  <2> HIDE DEF G
  <2> QED
    BY <1>3, <1>4, Counting
<1>6. g[Len(s)] = f[Len(s)] /\ Len(t) \in 1..Len(t) /\ Len(t) - 1 = Len(s)
  BY <1>0, <1>5
<1>7. Without(t, X) = IF e \in X THEN Without(s, X) ELSE Append(Without(s, X), e)
  BY <1>0, <1>1, <1>2, <1>6 DEF Builds
<1> QED
  BY <1>7 DEF t

\* Where no element repeats, taking one out by its place or by its value is the same.
LEMMA WithoutAt ==
  ASSUME NEW T, NEW s \in Seq(T), IsInjective(s), NEW i \in 1..Len(s)
  PROVE  RemoveAt(s, i) = Without(s, {s[i]})
<1>1. PICK f \in [0..Len(s) -> Seq(T)] :
        Builds(f, s, {s[i]}) /\ Without(s, {s[i]}) = f[Len(s)]
  BY WithoutLoop
<1> DEFINE Size(n) == IF n < i THEN n ELSE n - 1
           Elem(j) == IF j < i THEN s[j] ELSE s[j+1]
           G == {n \in Nat : n <= Len(s) =>
                   Len(f[n]) = Size(n) /\ \A j \in 1..Size(n) : f[n][j] = Elem(j)}
<1>2. 0 \in G
  BY <1>1 DEF Builds
<1>3. ASSUME NEW n \in Nat, n \in G PROVE n + 1 \in G
  <2> SUFFICES ASSUME n + 1 <= Len(s)
               PROVE  Len(f[n+1]) = Size(n+1) /\ \A j \in 1..Size(n+1) : f[n+1][j] = Elem(j)
    OBVIOUS
  <2>1. /\ n + 1 \in 1..Len(s) /\ (n + 1) - 1 = n /\ f[n] \in Seq(T) /\ s[n+1] \in T
        /\ Len(f[n]) = Size(n) /\ \A j \in 1..Size(n) : f[n][j] = Elem(j)
    <3>1. n + 1 \in 1..Len(s) /\ (n + 1) - 1 = n /\ n <= Len(s) /\ n \in 0..Len(s)
      OBVIOUS
    <3>2. f[n] \in Seq(T) /\ s[n+1] \in T
      BY <3>1
    <3> HIDE DEF Size, Elem
    <3> QED
      BY <1>3, <3>1, <3>2
  <2>2. s[n+1] = s[i] <=> n + 1 = i
    BY <2>1 DEF IsInjective
  <2>3. f[n+1] = IF n + 1 = i THEN f[n] ELSE Append(f[n], s[n+1])
    BY <1>1, <2>1, <2>2 DEF Builds
  <2> HIDE DEF G
  <2>4. CASE n + 1 = i
    BY <2>1, <2>3, <2>4
  <2>5. CASE n + 1 # i
    <3>1. Size(n+1) = Size(n) + 1 /\ Size(n) \in Nat /\ Elem(Size(n+1)) = s[n+1]
      BY <2>5
    <3>2. /\ Len(f[n+1]) = Len(f[n]) + 1 /\ f[n+1][Len(f[n]) + 1] = s[n+1]
          /\ \A j \in 1..Len(f[n]) : f[n+1][j] = f[n][j]
      BY <2>1, <2>3, <2>5
    <3> HIDE DEF Size, Elem
    <3> QED
      BY SMTT(40), <2>1, <3>1, <3>2
  <2> QED
    BY <2>4, <2>5
<1>4. Nat \subseteq G
  <2> HIDE DEF G
  <2> QED
    BY <1>2, <1>3, Counting
<1>5. /\ Len(s) \in Nat /\ f[Len(s)] \in Seq(T) /\ Len(f[Len(s)]) = Len(s) - 1
      /\ \A j \in 1..Len(s)-1 : f[Len(s)][j] = Elem(j)
  BY <1>4
<1>6. /\ RemoveAt(s, i) \in Seq(T) /\ Len(RemoveAt(s, i)) = Len(s) - 1
      /\ \A j \in 1..Len(s)-1 : RemoveAt(s, i)[j] = Elem(j)
  <2> DEFINE a == SubSeq(s, 1, i-1)
             b == SubSeq(s, i+1, Len(s))
  <2>1. a \in Seq(T) /\ Len(a) = i - 1 /\ \A j \in 1..i-1 : a[j] = s[j]
    OBVIOUS
  <2>2. b \in Seq(T) /\ Len(b) = Len(s) - i /\ \A j \in 1..Len(s)-i : b[j] = s[i+j]
    OBVIOUS
  <2> HIDE DEF a, b
  <2>3. /\ a \o b \in Seq(T) /\ Len(a \o b) = Len(s) - 1
        /\ \A j \in 1..Len(s)-1 : (a \o b)[j] = IF j < i THEN a[j] ELSE b[j - i + 1]
    <3>1. /\ a \o b \in Seq(T) /\ Len(a \o b) = Len(a) + Len(b)
          /\ \A j \in 1..Len(a)+Len(b) : (a \o b)[j] = IF j <= Len(a) THEN a[j] ELSE b[j - Len(a)]
      BY <2>1, <2>2, ConcatProperties
    <3>2. Len(a) + Len(b) = Len(s) - 1 /\ Len(a) = i - 1
          /\ \A j \in 1..Len(s)-1 : j - (i - 1) = j - i + 1 /\ (j <= i - 1 <=> j < i)
      BY <2>1, <2>2
    <3> HIDE DEF a, b
    <3> QED
      BY <3>1, <3>2
  <2>4. ASSUME NEW j \in 1..Len(s)-1 PROVE (a \o b)[j] = Elem(j)
    <3>1. CASE j < i
      BY <2>1, <2>3, <3>1
    <3>2. CASE j >= i
      <4>1. j - i + 1 \in 1..Len(s)-i /\ i + (j - i + 1) = j + 1 /\ ~(j < i)
        BY <3>2
      <4>2. b[j - i + 1] = s[j + 1]
        BY <2>2, <4>1
      <4>3. (a \o b)[j] = b[j - i + 1]
        BY <2>3, <4>1
      <4> QED
        BY <4>1, <4>2, <4>3
    <3>3. j < i \/ j >= i
      OBVIOUS
    <3> HIDE DEF Elem
    <3> QED
      BY <3>1, <3>2, <3>3
  <2> QED
    BY <2>3, <2>4 DEF RemoveAt, a, b
<1> HIDE DEF Elem
<1>7. RemoveAt(s, i) = f[Len(s)]
  BY SMTT(40), <1>5, <1>6
<1> QED
  BY <1>1, <1>7

\* The lines of two sequences with nothing in common, one after the other.
LEMMA ConcatOK ==
  ASSUME NEW T, NEW a \in Seq(T), NEW b \in Seq(T), ToSet(a) \cap ToSet(b) = {}
  PROVE  /\ a \o b \in Seq(T) /\ ToSet(a \o b) = ToSet(a) \union ToSet(b)
         /\ IsInjective(a) /\ IsInjective(b) => IsInjective(a \o b)
<1> DEFINE c == a \o b
<1>1. /\ c \in Seq(T) /\ Len(c) = Len(a) + Len(b) /\ Len(a) \in Nat /\ Len(b) \in Nat
      /\ DOMAIN a = 1..Len(a) /\ DOMAIN b = 1..Len(b) /\ DOMAIN c = 1..Len(c)
      /\ \A j \in 1..Len(a)+Len(b) : c[j] = IF j <= Len(a) THEN a[j] ELSE b[j - Len(a)]
  BY ConcatProperties
<1> HIDE DEF c
<1>2. \A j \in 1..Len(a) : c[j] = a[j] /\ j \in 1..Len(c)
  BY <1>1
<1>3. ASSUME NEW j \in 1..Len(b)
      PROVE  c[Len(a) + j] = b[j] /\ Len(a) + j \in 1..Len(c)
  <2>1. /\ Len(a) + j \in 1..Len(a)+Len(b) /\ (Len(a) + j) - Len(a) = j
        /\ ~(Len(a) + j <= Len(a))
    BY <1>1
  <2> QED
    BY <1>1, <2>1
<1>4. \A j \in 1..Len(c) : \/ j \in 1..Len(a) /\ c[j] = a[j]
                           \/ j - Len(a) \in 1..Len(b) /\ c[j] = b[j - Len(a)]
  BY <1>1
<1>5. ToSet(c) = ToSet(a) \union ToSet(b)
  <2>1. ASSUME NEW x \in ToSet(c) PROVE x \in ToSet(a) \union ToSet(b)
    BY <1>1, <1>4 DEF ToSet
  <2>2. ASSUME NEW x \in ToSet(a) PROVE x \in ToSet(c)
    BY <1>1, <1>2 DEF ToSet
  <2>3. ASSUME NEW x \in ToSet(b) PROVE x \in ToSet(c)
    <3>1. PICK j \in 1..Len(b) : x = b[j]
      BY <1>1 DEF ToSet
    <3>2. x = c[Len(a) + j] /\ Len(a) + j \in DOMAIN c
      BY <1>1, <1>3, <3>1
    <3> QED
      BY <3>2 DEF ToSet
  <2> QED
    BY <2>1, <2>2, <2>3
<1>6. ASSUME IsInjective(a), IsInjective(b) PROVE IsInjective(c)
  <2> SUFFICES ASSUME NEW j \in 1..Len(c), NEW k \in 1..Len(c), c[j] = c[k]
               PROVE  j = k
    BY <1>1 DEF IsInjective
  <2>1. \A m \in 1..Len(a), n \in 1..Len(b) : a[m] # b[n]
    BY <1>1 DEF ToSet
  <2>2. CASE j \in 1..Len(a) /\ c[j] = a[j] /\ k \in 1..Len(a) /\ c[k] = a[k]
    BY <1>1, <1>6, <2>2 DEF IsInjective
  <2>3. CASE /\ j - Len(a) \in 1..Len(b) /\ c[j] = b[j - Len(a)]
             /\ k - Len(a) \in 1..Len(b) /\ c[k] = b[k - Len(a)]
    <3>1. j - Len(a) = k - Len(a)
      BY <1>1, <1>6, <2>3 DEF IsInjective
    <3> QED
      BY <1>1, <3>1
  <2> QED
    BY <1>4, <2>1, <2>2, <2>3
<1> QED
  BY <1>1, <1>5, <1>6 DEF c

\* A finite set written out as a sequence.
LEMMA ListedOK ==
  ASSUME NEW T, IsFiniteSet(T)
  PROVE  /\ SetToSeq(T) \in Seq(T) /\ ToSet(SetToSeq(T)) = T /\ IsInjective(SetToSeq(T))
<1> DEFINE n == Cardinality(T)
           s == SetToSeq(T)
<1>1. n \in Nat /\ ExistsBijection(1..n, T)
  BY FS_CardinalityType
<1>2. PICK g : g \in Bijection(1..n, T)
  BY <1>1 DEF ExistsBijection
<1>3. g \in [1..n -> T] /\ IsInjective(g)
  BY <1>2 DEF Bijection, Injection
<1>4. s \in [1..n -> T] /\ IsInjective(s)
  BY <1>3 DEF SetToSeq
<1> HIDE DEF s
<1>5. Cardinality(1..n) = n /\ IsFiniteSet(1..n)
  BY <1>1, FS_Interval
<1>6. s \in Injection(1..n, T)
  BY <1>4 DEF Injection
<1>7. s \in Surjection(1..n, T)
  BY <1>5, <1>6, FS_Injection
<1>8. s \in Seq(T) /\ DOMAIN s = 1..n
  BY <1>1, <1>4
<1>9. ToSet(s) = T
  BY <1>4, <1>7, <1>8 DEF Surjection, ToSet
<1> QED
  BY <1>4, <1>8, <1>9 DEF s
=============================================================================
