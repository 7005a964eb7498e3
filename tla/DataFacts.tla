------------------------------ MODULE DataFacts ------------------------------
(***************************************************************************)
(* Induction and recursion in a form that can be cited: for sets, where the*)
(* libraries have operators.  The least number principle serves for the    *)
(* first entry a search finds; induction is over the numbers of a set;     *)
(* a recursive function on 0 .. n exists when its step is a function, which*)
(* it is on any set that contains the start and is closed under the step.  *)
(* And what Filter, and the library's SetToSeq and FlattenSeq, return, what*)
(* occurs in a sequence and what occurs once, and remainders.  From this,  *)
(* what the queries of MonitorIntervals return for any samples and events: *)
(* their windows, their order, the runs of the samples, and the merge.     *)
(***************************************************************************)
EXTENDS MonitorIntervals, SequencesExt, SequenceTheorems, FiniteSetTheorems, WellFoundedInduction, TLAPS

\* A set of natural numbers that is not empty has a least one.
LEMMA LeastNumber ==
  ASSUME NEW T, T \subseteq Nat, T # {}
  PROVE  \E m \in T : \A i \in T : m <= i
<1>1. PICK m \in T : \A i \in T : ~(<<i, m>> \in OpToRel(<, Nat))
  BY NatLessThanWellFounded, WFMin
<1>2. \A i \in T : ~(i < m)
  BY <1>1 DEF OpToRel
<1> QED BY <1>2

\* Induction up to n.
LEMMA BoundedInduction ==
  ASSUME NEW n \in Nat, NEW T, 0 \in T, \A i \in 1 .. n : i - 1 \in T => i \in T
  PROVE  \A i \in 0 .. n : i \in T
<1> DEFINE U == {i \in 0 .. n : i \notin T}
<1> SUFFICES ASSUME U # {} PROVE FALSE
  OBVIOUS
<1>1. U \subseteq Nat
  OBVIOUS
<1>2. PICK m \in U : \A i \in U : m <= i
  <2> HIDE DEF U
  <2> QED BY <1>1, LeastNumber
<1>3. m # 0 /\ m \in 1 .. n
  BY <1>2
<1>4. m - 1 \in 0 .. n /\ m - 1 \notin U
  BY <1>2, <1>3
<1>5. m - 1 \in T
  BY <1>4
<1> QED BY <1>2, <1>3, <1>5

\* A function on 0 .. n that begins with start and goes on with the step.
IsRecursion(f, n, start, step) == f = [i \in 0 .. n |-> IF i = 0 THEN start ELSE step[<<f[i - 1], i>>]]

\* Such a function exists, and stays in a set that the step does not leave.
LEMMA BoundedRecursion ==
  ASSUME NEW n \in Nat, NEW A, NEW start \in A, NEW step \in [A \X (1 .. n) -> A]
  PROVE  \E f \in [0 .. n -> A] : IsRecursion(f, n, start, step)
<1> DEFINE Is(f, k) == f = [i \in 0 .. k |-> IF i = 0 THEN start ELSE step[<<f[i - 1], i>>]]
           T == {k \in 0 .. n : \E f \in [0 .. k -> A] : Is(f, k)}
<1>1. 0 \in T
  <2> DEFINE f == [i \in 0 .. 0 |-> start]
  <2>1. f \in [0 .. 0 -> A] /\ Is(f, 0)
    OBVIOUS
  <2>2. 0 \in 0 .. n
    OBVIOUS
  <2> HIDE DEF f, Is
  <2> QED BY <2>1, <2>2
<1>2. ASSUME NEW k \in 1 .. n, k - 1 \in T PROVE k \in T
  <2>1. PICK f \in [0 .. k - 1 -> A] : Is(f, k - 1)
    BY <1>2
  <2> DEFINE new == step[<<f[k - 1], k>>]
             g == [i \in 0 .. k |-> IF i = k THEN new ELSE f[i]]
  <2>2. k - 1 \in 0 .. k - 1 /\ \A i \in 0 .. k : i # k => i \in 0 .. k - 1
    OBVIOUS
  <2>3. new \in A
    <3>1. f[k - 1] \in A
      BY <2>2
    <3>2. <<f[k - 1], k>> \in A \X (1 .. n)
      BY <3>1
    <3> QED BY <3>2
  <2>4. g \in [0 .. k -> A]
    <3> HIDE DEF new
    <3> QED BY <2>2, <2>3
  <2>5. ASSUME NEW i \in 0 .. k
        PROVE  g[i] = IF i = 0 THEN start ELSE step[<<g[i - 1], i>>]
    <3>1. CASE i = k
      <4>1. g[k] = new /\ g[k - 1] = f[k - 1] /\ k # 0
        OBVIOUS
      <4> QED BY <3>1, <4>1
    <3>2. CASE i # k /\ i # 0
      <4>1. i \in 0 .. k - 1 /\ i - 1 \in 0 .. k /\ i - 1 # k
        BY <3>2
      <4>2. f[i] = step[<<f[i - 1], i>>]
        BY <2>1, <3>2, <4>1
      <4> QED BY <3>2, <4>1, <4>2
    <3>3. CASE i = 0
      <4>1. 0 \in 0 .. k - 1 /\ 0 # k
        OBVIOUS
      <4>2. f[0] = start
        BY <2>1, <4>1
      <4> QED BY <3>3, <4>1, <4>2
    <3> QED BY <3>1, <3>2, <3>3
  <2>6. Is(g, k)
    BY <2>5
  <2>7. k \in 0 .. n
    OBVIOUS
  <2> HIDE DEF g, Is
  <2> QED BY <2>4, <2>6, <2>7
<1>3. \A k \in 0 .. n : k \in T
  <2> HIDE DEF T
  <2> QED BY <1>1, <1>2, BoundedInduction
<1>4. \E f \in [0 .. n -> A] : Is(f, n)
  <2>1. n \in T
    BY <1>3
  <2> QED BY <2>1
<1> QED BY <1>4 DEF IsRecursion

\* Every remainder is reached from any number in less than m steps.
LEMMA Remainders ==
  ASSUME NEW m \in Nat \ {0}, NEW b \in Nat, NEW r \in 0 .. m - 1
  PROVE  \E j \in 0 .. m - 1 : (j + b) % m = r
<1> DEFINE q == b \div m
           s == b % m
<1>1. q \in Nat /\ s \in 0 .. m - 1 /\ b = m * q + s
  OBVIOUS
<1>2. ASSUME NEW k \in Nat PROVE (m * k + r) % m = r
  OBVIOUS
<1>3. q + 1 \in Nat /\ m * (q + 1) = m * q + m
  BY <1>1
<1> HIDE DEF q, s
<1>4. m * q \in Nat
  BY <1>1
<1>5. CASE s <= r
  <2>1. r - s \in 0 .. m - 1 /\ (r - s) + b = m * q + r
    BY <1>1, <1>4, <1>5
  <2> QED BY <1>1, <1>2, <2>1
<1>6. CASE r < s
  <2>1. r - s + m \in 0 .. m - 1 /\ (r - s + m) + b = m * (q + 1) + r
    BY <1>1, <1>3, <1>4, <1>6
  <2> QED BY <1>2, <1>3, <2>1
<1> QED BY <1>1, <1>5, <1>6

-----------------------------------------------------------------------------
(* Filter *)

\* The function in the definition of Filter.
IsFiltering(f, s, T) ==
  f = [i \in 0 .. Len(s) |-> IF i = 0 THEN << >>
                             ELSE IF s[i] \in T THEN Append(f[i - 1], s[i]) ELSE f[i - 1]]

\* What it is after each element.
FilterSteps(f, s, T) ==
  /\ f[0] = << >>
  /\ \A i \in 1 .. Len(s) : f[i] = IF s[i] \in T THEN Append(f[i - 1], s[i]) ELSE f[i - 1]

LEMMA Filtering ==
  ASSUME NEW S, NEW s \in Seq(S), NEW T
  PROVE  \E f \in [0 .. Len(s) -> Seq(S \cap T)] : Filter(s, T) = f[Len(s)] /\ FilterSteps(f, s, T)
<1> DEFINE n == Len(s)
           A == Seq(S \cap T)
           Kept(a, i) == IF s[i] \in T THEN Append(a, s[i]) ELSE a
           step == [p \in A \X (1 .. n) |-> Kept(p[1], p[2])]
           none == << >>
           Is(f) == f = [i \in 0 .. n |-> IF i = 0 THEN none ELSE Kept(f[i - 1], i)]
           g == CHOOSE h : Is(h)
<1>1. n \in Nat /\ \A i \in 1 .. n : s[i] \in S
  BY LenProperties, ElementOfSeq
<1>2. ASSUME NEW a \in A, NEW i \in 1 .. n PROVE Kept(a, i) \in A
  BY <1>1, AppendProperties
<1>3. none \in A
  BY EmptySeq
<1>4. Filter(s, T) = g[n]
  BY DEF Filter
<1>5. FilterSteps(g, s, T) <=> g[0] = none /\ \A i \in 1 .. n : g[i] = Kept(g[i - 1], i)
  BY DEF FilterSteps
<1> HIDE DEF n, A, Kept, none
<1>6. step \in [A \X (1 .. n) -> A]
  BY <1>2
<1>7. PICK f \in [0 .. n -> A] : IsRecursion(f, n, none, step)
  <2> HIDE DEF step
  <2> QED BY <1>1, <1>3, <1>6, BoundedRecursion
<1>8. Is(f)
  <2>1. \A i \in 0 .. n : i # 0 => i - 1 \in 0 .. n /\ i \in 1 .. n
    BY <1>1
  <2>2. \A i \in 0 .. n : i # 0 => step[<<f[i - 1], i>>] = Kept(f[i - 1], i)
    BY <2>1
  <2> HIDE DEF step
  <2> QED BY <1>7, <2>2 DEF IsRecursion
<1>9. Is(g)
  BY <1>8
<1>10. \A i \in 1 .. n : i \in 0 .. n /\ i - 1 \in 0 .. n /\ i # 0
  BY <1>1
<1>11. \A i \in 1 .. n : f[i] = Kept(f[i - 1], i) /\ g[i] = Kept(g[i - 1], i)
  <2> HIDE DEF g
  <2> QED BY <1>8, <1>9, <1>10
<1>12. f[0] = none /\ g[0] = none /\ 0 \in 0 .. n
  <2> HIDE DEF g
  <2> QED BY <1>1, <1>8, <1>9
<1> HIDE DEF g, Is, step
<1>13. \A i \in 0 .. n : g[i] = f[i]
  <2> DEFINE U == {k \in 0 .. n : g[k] = f[k]}
  <2>1. 0 \in U
    BY <1>12
  <2>2. ASSUME NEW i \in 1 .. n, i - 1 \in U PROVE i \in U
    BY <1>10, <1>11, <2>2
  <2> HIDE DEF U
  <2>3. \A i \in 0 .. n : i \in U
    BY <1>1, <2>1, <2>2, BoundedInduction
  <2> QED BY <2>3 DEF U
<1>14. g \in [0 .. n -> A]
  <2>1. g = [i \in 0 .. n |-> g[i]]
    BY <1>9 DEF Is
  <2> QED BY <1>13, <2>1
<1> QED BY <1>4, <1>5, <1>11, <1>12, <1>14 DEF n, A

\* Nothing is kept that is not in the set.
LEMMA FilterType ==
  ASSUME NEW S, NEW s \in Seq(S), NEW T
  PROVE  Filter(s, T) \in Seq(S \cap T)
<1> DEFINE A == Seq(S \cap T)
<1>1. PICK f \in [0 .. Len(s) -> A] : Filter(s, T) = f[Len(s)]
  BY Filtering
<1>2. Len(s) \in 0 .. Len(s)
  BY LenProperties
<1> HIDE DEF A
<1>3. f[Len(s)] \in A
  BY <1>2
<1> QED BY <1>1, <1>3 DEF A
-----------------------------------------------------------------------------
(* What occurs in a sequence, and what occurs once *)

Occurs(s, x) == \E k \in 1 .. Len(s) : s[k] = x

\* No element of X occurs at two places.
Once(s, X) == \A k, l \in 1 .. Len(s) : s[k] = s[l] /\ s[k] \in X => k = l

\* t has what s has, and e, and has twice only what s had or e repeats.
Grown(s, t, e) ==
  /\ \A x : Occurs(t, x) <=> Occurs(s, x) \/ x = e
  /\ \A X : Once(s, X) /\ ~(Occurs(s, e) /\ e \in X) => Once(t, X)

\* An insertion moves the rest by one.
LEMMA InsertAtFacts ==
  ASSUME NEW S, NEW s \in Seq(S), NEW k \in 1 .. Len(s) + 1, NEW e \in S
  PROVE  /\ InsertAt(s, k, e) \in Seq(S) /\ Len(InsertAt(s, k, e)) = Len(s) + 1
         /\ \A i \in 1 .. k - 1 : InsertAt(s, k, e)[i] = s[i]
         /\ InsertAt(s, k, e)[k] = e
         /\ \A i \in k .. Len(s) : InsertAt(s, k, e)[i + 1] = s[i]
<1> DEFINE a == SubSeq(s, 1, k - 1)
           b == SubSeq(s, k, Len(s))
           m == <<e>>
           n == Len(s)
<1>1. n \in Nat /\ \A i \in 1 .. n : s[i] \in S
  BY LenProperties, ElementOfSeq
<1>2. a \in Seq(S) /\ Len(a) = k - 1 /\ \A i \in 1 .. k - 1 : a[i] = s[i]
  <2>1. 1 \in Int /\ k - 1 \in Int /\ \A i \in 1 .. k - 1 : s[i] \in S
    BY <1>1
  <2>2. /\ a \in Seq(S) /\ Len(a) = IF 1 <= k - 1 THEN (k - 1) - 1 + 1 ELSE 0
        /\ \A i \in 1 .. (k - 1) - 1 + 1 : a[i] = s[1 + i - 1]
    BY <2>1, SubSeqProperties
  <2>3. /\ (IF 1 <= k - 1 THEN (k - 1) - 1 + 1 ELSE 0) = k - 1
        /\ (k - 1) - 1 + 1 = k - 1 /\ \A i \in 1 .. k - 1 : 1 + i - 1 = i
    BY <1>1
  <2> HIDE DEF a
  <2> QED BY <2>2, <2>3
<1>3. b \in Seq(S) /\ Len(b) = n - k + 1 /\ \A i \in k .. n : b[i - k + 1] = s[i]
  <2>1. k \in Int /\ n \in Int /\ \A i \in k .. n : s[i] \in S
    BY <1>1
  <2>2. /\ b \in Seq(S) /\ Len(b) = IF k <= n THEN n - k + 1 ELSE 0
        /\ \A i \in 1 .. n - k + 1 : b[i] = s[k + i - 1]
    BY <2>1, SubSeqProperties
  <2>3. /\ (IF k <= n THEN n - k + 1 ELSE 0) = n - k + 1
        /\ \A i \in k .. n : i - k + 1 \in 1 .. n - k + 1 /\ k + (i - k + 1) - 1 = i
    BY <1>1
  <2> HIDE DEF b
  <2> QED BY <2>2, <2>3
<1>4. m \in Seq(S) /\ Len(m) = 1 /\ m[1] = e
  OBVIOUS
<1>5. InsertAt(s, k, e) = a \o m \o b
  BY DEF InsertAt
<1> HIDE DEF a, b, m
<1>6. /\ a \o m \in Seq(S) /\ Len(a \o m) = k
      /\ \A i \in 1 .. k - 1 : (a \o m)[i] = s[i]
      /\ (a \o m)[k] = e
  <2>1. /\ a \o m \in Seq(S) /\ Len(a \o m) = Len(a) + Len(m)
        /\ \A i \in 1 .. Len(a) + Len(m) : (a \o m)[i] = IF i <= Len(a) THEN a[i] ELSE m[i - Len(a)]
    BY <1>2, <1>4, ConcatProperties
  <2>2. Len(a) + Len(m) = k /\ k \in 1 .. k /\ ~(k <= Len(a)) /\ k - Len(a) = 1
    BY <1>1, <1>2, <1>4
  <2>3. \A i \in 1 .. k - 1 : i \in 1 .. k /\ i <= Len(a)
    BY <1>1, <1>2
  <2> QED BY <1>2, <1>4, <2>1, <2>2, <2>3
<1> DEFINE am == a \o m
           r == am \o b
<1>7. r \in Seq(S) /\ Len(r) = Len(am) + Len(b)
      /\ \A i \in 1 .. Len(am) + Len(b) : r[i] = IF i <= Len(am) THEN am[i] ELSE b[i - Len(am)]
  <2>1. am \in Seq(S)
    BY <1>6
  <2> HIDE DEF am
  <2> QED BY <1>3, <2>1, ConcatProperties
<1>8. Len(am) = k /\ am[k] = e /\ \A i \in 1 .. k - 1 : am[i] = s[i]
  BY <1>6
<1>9. InsertAt(s, k, e) = r
  BY <1>5
<1> HIDE DEF am, r
<1>10. Len(am) + Len(b) = n + 1
  BY <1>1, <1>3, <1>8
<1>11. ASSUME NEW i \in 1 .. k - 1 PROVE r[i] = s[i]
  <2>1. i \in 1 .. n + 1 /\ i <= k
    BY <1>1
  <2> QED BY <1>7, <1>8, <1>10, <2>1
<1>12. r[k] = e
  <2>1. k \in 1 .. n + 1 /\ k <= k
    BY <1>1
  <2> QED BY <1>7, <1>8, <1>10, <2>1
<1>13. ASSUME NEW i \in k .. n PROVE r[i + 1] = s[i]
  <2>1. i + 1 \in 1 .. n + 1 /\ ~(i + 1 <= k) /\ i + 1 - k = i - k + 1
    BY <1>1
  <2> QED BY <1>3, <1>7, <1>8, <1>10, <2>1
<1> QED BY <1>7, <1>9, <1>10, <1>11, <1>12, <1>13

LEMMA InsertAtGrows ==
  ASSUME NEW S, NEW s \in Seq(S), NEW k \in 1 .. Len(s) + 1, NEW e \in S
  PROVE  Grown(s, InsertAt(s, k, e), e)
<1> DEFINE t == InsertAt(s, k, e)
           n == Len(s)
           \* the place of an element of t in s, and back
           Old(i) == IF i < k THEN i ELSE i - 1
           New(i) == IF i < k THEN i ELSE i + 1
<1>1. n \in Nat
  BY LenProperties
<1>2. /\ Len(t) = n + 1 /\ t[k] = e
      /\ \A i \in 1 .. k - 1 : t[i] = s[i]
      /\ \A i \in k .. n : t[i + 1] = s[i]
  BY InsertAtFacts
<1> HIDE DEF t
<1>3. k \in 1 .. Len(t)
  BY <1>1, <1>2
<1>4. ASSUME NEW i \in 1 .. n PROVE New(i) \in 1 .. Len(t) /\ t[New(i)] = s[i]
  <2>1. CASE i < k
    <3>1. i \in 1 .. k - 1 /\ i \in 1 .. n + 1
      BY <1>1, <2>1
    <3> QED BY <1>2, <2>1, <3>1
  <2>2. CASE ~(i < k)
    <3>1. i \in k .. n /\ i + 1 \in 1 .. n + 1
      BY <1>1, <2>2
    <3> QED BY <1>2, <2>2, <3>1
  <2> QED BY <2>1, <2>2
<1>5. ASSUME NEW i \in 1 .. Len(t), i # k PROVE Old(i) \in 1 .. n /\ t[i] = s[Old(i)]
  <2>1. CASE i < k
    <3>1. i \in 1 .. k - 1 /\ i \in 1 .. n
      BY <1>1, <1>2, <2>1
    <3> QED BY <1>2, <2>1, <3>1
  <2>2. CASE ~(i < k)
    <3>1. i - 1 \in k .. n /\ i - 1 \in 1 .. n /\ (i - 1) + 1 = i
      BY <1>1, <1>2, <1>5, <2>2
    <3> QED BY <1>2, <2>2, <3>1
  <2> QED BY <2>1, <2>2
<1>6. ASSUME NEW i \in 1 .. Len(t), NEW j \in 1 .. Len(t), i # k, j # k, Old(i) = Old(j) PROVE i = j
  BY <1>1, <1>2, <1>6
<1> HIDE DEF Old, New
<1>7. \A x : Occurs(t, x) <=> Occurs(s, x) \/ x = e
  BY <1>2, <1>3, <1>4, <1>5 DEF Occurs
<1>8. ASSUME NEW X, Once(s, X), ~(Occurs(s, e) /\ e \in X), NEW i \in 1 .. Len(t), NEW j \in 1 .. Len(t),
             t[i] = t[j], t[i] \in X
      PROVE  i = j
  <2>1. CASE i # k /\ j # k
    <3>1. Old(i) = Old(j)
      BY <1>5, <1>8, <2>1 DEF Once
    <3> QED BY <1>6, <2>1, <3>1
  <2>2. CASE i = k /\ j # k
    BY <1>2, <1>5, <1>8, <2>2 DEF Occurs
  <2>3. CASE i # k /\ j = k
    BY <1>2, <1>5, <1>8, <2>3 DEF Occurs
  <2> QED BY <2>1, <2>2, <2>3
<1>9. \A X : Once(s, X) /\ ~(Occurs(s, e) /\ e \in X) => Once(t, X)
  BY <1>8 DEF Once
<1>10. Grown(s, t, e)
  BY <1>7, <1>9 DEF Grown
<1> QED BY <1>10 DEF t

LEMMA AppendGrows ==
  ASSUME NEW S, NEW s \in Seq(S), NEW e \in S
  PROVE  Grown(s, Append(s, e), e)
<1> DEFINE t == Append(s, e)
           n == Len(s)
<1>1. n \in Nat
  BY LenProperties
<1>2. Len(t) = n + 1 /\ t[n + 1] = e /\ \A i \in 1 .. n : t[i] = s[i]
  BY AppendProperties
<1> HIDE DEF t
<1>3. \A i : i \in 1 .. Len(t) <=> i \in 1 .. n \/ i = n + 1
  BY <1>1, <1>2
<1>4. \A x : Occurs(t, x) <=> Occurs(s, x) \/ x = e
  BY <1>2, <1>3 DEF Occurs
<1>5. \A X : Once(s, X) /\ ~(Occurs(s, e) /\ e \in X) => Once(t, X)
  BY <1>2, <1>3 DEF Once, Occurs
<1>6. Grown(s, t, e)
  BY <1>4, <1>5 DEF Grown
<1> QED BY <1>6 DEF t

\* Two sequences one after the other.
LEMMA ConcatOccurs ==
  ASSUME NEW S, NEW s \in Seq(S), NEW t \in Seq(S)
  PROVE  /\ \A x : Occurs(s \o t, x) <=> Occurs(s, x) \/ Occurs(t, x)
         /\ \A X : Once(s, X) /\ Once(t, X) /\ (\A x \in X : ~(Occurs(s, x) /\ Occurs(t, x))) => Once(s \o t, X)
<1> DEFINE r == s \o t
           n == Len(s)
<1>1. n \in Nat /\ Len(t) \in Nat
  BY LenProperties
<1>2. Len(r) = n + Len(t) /\ \A i \in 1 .. n + Len(t) : r[i] = IF i <= n THEN s[i] ELSE t[i - n]
  BY ConcatProperties
<1> HIDE DEF r
<1>3. \A i \in 1 .. n : i \in 1 .. Len(r) /\ r[i] = s[i]
  BY <1>1, <1>2
<1>4. \A i \in 1 .. Len(t) : n + i \in 1 .. Len(r) /\ r[n + i] = t[i]
  <2>1. ASSUME NEW i \in 1 .. Len(t) PROVE n + i \in 1 .. n + Len(t) /\ ~(n + i <= n) /\ (n + i) - n = i
    BY <1>1
  <2> QED BY <1>2, <2>1
<1>5. \A i \in 1 .. Len(r) : i \in 1 .. n \/ \E j \in 1 .. Len(t) : i = n + j
  <2>1. ASSUME NEW i \in 1 .. Len(r), i \notin 1 .. n PROVE i - n \in 1 .. Len(t) /\ i = n + (i - n)
    BY <1>1, <1>2, <2>1
  <2> QED BY <2>1
<1>6. \A x : Occurs(r, x) <=> Occurs(s, x) \/ Occurs(t, x)
  BY <1>3, <1>4, <1>5 DEF Occurs
<1>7. ASSUME NEW X, Once(s, X), Once(t, X), \A x \in X : ~(Occurs(s, x) /\ Occurs(t, x)),
             NEW i \in 1 .. Len(r), NEW j \in 1 .. Len(r), r[i] = r[j], r[i] \in X
      PROVE  i = j
  <2>1. CASE i \in 1 .. n /\ j \in 1 .. n
    BY <1>3, <1>7, <2>1 DEF Once
  <2>2. CASE i \in 1 .. n /\ j \notin 1 .. n
    <3>1. PICK l \in 1 .. Len(t) : j = n + l
      BY <1>5, <2>2
    <3>2. Occurs(s, r[i]) /\ Occurs(t, r[i])
      BY <1>3, <1>4, <1>7, <2>2, <3>1 DEF Occurs
    <3> QED BY <1>7, <3>2
  <2>3. CASE i \notin 1 .. n /\ j \in 1 .. n
    <3>1. PICK l \in 1 .. Len(t) : i = n + l
      BY <1>5, <2>3
    <3>2. Occurs(s, r[i]) /\ Occurs(t, r[i])
      BY <1>3, <1>4, <1>7, <2>3, <3>1 DEF Occurs
    <3> QED BY <1>7, <3>2
  <2>4. CASE i \notin 1 .. n /\ j \notin 1 .. n
    <3>1. PICK k \in 1 .. Len(t) : i = n + k
      BY <1>5, <2>4
    <3>2. PICK l \in 1 .. Len(t) : j = n + l
      BY <1>5, <2>4
    <3> QED BY <1>4, <1>7, <3>1, <3>2 DEF Once
  <2> QED BY <2>1, <2>2, <2>3, <2>4
<1>8. \A X : Once(s, X) /\ Once(t, X) /\ (\A x \in X : ~(Occurs(s, x) /\ Occurs(t, x))) => Once(r, X)
  BY <1>7 DEF Once
<1> QED BY <1>6, <1>8 DEF r

\* A sequence f that grows by the elements of s, or by those in T, ends with them.
LEMMA GrownContents ==
  ASSUME NEW s, Len(s) \in Nat, NEW T, NEW f, Len(f[0]) = 0,
         \A i \in 1 .. Len(s) : IF s[i] \in T THEN Grown(f[i - 1], f[i], s[i]) ELSE f[i] = f[i - 1]
  PROVE  /\ \A x : Occurs(f[Len(s)], x) <=> Occurs(s, x) /\ x \in T
         /\ \A X : Once(s, X) => Once(f[Len(s)], X)
<1> DEFINE n == Len(s)
           Upto(i, x) == \E k \in 1 .. i : s[k] = x
           Has(i) == \A x : Occurs(f[i], x) <=> Upto(i, x) /\ x \in T
           U == {i \in 0 .. n : Has(i)}
<1>1. 0 \in U
  <2>1. Has(0)
    BY DEF Occurs
  <2>2. 0 \in 0 .. n
    OBVIOUS
  <2> HIDE DEF Has
  <2> QED BY <2>1, <2>2
<1>2. ASSUME NEW i \in 1 .. n PROVE i \in 0 .. n /\ i - 1 \in 0 .. n /\ \A k : k \in 1 .. i <=> k \in 1 .. i - 1 \/ k = i
  OBVIOUS
<1>3. ASSUME NEW i \in 1 .. n PROVE \A x : Upto(i, x) <=> Upto(i - 1, x) \/ x = s[i]
  BY <1>2
<1>4. ASSUME NEW i \in 1 .. n, i - 1 \in U PROVE i \in U
  <2>1. Has(i - 1) /\ i \in 0 .. n
    BY <1>2, <1>4
  <2>2. IF s[i] \in T THEN Grown(f[i - 1], f[i], s[i]) ELSE f[i] = f[i - 1]
    OBVIOUS
  <2>3. Has(i)
    <3> HIDE DEF Upto
    <3> QED BY <1>3, <2>1, <2>2 DEF Grown
  <2> HIDE DEF Has
  <2> QED BY <2>1, <2>3
<1>5. \A i \in 0 .. n : i \in U
  <2> HIDE DEF U
  <2> QED BY <1>1, <1>4, BoundedInduction
<1>6. \A x : Occurs(f[n], x) <=> Occurs(s, x) /\ x \in T
  <2>1. n \in U
    BY <1>5
  <2>2. Has(n)
    BY <2>1
  <2> QED BY <2>2 DEF Occurs
<1>7. ASSUME NEW X, Once(s, X) PROVE Once(f[n], X)
  <2> DEFINE V == {i \in 0 .. n : Once(f[i], X)}
  <2>1. 0 \in V
    BY DEF Once
  <2>2. ASSUME NEW i \in 1 .. n, i - 1 \in V PROVE i \in V
    <3>1. Once(f[i - 1], X) /\ i \in 0 .. n
      BY <1>2, <2>2
    <3>2. IF s[i] \in T THEN Grown(f[i - 1], f[i], s[i]) ELSE f[i] = f[i - 1]
      OBVIOUS
    <3>3. Has(i - 1)
      BY <1>2, <1>5
    <3>4. Occurs(f[i - 1], s[i]) => s[i] \notin X
      <4>1. ASSUME Occurs(f[i - 1], s[i]), s[i] \in X PROVE FALSE
        <5>1. PICK k \in 1 .. i - 1 : s[k] = s[i]
          BY <3>3, <4>1
        <5>2. k \in 1 .. n /\ k # i
          OBVIOUS
        <5> QED BY <1>7, <4>1, <5>1, <5>2 DEF Once
      <4> QED BY <4>1
    <3>5. Once(f[i], X)
      <4> HIDE DEF Has
      <4> QED BY <3>1, <3>2, <3>4 DEF Grown
    <3> QED BY <3>1, <3>5
  <2>3. \A i \in 0 .. n : i \in V
    <3> HIDE DEF V
    <3> QED BY <2>1, <2>2, BoundedInduction
  <2>4. n \in V
    BY <2>3
  <2> QED BY <2>4
<1> QED BY <1>6, <1>7

\* Filter keeps every element that is in the set, as often as it was there.
LEMMA FilterContents ==
  ASSUME NEW S, NEW s \in Seq(S), NEW T
  PROVE  /\ \A x : Occurs(Filter(s, T), x) <=> Occurs(s, x) /\ x \in T
         /\ \A X : Once(s, X) => Once(Filter(s, T), X)
<1> DEFINE A == Seq(S \cap T)
<1>1. PICK f \in [0 .. Len(s) -> A] : Filter(s, T) = f[Len(s)] /\ FilterSteps(f, s, T)
  BY Filtering
<1>2. Len(s) \in Nat /\ \A i \in 1 .. Len(s) : s[i] \in S
  BY LenProperties, ElementOfSeq
<1>3. Len(f[0]) = 0
  BY <1>1 DEF FilterSteps
<1>4. ASSUME NEW i \in 1 .. Len(s)
      PROVE  IF s[i] \in T THEN Grown(f[i - 1], f[i], s[i]) ELSE f[i] = f[i - 1]
  <2>1. f[i] = IF s[i] \in T THEN Append(f[i - 1], s[i]) ELSE f[i - 1]
    BY <1>1 DEF FilterSteps
  <2>2. i - 1 \in 0 .. Len(s)
    BY <1>2
  <2>3. f[i - 1] \in A
    BY <2>2
  <2>4. s[i] \in T => Grown(f[i - 1], Append(f[i - 1], s[i]), s[i])
    <3>1. s[i] \in T => s[i] \in S \cap T
      BY <1>2
    <3> QED BY <2>3, <3>1, AppendGrows
  <2> QED BY <2>1, <2>4
<1>5. /\ \A x : Occurs(f[Len(s)], x) <=> Occurs(s, x) /\ x \in T
      /\ \A X : Once(s, X) => Once(f[Len(s)], X)
  <2>1. Len(s) \in Nat
    BY <1>2
  <2> HIDE DEF A
  <2> QED BY <1>3, <1>4, <2>1, GrownContents
<1> QED BY <1>1, <1>5
-----------------------------------------------------------------------------
(* Sequences made of sets, and of sequences *)

\* The elements of a finite set, one after the other.
LEMMA SetToSeqType ==
  ASSUME NEW X, NEW S \in SUBSET X, IsFiniteSet(S)
  PROVE  SetToSeq(S) \in Seq(X)
<1> DEFINE n == Cardinality(S)
<1>1. n \in Nat /\ ExistsBijection(1 .. n, S)
  BY FS_CardinalityType
<1>2. PICK f \in [1 .. n -> S] : IsInjective(f)
  <2>1. PICK f \in [1 .. n -> S] : \A a, b \in 1 .. n : f[a] = f[b] => a = b
    <3>1. PICK f : f \in Bijection(1 .. n, S)
      BY <1>1 DEF ExistsBijection
    <3> QED BY <3>1 DEF Bijection, Injection, IsInjective
  <2> QED BY <2>1 DEF IsInjective
<1>3. SetToSeq(S) \in [1 .. n -> S]
  BY <1>2 DEF SetToSeq
<1> HIDE DEF n
<1>4. SetToSeq(S) \in [1 .. n -> X]
  BY <1>3
<1> QED BY <1>1, <1>4, IsASeq

\* The elements of sequences over a set, one after the other.
LEMMA FlattenSeqType ==
  ASSUME NEW X, NEW seqs \in Seq(Seq(X))
  PROVE  FlattenSeq(seqs) \in Seq(X)
<1> DEFINE n == Len(seqs)
           A == Seq(X)
           Join(a, i) == IF i = 1 THEN seqs[i] ELSE a \o seqs[i]
           Is(f) == f = [i \in 1 .. n |-> Join(f[i - 1], i)]
           g == CHOOSE h : Is(h)
           none == << >>
           step == [p \in A \X (1 .. n) |-> Join(p[1], p[2])]
<1>1. n \in Nat /\ \A i \in 1 .. n : seqs[i] \in A
  BY LenProperties, ElementOfSeq
<1>2. FlattenSeq(seqs) = IF n = 0 THEN seqs ELSE g[n]
  BY DEF FlattenSeq
<1>3. n = 0 => seqs \in A
  BY EmptySeq
<1>4. ASSUME NEW a \in A, NEW i \in 1 .. n PROVE Join(a, i) \in A
  BY <1>1, ConcatProperties
<1>5. none \in A
  BY EmptySeq
<1>6. \A a, b : Join(a, 1) = Join(b, 1)
  OBVIOUS
<1> HIDE DEF n, A, Join, none
<1>7. step \in [A \X (1 .. n) -> A]
  BY <1>4
<1>8. PICK f \in [0 .. n -> A] : IsRecursion(f, n, none, step)
  <2> HIDE DEF step
  <2> QED BY <1>1, <1>5, <1>7, BoundedRecursion
<1>9. \A i \in 1 .. n : i \in 0 .. n /\ i # 0 /\ i - 1 \in 0 .. n /\ (i # 1 => i - 1 \in 1 .. n)
  BY <1>1
<1>10. \A i \in 1 .. n : f[i] = Join(f[i - 1], i)
  <2>1. \A i \in 1 .. n : step[<<f[i - 1], i>>] = Join(f[i - 1], i)
    BY <1>9
  <2> HIDE DEF step
  <2> QED BY <1>8, <1>9, <2>1 DEF IsRecursion
<1> HIDE DEF step
<1>11. Is([i \in 1 .. n |-> f[i]])
  <2> DEFINE h == [i \in 1 .. n |-> f[i]]
  <2>1. ASSUME NEW i \in 1 .. n PROVE h[i] = Join(h[i - 1], i)
    <3>1. CASE i = 1
      BY <1>6, <1>10, <3>1
    <3>2. CASE i # 1
      BY <1>9, <1>10, <3>2
    <3> QED BY <3>1, <3>2
  <2> QED BY <2>1
<1>12. Is(g)
  BY <1>11
<1> HIDE DEF g
<1>13. \A i \in 1 .. n : g[i] = Join(g[i - 1], i)
  BY <1>12
<1> HIDE DEF Is
<1>14. \A i \in 1 .. n : g[i] \in A
  <2> DEFINE U == {k \in 0 .. n : k = 0 \/ g[k] \in A}
  <2>1. 0 \in U
    BY <1>1
  <2>2. ASSUME NEW i \in 1 .. n, i - 1 \in U PROVE i \in U
    <3>1. CASE i = 1
      <4>1. g[1] = Join(none, 1)
        BY <1>6, <1>13, <3>1
      <4> QED BY <1>4, <1>5, <1>9, <3>1, <4>1
    <3>2. CASE i # 1
      <4>1. g[i - 1] \in A
        BY <1>9, <2>2, <3>2
      <4> QED BY <1>4, <1>9, <1>13, <4>1
    <3> QED BY <3>1, <3>2
  <2> HIDE DEF U
  <2>3. \A i \in 0 .. n : i \in U
    BY <1>1, <2>1, <2>2, BoundedInduction
  <2> QED BY <1>9, <2>3 DEF U
<1>15. n # 0 => n \in 1 .. n
  BY <1>1
<1>16. FlattenSeq(seqs) \in A
  BY <1>2, <1>3, <1>14, <1>15
<1> QED BY <1>16 DEF A

\* The elements of finite sets, one set after the other.
LEMMA FlattenSets ==
  ASSUME NEW X, NEW sets \in Seq({S \in SUBSET X : IsFiniteSet(S)})
  PROVE  FlattenSeq([i \in DOMAIN sets |-> SetToSeq(sets[i])]) \in Seq(X)
<1> DEFINE F == {S \in SUBSET X : IsFiniteSet(S)}
           A == Seq(X)
           n == Len(sets)
           seqs == [i \in DOMAIN sets |-> SetToSeq(sets[i])]
<1>1. \A S \in F : SetToSeq(S) \in A
  BY SetToSeqType
<1>2. n \in Nat /\ DOMAIN sets = 1 .. n /\ \A i \in 1 .. n : sets[i] \in F
  <2>1. sets \in Seq(F)
    OBVIOUS
  <2> HIDE DEF F
  <2> QED BY <2>1, LenProperties, ElementOfSeq
<1> HIDE DEF F, A, n
<1>3. \A i \in 1 .. n : seqs[i] \in A
  BY <1>1, <1>2
<1>4. seqs \in [1 .. n -> A]
  BY <1>2, <1>3
<1> HIDE DEF seqs
<1>5. seqs \in Seq(A)
  BY <1>2, <1>4, IsASeq
<1>6. FlattenSeq(seqs) \in A
  BY <1>5, FlattenSeqType DEF A
<1> QED BY <1>6 DEF A, seqs

-----------------------------------------------------------------------------
(* The windows of the queries *)

\* The entries of s with times in the window are those from a to b.
Spans(s, from, to, a, b) ==
  \A i \in 1 .. Len(s) : InWindow(s[i].at, from, to) <=> a <= i /\ i <= b

\* The window of s is what it should be: a consecutive part of s that holds
\* exactly the entries with times in the window.
ExactWindow(s, from, to) ==
  \E a \in 1 .. Len(s) + 1, b \in 0 .. Len(s) :
    Window(s, from, to) = SubSeq(s, a, b) /\ Spans(s, from, to, a, b)

\* A sequence of entries with times that do not decrease.
Timeline(s) == /\ \E S : s \in Seq(S)
               /\ \A i \in 1 .. Len(s) : s[i].at \in Nat
               /\ \A i, j \in 1 .. Len(s) : i < j => s[i].at <= s[j].at

\* sort.Search finds the boundary: before it the times are not after from, from it
\* on they are.
LEMMA SearchFinds ==
  ASSUME NEW s, Timeline(s), NEW from \in Nat
  PROVE  /\ FirstAfter(s, from) \in 1 .. Len(s) + 1
         /\ \A i \in 1 .. Len(s) : s[i].at > from <=> FirstAfter(s, from) <= i
<1> DEFINE past == {i \in 1 .. Len(s) : s[i].at > from}
<1>1. Len(s) \in Nat
  BY LenProperties DEF Timeline
<1>2. CASE past = {}
  <2>1. FirstAfter(s, from) = Len(s) + 1
    BY <1>2 DEF FirstAfter
  <2> QED BY <1>1, <1>2, <2>1
<1>3. CASE past # {}
  <2>1. PICK m \in past : \A i \in past : m <= i
    <3>1. past \in SUBSET Nat
      BY <1>1
    <3> QED BY <1>3, <3>1, LeastNumber
  <2>2. Min(past) \in past /\ \A i \in past : Min(past) <= i
    BY <2>1 DEF Min
  <2>3. FirstAfter(s, from) = Min(past)
    BY <1>3 DEF FirstAfter
  <2>4. ASSUME NEW i \in 1 .. Len(s), Min(past) <= i PROVE s[i].at > from
    <3>1. Min(past) \in 1 .. Len(s) /\ s[Min(past)].at > from
      BY <2>2
    <3>2. i = Min(past) \/ s[Min(past)].at <= s[i].at
      BY <1>1, <2>4, <3>1 DEF Timeline
    <3> QED BY <3>1, <3>2 DEF Timeline
  <2> QED BY <1>1, <2>2, <2>3, <2>4
<1> QED BY <1>2, <1>3

\* The two searches of filterSamples and filterEvents cut a timeline exactly at the
\* window, also where one side is open, the window holds nothing or it is inverted.
LEMMA WindowIsExact ==
  ASSUME NEW s, Timeline(s), NEW from \in Nat, NEW to \in Nat
  PROVE  ExactWindow(s, from, to)
<1> DEFINE a == IF from = 0 THEN 1 ELSE FirstAfter(s, from)
           tail == SubSeq(s, a, Len(s))
<1>1. PICK S : s \in Seq(S)
  BY DEF Timeline
<1>2. Len(s) \in Nat
  BY <1>1, LenProperties
<1>3. a \in 1 .. Len(s) + 1 /\ \A i \in 1 .. Len(s) : (from = 0 \/ s[i].at > from) <=> a <= i
  <2>1. CASE from = 0
    BY <1>2, <2>1
  <2>2. CASE from # 0
    BY <2>2, SearchFinds
  <2> QED BY <2>1, <2>2
<1> HIDE DEF a
<1>4. /\ tail \in Seq(S) /\ Len(tail) = Len(s) - a + 1 /\ Len(tail) \in Nat
      /\ \A i \in 1 .. Len(tail) : tail[i] = s[a + i - 1]
  <2>1. a \in 1 .. Len(s) + 1 /\ Len(s) \in a - 1 .. Len(s)
    BY <1>2, <1>3
  <2> QED BY <1>1, <1>2, <2>1, SubSeqProperties
<1>5. Window(s, from, to) = IF to = 0 THEN tail ELSE SubSeq(tail, 1, FirstAfter(tail, to) - 1)
  <2>1. (IF from = 0 THEN s ELSE SubSeq(s, FirstAfter(s, from), Len(s))) = tail
    BY <1>1, SubSeqFull DEF a
  <2> QED BY <2>1 DEF Window
<1>6. CASE to = 0
  <2>1. Window(s, from, to) = SubSeq(s, a, Len(s))
    BY <1>5, <1>6
  <2>2. Spans(s, from, to, a, Len(s))
    BY <1>2, <1>3, <1>6 DEF Spans, InWindow
  <2> QED BY <1>2, <1>3, <2>1, <2>2 DEF ExactWindow
<1>7. CASE to # 0
  <2> DEFINE k == FirstAfter(tail, to)
             b == a + k - 2
  <2>1. Timeline(tail)
    <3>1. \A i \in 1 .. Len(tail) : a + i - 1 \in 1 .. Len(s) /\ tail[i].at = s[a + i - 1].at
      BY <1>2, <1>3, <1>4
    <3>2. \A i \in 1 .. Len(tail) : tail[i].at \in Nat
      BY <3>1 DEF Timeline
    <3>3. ASSUME NEW i \in 1 .. Len(tail), NEW j \in 1 .. Len(tail), i < j
          PROVE  tail[i].at <= tail[j].at
      <4>1. a + i - 1 < a + j - 1
        BY <1>2, <1>3, <1>4, <3>3
      <4> QED BY <3>1, <4>1 DEF Timeline
    <3> QED BY <1>4, <3>2, <3>3 DEF Timeline
  <2>2. k \in 1 .. Len(tail) + 1 /\ \A i \in 1 .. Len(tail) : tail[i].at > to <=> k <= i
    BY <2>1, SearchFinds
  <2> HIDE DEF tail, k
  <2>3. b \in 0 .. Len(s)
    BY <1>2, <1>3, <1>4, <2>2
  <2>4. SubSeq(tail, 1, k - 1) = SubSeq(s, a, b)
    <3>1. /\ SubSeq(tail, 1, k - 1) \in Seq(S) /\ Len(SubSeq(tail, 1, k - 1)) = k - 1
          /\ \A i \in 1 .. k - 1 : SubSeq(tail, 1, k - 1)[i] = tail[i]
      <4>1. 1 \in 1 .. Len(tail) + 1 /\ k - 1 \in 0 .. Len(tail) /\ k - 1 - 1 + 1 = k - 1
        BY <1>4, <2>2
      <4>2. \A i \in 1 .. k - 1 : 1 + i - 1 = i
        BY <1>4, <2>2
      <4> QED BY <1>4, <4>1, <4>2, SubSeqProperties
    <3>2. /\ SubSeq(s, a, b) \in Seq(S) /\ Len(SubSeq(s, a, b)) = k - 1
          /\ \A i \in 1 .. k - 1 : SubSeq(s, a, b)[i] = s[a + i - 1]
      <4>1. b \in a - 1 .. Len(s) /\ b - a + 1 = k - 1
        BY <1>2, <1>3, <1>4, <2>2
      <4> QED BY <1>1, <1>2, <1>3, <4>1, SubSeqProperties
    <3>3. \A i \in 1 .. k - 1 : i \in 1 .. Len(tail)
      BY <1>4, <2>2
    <3>4. \A i \in 1 .. k - 1 : SubSeq(tail, 1, k - 1)[i] = SubSeq(s, a, b)[i]
      BY <1>4, <3>1, <3>2, <3>3
    <3> QED BY <3>1, <3>2, <3>4, SeqEqual
  <2>5. Spans(s, from, to, a, b)
    <3>1. ASSUME NEW i \in 1 .. Len(s), a <= i PROVE s[i].at <= to <=> i <= b
      <4>1. i - a + 1 \in 1 .. Len(tail) /\ a + (i - a + 1) - 1 = i
        BY <1>2, <1>3, <1>4, <3>1
      <4>2. tail[i - a + 1] = s[i]
        BY <1>4, <4>1
      <4>3. s[i].at > to <=> k <= i - a + 1
        BY <2>2, <4>1, <4>2
      <4>4. s[i].at \in Nat
        BY DEF Timeline
      <4> QED BY <1>2, <1>3, <1>4, <2>2, <4>3, <4>4
    <3> QED BY <1>3, <1>7, <3>1 DEF Spans, InWindow
  <2>6. Window(s, from, to) = SubSeq(s, a, b)
    BY <1>5, <1>7, <2>4 DEF k
  <2> QED BY <1>3, <2>3, <2>5, <2>6 DEF ExactWindow
<1> QED BY <1>6, <1>7

\* The window of a timeline, entry by entry.
LEMMA WindowEntries ==
  ASSUME NEW s, Timeline(s), NEW from \in Nat, NEW to \in Nat
  PROVE  LET w == Window(s, from, to)
         IN  /\ Len(w) \in Nat
             /\ \E a \in Nat \ {0} :
                  /\ \A k \in 1 .. Len(w) : a + k - 1 \in 1 .. Len(s) /\ w[k] = s[a + k - 1]
                  /\ \A i \in 1 .. Len(s) : InWindow(s[i].at, from, to) <=> i - a + 1 \in 1 .. Len(w)
             /\ \A S : s \in Seq(S) => w \in Seq(S)
<1>1. PICK a \in 1 .. Len(s) + 1, b \in 0 .. Len(s) :
        Window(s, from, to) = SubSeq(s, a, b) /\ Spans(s, from, to, a, b)
  BY WindowIsExact DEF ExactWindow
<1>2. PICK S0 : s \in Seq(S0)
  BY DEF Timeline
<1>3. Len(s) \in Nat
  BY <1>2, LenProperties
<1> DEFINE w == SubSeq(s, a, b)
<1>4. ASSUME NEW S, s \in Seq(S)
      PROVE  /\ w \in Seq(S) /\ Len(w) = IF a <= b THEN b - a + 1 ELSE 0
             /\ \A k \in 1 .. b - a + 1 : w[k] = s[a + k - 1]
  <2>1. a \in Int /\ b \in Int /\ \A i \in a .. b : i \in 1 .. Len(s)
    BY <1>3
  <2>2. \A i \in a .. b : s[i] \in S
    BY <1>4, <2>1, ElementOfSeq
  <2> QED BY <2>1, <2>2, SubSeqProperties
<1>5. /\ Len(w) = IF a <= b THEN b - a + 1 ELSE 0
      /\ \A k \in 1 .. b - a + 1 : w[k] = s[a + k - 1]
  BY <1>2, <1>4
<1> HIDE DEF w
<1>6. Len(w) \in Nat
  BY <1>3, <1>5
<1>7. a \in Nat \ {0}
  BY <1>3
<1>8. ASSUME NEW k \in 1 .. Len(w) PROVE a + k - 1 \in 1 .. Len(s) /\ w[k] = s[a + k - 1]
  <2>1. a <= b /\ k \in 1 .. b - a + 1 /\ a + k - 1 \in 1 .. Len(s)
    BY <1>3, <1>5
  <2> QED BY <1>5, <2>1
<1>9. ASSUME NEW i \in 1 .. Len(s) PROVE InWindow(s[i].at, from, to) <=> i - a + 1 \in 1 .. Len(w)
  <2>1. InWindow(s[i].at, from, to) <=> a <= i /\ i <= b
    BY <1>1 DEF Spans
  <2>2. a <= i /\ i <= b <=> i - a + 1 \in 1 .. Len(w)
    BY <1>3, <1>5
  <2> QED BY <2>1, <2>2
<1>10. Window(s, from, to) = w
  BY <1>1 DEF w
<1> QED BY <1>4, <1>6, <1>7, <1>8, <1>9, <1>10

-----------------------------------------------------------------------------
(* The order of the results *)

\* The elements of S have what Less compares.
Comparable(S) == \A i \in S : i.from \in Nat /\ i.to \in Nat /\ i.cond \in Nat

\* s is in the order of the beginnings.
ByBeginning(s) == \A k, l \in 1 .. Len(s) : k < l => s[k].from <= s[l].from

\* An interval is inserted behind those that begin earlier, before those that begin
\* later.
LEMMA InsertFacts ==
  ASSUME NEW S, Comparable(S), NEW s \in Seq(S), NEW e \in S
  PROVE  /\ Insert(s, e) \in Seq(S)
         /\ Grown(s, Insert(s, e), e)
         /\ ByBeginning(s) => ByBeginning(Insert(s, e))
<1> DEFINE n == Len(s)
           greater == {k \in 1 .. n : Less(e, s[k])}
           at == IF greater = {} THEN n + 1 ELSE Min(greater)
           t == InsertAt(s, at, e)
<1>1. n \in Nat /\ \A k \in 1 .. n : s[k] \in S
  BY LenProperties, ElementOfSeq
<1>2. Insert(s, e) = t
  BY DEF Insert
<1>3. \A k \in 1 .. n : s[k].from \in Nat /\ (Less(e, s[k]) => e.from <= s[k].from)
                        /\ (~Less(e, s[k]) => s[k].from <= e.from)
  BY <1>1 DEF Less, Comparable
<1>4. /\ at \in 1 .. n + 1
      /\ \A k \in 1 .. n : k < at => ~Less(e, s[k])
      /\ at \in 1 .. n => Less(e, s[at])
  <2>1. CASE greater = {}
    BY <1>1, <2>1
  <2>2. CASE greater # {}
    <3>1. PICK m \in greater : \A k \in greater : m <= k
      <4>1. greater \subseteq Nat
        BY <1>1
      <4> HIDE DEF greater
      <4> QED BY <2>2, <4>1, LeastNumber
    <3>2. Min(greater) \in greater /\ \A k \in greater : Min(greater) <= k
      BY <3>1 DEF Min
    <3>3. at = Min(greater)
      BY <2>2
    <3>4. at \in 1 .. n /\ Less(e, s[at]) /\ \A k \in 1 .. n : Less(e, s[k]) => at <= k
      <4> HIDE DEF at
      <4> QED BY <3>2, <3>3
    <3> HIDE DEF at, greater
    <3> QED BY <1>1, <3>4
  <2> QED BY <2>1, <2>2
<1> HIDE DEF at
<1>5. /\ t \in Seq(S) /\ Len(t) = n + 1 /\ t[at] = e
      /\ \A i \in 1 .. at - 1 : t[i] = s[i]
      /\ \A i \in at .. n : t[i + 1] = s[i]
  BY <1>4, InsertAtFacts
<1>6. Grown(s, t, e)
  BY <1>4, InsertAtGrows
<1> HIDE DEF t
<1>7. ASSUME ByBeginning(s) PROVE ByBeginning(t)
  <2>1. e.from \in Nat
    BY DEF Comparable
  <2>2. ASSUME NEW i \in 1 .. n + 1, i < at PROVE i \in 1 .. n /\ t[i] = s[i] /\ s[i].from <= e.from
    <3>1. i \in 1 .. n /\ i \in 1 .. at - 1
      BY <1>1, <1>4, <2>2
    <3> QED BY <1>3, <1>4, <1>5, <2>2, <3>1
  <2>3. ASSUME NEW i \in 1 .. n + 1, at < i
        PROVE  i - 1 \in 1 .. n /\ at <= i - 1 /\ t[i] = s[i - 1] /\ e.from <= s[i - 1].from
    <3>1. i - 1 \in at .. n /\ i - 1 \in 1 .. n /\ (i - 1) + 1 = i /\ at \in 1 .. n
      BY <1>1, <1>4, <2>3
    <3>2. t[i] = s[i - 1]
      BY <1>5, <3>1
    <3>3. e.from <= s[at].from /\ s[at].from \in Nat /\ s[i - 1].from \in Nat
      BY <1>3, <1>4, <3>1
    <3>4. at = i - 1 \/ s[at].from <= s[i - 1].from
      <4>1. at = i - 1 \/ at < i - 1
        BY <3>1
      <4> QED BY <1>7, <3>1, <4>1 DEF ByBeginning
    <3>5. e.from <= s[i - 1].from
      <4>1. CASE at = i - 1
        BY <3>3, <4>1
      <4>2. CASE s[at].from <= s[i - 1].from
        BY <2>1, <3>3, <4>2
      <4> QED BY <3>4, <4>1, <4>2
    <3> QED BY <3>1, <3>2, <3>5
  <2>4. ASSUME NEW i \in 1 .. n + 1, NEW j \in 1 .. n + 1, i < j PROVE t[i].from <= t[j].from
    <3>1. CASE i < at /\ j < at
      BY <1>7, <2>2, <2>4, <3>1 DEF ByBeginning
    <3>2. CASE i < at /\ j = at
      BY <1>5, <2>2, <3>2
    <3>3. CASE i < at /\ at < j
      <4>1. i < j - 1
        BY <1>4, <3>3
      <4> QED BY <1>7, <2>2, <2>3, <3>3, <4>1 DEF ByBeginning
    <3>4. CASE i = at /\ at < j
      BY <1>5, <2>3, <3>4
    <3>5. CASE at < i /\ at < j
      <4>1. i - 1 < j - 1
        BY <2>4
      <4> QED BY <1>7, <2>3, <3>5, <4>1 DEF ByBeginning
    <3> QED BY <1>4, <2>4, <3>1, <3>2, <3>3, <3>4, <3>5
  <2> QED BY <1>5, <2>4 DEF ByBeginning
<1> QED BY <1>2, <1>5, <1>6, <1>7

\* The function in the definition of Sorted.
LEMMA Sorting ==
  ASSUME NEW S, Comparable(S), NEW s \in Seq(S)
  PROVE  \E f \in [0 .. Len(s) -> Seq(S)] :
           /\ Sorted(s) = f[Len(s)] /\ f[0] = << >>
           /\ \A i \in 1 .. Len(s) : f[i] = Insert(f[i - 1], s[i])
<1> DEFINE n == Len(s)
           A == Seq(S)
           Put(a, i) == Insert(a, s[i])
           step == [p \in A \X (1 .. n) |-> Put(p[1], p[2])]
           none == << >>
           Is(f) == f = [i \in 0 .. n |-> IF i = 0 THEN none ELSE Put(f[i - 1], i)]
           g == CHOOSE h : Is(h)
<1>1. n \in Nat /\ \A i \in 1 .. n : s[i] \in S
  BY LenProperties, ElementOfSeq
<1>2. ASSUME NEW a \in A, NEW i \in 1 .. n PROVE Put(a, i) \in A
  BY <1>1, InsertFacts
<1>3. none \in A
  BY EmptySeq
<1>4. Sorted(s) = g[n]
  BY DEF Sorted
<1> HIDE DEF n, A, Put, none
<1>5. step \in [A \X (1 .. n) -> A]
  BY <1>2
<1>6. PICK f \in [0 .. n -> A] : IsRecursion(f, n, none, step)
  <2> HIDE DEF step
  <2> QED BY <1>1, <1>3, <1>5, BoundedRecursion
<1>7. Is(f)
  <2>1. \A i \in 0 .. n : i # 0 => i - 1 \in 0 .. n /\ i \in 1 .. n
    BY <1>1
  <2>2. \A i \in 0 .. n : i # 0 => step[<<f[i - 1], i>>] = Put(f[i - 1], i)
    BY <2>1
  <2> HIDE DEF step
  <2> QED BY <1>6, <2>2 DEF IsRecursion
<1>8. Is(g)
  BY <1>7
<1>9. \A i \in 1 .. n : i \in 0 .. n /\ i - 1 \in 0 .. n /\ i # 0
  BY <1>1
<1>10. \A i \in 1 .. n : g[i] = Put(g[i - 1], i)
  <2> HIDE DEF g
  <2> QED BY <1>8, <1>9
<1>11. g[0] = none /\ 0 \in 0 .. n
  <2> HIDE DEF g
  <2> QED BY <1>1, <1>8
<1>12. g = [i \in 0 .. n |-> g[i]]
  <2> HIDE DEF g
  <2> QED BY <1>8
<1> HIDE DEF g, Is, step
<1>13. \A i \in 0 .. n : g[i] \in A
  <2> DEFINE U == {k \in 0 .. n : g[k] \in A}
  <2>1. 0 \in U
    BY <1>3, <1>11
  <2>2. ASSUME NEW i \in 1 .. n, i - 1 \in U PROVE i \in U
    BY <1>2, <1>9, <1>10, <2>2
  <2> HIDE DEF U
  <2>3. \A i \in 0 .. n : i \in U
    BY <1>1, <2>1, <2>2, BoundedInduction
  <2> QED BY <2>3 DEF U
<1>14. g \in [0 .. n -> A]
  BY <1>12, <1>13
<1> QED BY <1>4, <1>10, <1>11, <1>14 DEF n, A, Put, none

\* sort.Sort permutes, and the result is in the order of the beginnings.
LEMMA SortedFacts ==
  ASSUME NEW S, Comparable(S), NEW s \in Seq(S)
  PROVE  /\ Sorted(s) \in Seq(S) /\ ByBeginning(Sorted(s))
         /\ \A x : Occurs(Sorted(s), x) <=> Occurs(s, x)
         /\ \A X : Once(s, X) => Once(Sorted(s), X)
<1> DEFINE n == Len(s)
           A == Seq(S)
<1>1. PICK f \in [0 .. n -> A] :
        Sorted(s) = f[n] /\ f[0] = << >> /\ \A i \in 1 .. n : f[i] = Insert(f[i - 1], s[i])
  BY Sorting
<1>2. n \in Nat /\ \A i \in 1 .. n : s[i] \in S
  BY LenProperties, ElementOfSeq
<1>3. \A i \in 1 .. n : i - 1 \in 0 .. n /\ i \in 0 .. n
  BY <1>2
<1>4. n \in 0 .. n
  BY <1>2
<1>5. f[n] \in A
  BY <1>4
<1>6. ASSUME NEW i \in 1 .. n
      PROVE  Grown(f[i - 1], f[i], s[i]) /\ (ByBeginning(f[i - 1]) => ByBeginning(f[i]))
  <2>1. f[i - 1] \in Seq(S) /\ s[i] \in S /\ f[i] = Insert(f[i - 1], s[i])
    BY <1>1, <1>2, <1>3
  <2> QED BY <2>1, InsertFacts
<1>7. ByBeginning(f[n])
  <2> DEFINE U == {i \in 0 .. n : ByBeginning(f[i])}
  <2>1. 0 \in U
    <3>1. Len(f[0]) = 0
      BY <1>1
    <3> QED BY <1>2, <3>1 DEF ByBeginning
  <2>2. ASSUME NEW i \in 1 .. n, i - 1 \in U PROVE i \in U
    BY <1>3, <1>6, <2>2
  <2> HIDE DEF U
  <2>3. \A i \in 0 .. n : i \in U
    BY <1>2, <2>1, <2>2, BoundedInduction
  <2> QED BY <1>4, <2>3 DEF U
<1>8. /\ \A x : Occurs(f[n], x) <=> Occurs(s, x)
      /\ \A X : Once(s, X) => Once(f[n], X)
  <2>1. Len(f[0]) = 0
    BY <1>1
  <2>2. \A i \in 1 .. Len(s) : IF s[i] \in S THEN Grown(f[i - 1], f[i], s[i]) ELSE f[i] = f[i - 1]
    BY <1>2, <1>6
  <2>3. Len(s) \in Nat
    BY <1>2
  <2> HIDE DEF A, n
  <2>4. /\ \A x : Occurs(f[Len(s)], x) <=> Occurs(s, x) /\ x \in S
        /\ \A X : Once(s, X) => Once(f[Len(s)], X)
    BY <2>1, <2>2, <2>3, GrownContents
  <2>5. \A x : Occurs(s, x) => x \in S
    BY <1>2 DEF Occurs, n
  <2> QED BY <2>4, <2>5 DEF n
<1> QED BY <1>1, <1>5, <1>7, <1>8

-----------------------------------------------------------------------------
(* What filterSamples returns *)

\* Intervals of conditions in C with both ends in T.
Intervals(C, T) == [cond : C, from : T, to : T]

\* lastIntervals or nextIntervals: conditions of C with numbers.
Marks(C) == UNION {[D -> Nat] : D \in SUBSET C}

\* The variables of filterSamples, lastIntervals and nextIntervals pointing into
\* the intervals.
Accumulated(C, T) ==
  {a \in [last : Marks(C), next : Marks(C), out : Seq(Intervals(C, T))] :
     /\ \A c \in DOMAIN a.last : a.last[c] \in 1 .. Len(a.out)
     /\ \A c \in DOMAIN a.next : a.next[c] \in 1 .. Len(a.out)}

\* The empty map.
LEMMA NoMarks == ASSUME NEW C PROVE << >> \in Marks(C) /\ DOMAIN << >> = {}
<1>1. << >> \in [1 .. 0 -> Nat] /\ DOMAIN << >> = 1 .. 0
  <2>1. << >> \in Seq(Nat) /\ Len(<< >>) = 0
    BY EmptySeq
  <2> QED BY <2>1, LenProperties
<1>2. 1 .. 0 = {}
  OBVIOUS
<1>3. << >> \in [{} -> Nat]
  BY <1>1, <1>2
<1>4. {} \in SUBSET C
  OBVIOUS
<1> QED BY <1>1, <1>2, <1>3, <1>4 DEF Marks

\* A condition of a sample keeps the positions inside of the intervals.
LEMMA ConditionType ==
  ASSUME NEW C, NEW T, NEW acc \in Accumulated(C, T), NEW at \in T, NEW c \in C
  PROVE  SampleCondition(acc, at, c) \in Accumulated(C, T)
<1> DEFINE I == Intervals(C, T)
           n == Len(acc.out)
           Marked(k) == [d \in DOMAIN acc.next \cup {c} |-> IF d = c THEN k ELSE acc.next[d]]
<1>1. /\ acc \in [last : Marks(C), next : Marks(C), out : Seq(I)]
      /\ \A d \in DOMAIN acc.last : acc.last[d] \in 1 .. n
      /\ \A d \in DOMAIN acc.next : acc.next[d] \in 1 .. n
  BY DEF Accumulated
<1>2. acc.last \in Marks(C) /\ acc.next \in Marks(C) /\ acc.out \in Seq(I)
  <2> HIDE DEF I
  <2> QED BY <1>1
<1>3. n \in Nat /\ \A k \in 1 .. n : acc.out[k] \in I
  <2> HIDE DEF I
  <2> QED BY <1>2, LenProperties, ElementOfSeq
<1>4. DOMAIN acc.next \in SUBSET C
  <2>1. PICK D \in SUBSET C : acc.next \in [D -> Nat]
    BY <1>2 DEF Marks
  <2> QED BY <2>1
<1>5. ASSUME NEW m \in Nat, n <= m, NEW k \in 1 .. m
      PROVE  Marked(k) \in Marks(C) /\ \A d \in DOMAIN Marked(k) : Marked(k)[d] \in 1 .. m
  <2> DEFINE D == DOMAIN acc.next \cup {c}
  <2>1. D \in SUBSET C
    BY <1>4
  <2>2. \A d \in D : (IF d = c THEN k ELSE acc.next[d]) \in 1 .. m
    BY <1>1, <1>3, <1>5
  <2>3. Marked(k) \in [D -> Nat] /\ DOMAIN Marked(k) = D /\ \A d \in D : Marked(k)[d] \in 1 .. m
    <3> HIDE DEF D
    <3>1. 1 .. m \subseteq Nat
      OBVIOUS
    <3> QED BY <2>2, <3>1 DEF D
  <2> HIDE DEF D
  <2> QED BY <2>1, <2>3 DEF Marks
<1> HIDE DEF Marked
<1>6. CASE c \in DOMAIN acc.last
  <2> DEFINE k == acc.last[c]
             out == [acc.out EXCEPT ![k].to = at]
  <2>1. k \in 1 .. n
    BY <1>1, <1>6
  <2>2. out \in Seq(I) /\ Len(out) = n
    <3>1. [acc.out[k] EXCEPT !.to = at] \in I
      <4>1. acc.out[k] \in I
        BY <1>3, <2>1
      <4> QED BY <4>1 DEF Intervals
    <3> HIDE DEF I, k
    <3> QED BY <1>2, <1>3, <2>1, <3>1
  <2>3. SampleCondition(acc, at, c) = [last |-> acc.last, next |-> Marked(k), out |-> out]
    <3> HIDE DEF I
    <3> QED BY <1>1, <1>6 DEF SampleCondition, Marked
  <2>4. Marked(k) \in Marks(C) /\ \A d \in DOMAIN Marked(k) : Marked(k)[d] \in 1 .. n
    <3> HIDE DEF k
    <3> QED BY <1>3, <1>5, <2>1
  <2> HIDE DEF out, k
  <2>5. /\ \A d \in DOMAIN acc.last : acc.last[d] \in 1 .. Len(out)
        /\ \A d \in DOMAIN Marked(k) : Marked(k)[d] \in 1 .. Len(out)
    BY <1>1, <2>2, <2>4
  <2> QED BY <1>2, <2>2, <2>3, <2>4, <2>5 DEF Accumulated
<1>7. CASE c \notin DOMAIN acc.last
  <2> DEFINE new == [cond |-> c, from |-> at, to |-> at]
             out == Append(acc.out, new)
  <2>1. new \in I
    BY DEF Intervals
  <2>2. out \in Seq(I) /\ Len(out) = n + 1
    <3> HIDE DEF I, new
    <3> QED BY <1>2, <2>1, AppendProperties
  <2>3. SampleCondition(acc, at, c) = [last |-> acc.last, next |-> Marked(n + 1), out |-> out]
    <3> HIDE DEF I
    <3> QED BY <1>1, <1>7 DEF SampleCondition, Marked
  <2>4. n + 1 \in Nat /\ n <= n + 1 /\ n + 1 \in 1 .. n + 1 /\ 1 .. n \subseteq 1 .. n + 1
    BY <1>3
  <2>5. Marked(n + 1) \in Marks(C) /\ \A d \in DOMAIN Marked(n + 1) : Marked(n + 1)[d] \in 1 .. n + 1
    BY <1>5, <2>4
  <2> HIDE DEF out
  <2>6. /\ \A d \in DOMAIN acc.last : acc.last[d] \in 1 .. Len(out)
        /\ \A d \in DOMAIN Marked(n + 1) : Marked(n + 1)[d] \in 1 .. Len(out)
    BY <1>1, <2>2, <2>4, <2>5
  <2> QED BY <1>2, <2>2, <2>3, <2>5, <2>6 DEF Accumulated
<1> QED BY <1>6, <1>7

\* The conditions of one sample, one after the other.
LEMMA ConditionsSteps ==
  ASSUME NEW C, NEW T, NEW acc \in Accumulated(C, T), NEW s \in [at : T, conds : Seq(C)]
  PROVE  \E f : /\ SampleConditions(acc, s) = f[Len(s.conds)] /\ f[0] = acc
                /\ \A i \in 0 .. Len(s.conds) : f[i] \in Accumulated(C, T)
                /\ \A i \in 1 .. Len(s.conds) : f[i] = SampleCondition(f[i - 1], s.at, s.conds[i])
<1> DEFINE n == Len(s.conds)
           A == Accumulated(C, T)
           Cond(a, i) == SampleCondition(a, s.at, s.conds[i])
           step == [p \in A \X (1 .. n) |-> Cond(p[1], p[2])]
           Is(f) == f = [i \in 0 .. n |-> IF i = 0 THEN acc ELSE Cond(f[i - 1], i)]
           g == CHOOSE h : Is(h)
<1>1. n \in Nat /\ s.at \in T /\ \A i \in 1 .. n : s.conds[i] \in C
  BY LenProperties, ElementOfSeq
<1>2. ASSUME NEW a \in A, NEW i \in 1 .. n PROVE Cond(a, i) \in A
  BY <1>1, ConditionType
<1>3. SampleConditions(acc, s) = g[n]
  BY DEF SampleConditions
<1>4. acc \in A
  OBVIOUS
<1> HIDE DEF n, A, Cond
<1>5. step \in [A \X (1 .. n) -> A]
  BY <1>2
<1>6. PICK f \in [0 .. n -> A] : IsRecursion(f, n, acc, step)
  <2> HIDE DEF step
  <2> QED BY <1>1, <1>4, <1>5, BoundedRecursion
<1>7. Is(f)
  <2>1. \A i \in 0 .. n : i # 0 => i - 1 \in 0 .. n /\ i \in 1 .. n
    BY <1>1
  <2>2. \A i \in 0 .. n : i # 0 => step[<<f[i - 1], i>>] = Cond(f[i - 1], i)
    BY <2>1
  <2> HIDE DEF step
  <2> QED BY <1>6, <2>2 DEF IsRecursion
<1>8. Is(g)
  BY <1>7
<1>9. \A i \in 1 .. n : i \in 0 .. n /\ i - 1 \in 0 .. n /\ i # 0
  BY <1>1
<1>10. g[0] = acc /\ \A i \in 1 .. n : g[i] = Cond(g[i - 1], i)
  <2> HIDE DEF g
  <2> QED BY <1>1, <1>8, <1>9
<1> HIDE DEF g, Is, step
<1>11. \A i \in 0 .. n : g[i] \in A
  <2> DEFINE U == {k \in 0 .. n : g[k] \in A}
  <2>1. 0 \in U
    BY <1>1, <1>4, <1>10
  <2>2. ASSUME NEW i \in 1 .. n, i - 1 \in U PROVE i \in U
    BY <1>2, <1>9, <1>10, <2>2
  <2> HIDE DEF U
  <2>3. \A i \in 0 .. n : i \in U
    BY <1>1, <2>1, <2>2, BoundedInduction
  <2> QED BY <2>3 DEF U
<1> QED BY <1>3, <1>10, <1>11 DEF A, n, Cond

LEMMA ConditionsType ==
  ASSUME NEW C, NEW T, NEW acc \in Accumulated(C, T), NEW s \in [at : T, conds : Seq(C)]
  PROVE  SampleConditions(acc, s) \in Accumulated(C, T)
<1>1. Len(s.conds) \in 0 .. Len(s.conds)
  <2>1. s.conds \in Seq(C)
    OBVIOUS
  <2>2. Len(s.conds) \in Nat
    BY <2>1, LenProperties
  <2> QED BY <2>2
<1> QED BY <1>1, ConditionsSteps

\* One sample.
LEMMA SampleType ==
  ASSUME NEW C, NEW T, NEW acc \in Accumulated(C, T), NEW s \in [at : T, conds : Seq(C)]
  PROVE  SampleStep(acc, s) \in Accumulated(C, T)
<1> DEFINE done == SampleConditions(acc, s)
           I == Seq(Intervals(C, T))
           none == << >>
<1>1. done \in Accumulated(C, T)
  BY ConditionsType
<1>2. SampleStep(acc, s) = [done EXCEPT !.last = done.next, !.next = none]
  BY DEF SampleStep
<1>3. none \in Marks(C) /\ DOMAIN none = {}
  BY NoMarks
<1> HIDE DEF done, none
<1>4. done \in [last : Marks(C), next : Marks(C), out : I] /\ \A c \in DOMAIN done.next : done.next[c] \in 1 .. Len(done.out)
  BY <1>1 DEF Accumulated
<1>5. SampleStep(acc, s) = [last |-> done.next, next |-> none, out |-> done.out]
  <2> HIDE DEF I
  <2> QED BY <1>2, <1>4
<1>6. done.next \in Marks(C) /\ done.out \in I
  <2> HIDE DEF I
  <2> QED BY <1>4
<1> QED BY <1>3, <1>4, <1>5, <1>6 DEF Accumulated

\* What filterSamples begins with.
NoIntervals == [last |-> << >>, next |-> << >>, out |-> << >>]

\* f is what filterSamples computes from the samples w, one after the other.
FiltersSamples(f, w, out, A) ==
  /\ out = f[Len(w)].out /\ f[0] = NoIntervals
  /\ \A i \in 0 .. Len(w) : f[i] \in A
  /\ \A i \in 1 .. Len(w) : f[i] = SampleStep(f[i - 1], w[i])

LEMMA SamplesSteps ==
  ASSUME NEW C, NEW T, NEW s, NEW from, NEW to, Window(s, from, to) \in Seq([at : T, conds : Seq(C)])
  PROVE  \E f : FiltersSamples(f, Window(s, from, to), filterSamples(s, from, to), Accumulated(C, T))
<1> DEFINE w == Window(s, from, to)
           n == Len(w)
           A == Accumulated(C, T)
           B == [at : T, conds : Seq(C)]
           start == NoIntervals
           Sampled(a, i) == SampleStep(a, w[i])
           step == [p \in A \X (1 .. n) |-> Sampled(p[1], p[2])]
           Is(f) == f = [i \in 0 .. n |-> IF i = 0 THEN start ELSE Sampled(f[i - 1], i)]
           g == CHOOSE h : Is(h)
<1>1. n \in Nat /\ \A i \in 1 .. n : w[i] \in B
  <2>1. w \in Seq(B)
    OBVIOUS
  <2> HIDE DEF w, B
  <2> QED BY <2>1, LenProperties, ElementOfSeq
<1>2. ASSUME NEW a \in A, NEW i \in 1 .. n PROVE Sampled(a, i) \in A
  <2> HIDE DEF w
  <2> QED BY <1>1, SampleType
<1>3. filterSamples(s, from, to) = g[n].out
  BY DEF filterSamples, NoIntervals
<1>4. start \in A
  <2>1. << >> \in Marks(C) /\ DOMAIN << >> = {} /\ << >> \in Seq(Intervals(C, T))
    BY NoMarks, EmptySeq
  <2> DEFINE none == << >>
  <2>2. none \in Marks(C) /\ DOMAIN none = {} /\ none \in Seq(Intervals(C, T)) /\ start = [last |-> none, next |-> none, out |-> none]
    BY <2>1 DEF NoIntervals
  <2> HIDE DEF none, start
  <2> QED BY <2>2 DEF Accumulated
<1> HIDE DEF n, A, Sampled, start
<1>5. step \in [A \X (1 .. n) -> A]
  BY <1>2
<1>6. PICK f \in [0 .. n -> A] : IsRecursion(f, n, start, step)
  <2> HIDE DEF step
  <2> QED BY <1>1, <1>4, <1>5, BoundedRecursion
<1>7. Is(f)
  <2>1. \A i \in 0 .. n : i # 0 => i - 1 \in 0 .. n /\ i \in 1 .. n
    BY <1>1
  <2>2. \A i \in 0 .. n : i # 0 => step[<<f[i - 1], i>>] = Sampled(f[i - 1], i)
    BY <2>1
  <2> HIDE DEF step
  <2> QED BY <1>6, <2>2 DEF IsRecursion
<1>8. Is(g)
  BY <1>7
<1>9. \A i \in 1 .. n : i \in 0 .. n /\ i - 1 \in 0 .. n /\ i # 0
  BY <1>1
<1>10. g[0] = start /\ \A i \in 1 .. n : g[i] = Sampled(g[i - 1], i)
  <2> HIDE DEF g
  <2> QED BY <1>1, <1>8, <1>9
<1> HIDE DEF g, Is, step
<1>11. \A i \in 0 .. n : g[i] \in A
  <2> DEFINE U == {k \in 0 .. n : g[k] \in A}
  <2>1. 0 \in U
    BY <1>1, <1>4, <1>10
  <2>2. ASSUME NEW i \in 1 .. n, i - 1 \in U PROVE i \in U
    BY <1>2, <1>9, <1>10, <2>2
  <2> HIDE DEF U
  <2>3. \A i \in 0 .. n : i \in U
    BY <1>1, <2>1, <2>2, BoundedInduction
  <2> QED BY <2>3 DEF U
<1> QED BY <1>3, <1>10, <1>11 DEF A, n, Sampled, start, FiltersSamples

\* They give intervals between their times.
LEMMA SamplesType ==
  ASSUME NEW C, NEW T, NEW s, NEW from, NEW to, Window(s, from, to) \in Seq([at : T, conds : Seq(C)])
  PROVE  filterSamples(s, from, to) \in Seq(Intervals(C, T))
<1> DEFINE w == Window(s, from, to)
           B == [at : T, conds : Seq(C)]
<1>1. Len(w) \in 0 .. Len(w)
  <2>1. w \in Seq(B)
    OBVIOUS
  <2> HIDE DEF w, B
  <2>2. Len(w) \in Nat
    BY <2>1, LenProperties
  <2> QED BY <2>2
<1>2. PICK f : filterSamples(s, from, to) = f[Len(w)].out /\ \A i \in 0 .. Len(w) : f[i] \in Accumulated(C, T)
  BY SamplesSteps DEF FiltersSamples
<1>3. f[Len(w)] \in Accumulated(C, T)
  BY <1>1, <1>2
<1> QED BY <1>2, <1>3 DEF Accumulated

-----------------------------------------------------------------------------
(* The intervals are the runs *)

\* The k-th sample of w has the condition.
Has(w, k, c) == k \in 1 .. Len(w) /\ c \in Range(w[k].conds)

\* c is there from the b-th to the e-th sample, and not before; and not after.
Lasts(w, c, b, e) == b \in 1 .. e /\ (\A k \in b .. e : Has(w, k, c)) /\ ~Has(w, b - 1, c)
IsRun(w, c, b, e) == Lasts(w, c, b, e) /\ ~Has(w, e + 1, c)

Run(w, c, b, e) == [cond |-> c, from |-> w[b].at, to |-> w[e].at]

\* Samples at different times, in their order, with no condition twice.
ProperSamples(w, C, T) ==
  /\ w \in Seq([at : T, conds : Seq(C)]) /\ T \subseteq Nat
  /\ \A i, j \in 1 .. Len(w) : i < j => w[i].at < w[j].at
  /\ \A i \in 1 .. Len(w) : \A k, l \in 1 .. Len(w[i].conds) : w[i].conds[k] = w[i].conds[l] => k = l

\* What filterSamples knows in the i-th sample when it has seen the conditions D of
\* it.  The intervals of the conditions of the sample before that it has not seen
\* again end there; ...
LastKnown(w, acc, i, D) ==
  /\ \A c : c \in DOMAIN acc.last <=> Has(w, i - 1, c)
  /\ \A c \in DOMAIN acc.last : c \notin D =>
       \E b \in 1 .. Len(w) : Lasts(w, c, b, i - 1) /\ acc.out[acc.last[c]] = Run(w, c, b, i - 1)
\* ... those of D go up to this sample; ...
NextKnown(w, acc, i, D) ==
  /\ DOMAIN acc.next = D
  /\ \A c \in D : \E b \in 1 .. Len(w) : Lasts(w, c, b, i) /\ acc.out[acc.next[c]] = Run(w, c, b, i)
\* ... all other intervals are runs that are over; ...
OthersOver(w, acc, i, D) ==
  \A p \in 1 .. Len(acc.out) :
    \/ \E c \in DOMAIN acc.last : c \notin D /\ acc.last[c] = p
    \/ \E c \in D : acc.next[c] = p
    \/ \E c : \E b, e \in 1 .. Len(w) : e < i - 1 /\ IsRun(w, c, b, e) /\ acc.out[p] = Run(w, c, b, e)
\* ... no such run is missing; ...
NoneMissing(w, out, i) ==
  \A c : \A b, e \in 1 .. Len(w) : IsRun(w, c, b, e) /\ e < i - 1 => Occurs(out, Run(w, c, b, e))
\* ... no two intervals of a condition begin together; ...
NoneTwice(out) ==
  \A p, q \in 1 .. Len(out) : out[p].cond = out[q].cond /\ out[p].from = out[q].from => p = q
\* ... and each began with a sample, with this one only if it is of D.
Begun(w, out, i, D) ==
  \A p \in 1 .. Len(out) : \E b \in 1 .. Len(w) : b <= i /\ out[p].from = w[b].at /\ (b = i => out[p].cond \in D)

RunsKnown(w, acc, i, D) ==
  /\ LastKnown(w, acc, i, D) /\ NextKnown(w, acc, i, D) /\ OthersOver(w, acc, i, D)
  /\ NoneMissing(w, acc.out, i) /\ NoneTwice(acc.out) /\ ByBeginning(acc.out) /\ Begun(w, acc.out, i, D)

\* Different samples have different times.
LEMMA SampleTimes ==
  ASSUME NEW C, NEW T, NEW w, ProperSamples(w, C, T)
  PROVE  /\ Len(w) \in Nat
         /\ \A i \in 1 .. Len(w) : w[i] \in [at : T, conds : Seq(C)] /\ w[i].at \in Nat
         /\ \A i, j \in 1 .. Len(w) : w[i].at = w[j].at => i = j
         /\ \A i, j \in 1 .. Len(w) : i <= j => w[i].at <= w[j].at
<1> DEFINE B == [at : T, conds : Seq(C)]
<1>1. w \in Seq(B) /\ T \subseteq Nat
  BY DEF ProperSamples
<1>2. \A s \in B : s.at \in T
  OBVIOUS
<1> HIDE DEF B
<1>3. Len(w) \in Nat /\ \A i \in 1 .. Len(w) : w[i] \in B
  BY <1>1, LenProperties, ElementOfSeq
<1>4. \A i \in 1 .. Len(w) : w[i].at \in Nat
  BY <1>1, <1>2, <1>3
<1>5. \A i, j \in 1 .. Len(w) : i < j => w[i].at < w[j].at
  BY DEF ProperSamples
<1>6. ASSUME NEW i \in 1 .. Len(w), NEW j \in 1 .. Len(w), w[i].at = w[j].at PROVE i = j
  <2>1. i < j \/ j < i \/ i = j
    BY <1>3
  <2>2. ~(w[i].at < w[j].at) /\ ~(w[j].at < w[i].at)
    BY <1>4, <1>6
  <2> QED BY <1>5, <2>1, <2>2
<1>7. ASSUME NEW i \in 1 .. Len(w), NEW j \in 1 .. Len(w), i <= j PROVE w[i].at <= w[j].at
  <2>1. i < j \/ i = j
    BY <1>3, <1>7
  <2> QED BY <1>4, <1>5, <2>1
<1> QED BY <1>3, <1>4, <1>6, <1>7 DEF B

\* A condition of the sample before goes on, or one begins.
LEMMA LastsOn ==
  ASSUME NEW w, NEW c, NEW i \in Nat, Has(w, i, c)
  PROVE  /\ \A b \in Nat : Lasts(w, c, b, i - 1) => Lasts(w, c, b, i)
         /\ ~Has(w, i - 1, c) => i \in 1 .. Len(w) /\ Lasts(w, c, i, i)
<1>1. ASSUME NEW b \in Nat, Lasts(w, c, b, i - 1) PROVE Lasts(w, c, b, i)
  <2>1. b \in 1 .. i /\ \A k \in b .. i : k \in b .. i - 1 \/ k = i
    BY <1>1 DEF Lasts
  <2> QED BY <1>1, <2>1 DEF Lasts
<1>2. ASSUME ~Has(w, i - 1, c) PROVE i \in 1 .. Len(w) /\ Lasts(w, c, i, i)
  <2>1. i \in 1 .. Len(w) /\ i \in 1 .. i /\ \A k \in i .. i : k = i
    BY DEF Has
  <2> QED BY <1>2, <2>1 DEF Lasts
<1> QED BY <1>1, <1>2

\* The interval of a condition that the sample before had is extended.
LEMMA RunExtended ==
  ASSUME NEW C, NEW T, NEW w, ProperSamples(w, C, T), NEW i \in 1 .. Len(w), NEW D,
         NEW acc \in Accumulated(C, T), RunsKnown(w, acc, i, D),
         NEW c, Has(w, i, c), c \notin D, c \in DOMAIN acc.last
  PROVE  RunsKnown(w, SampleCondition(acc, w[i].at, c), i, D \cup {c})
<1> DEFINE I == Intervals(C, T)
           n == Len(acc.out)
           k == acc.last[c]
           new == SampleCondition(acc, w[i].at, c)
           at == w[i].at
<1>1. /\ acc.out \in Seq(I) /\ k \in 1 .. n
      /\ acc \in [last : Marks(C), next : Marks(C), out : Seq(I)]
  BY DEF Accumulated
<1>2. Len(w) \in Nat /\ n \in Nat
  BY <1>1, LenProperties, SampleTimes
<1>3. PICK b \in 1 .. Len(w) : Lasts(w, c, b, i - 1) /\ acc.out[k] = Run(w, c, b, i - 1)
  BY DEF RunsKnown, LastKnown
<1>4. Lasts(w, c, b, i) /\ i - 1 \in 1 .. Len(w)
  <2>1. b \in Nat /\ i \in Nat
    BY <1>2
  <2>2. i - 1 \in 1 .. Len(w)
    BY <1>2, <1>3 DEF Lasts
  <2> QED BY <1>3, <2>1, <2>2, LastsOn
<1>5. /\ new.last = acc.last
      /\ DOMAIN new.next = D \cup {c} /\ new.next[c] = k /\ \A d \in D : new.next[d] = acc.next[d]
      /\ Len(new.out) = n /\ new.out[k] = Run(w, c, b, i)
      /\ \A p \in 1 .. n : p # k => new.out[p] = acc.out[p]
  <2> DEFINE out == [acc.out EXCEPT ![k].to = at]
             next == [d \in DOMAIN acc.next \cup {c} |-> IF d = c THEN k ELSE acc.next[d]]
  <2>1. new = [last |-> acc.last, next |-> next, out |-> out]
    <3> HIDE DEF I
    <3> QED BY <1>1 DEF SampleCondition
  <2>2. DOMAIN next = D \cup {c} /\ next[c] = k /\ \A d \in D : next[d] = acc.next[d]
    BY DEF RunsKnown, NextKnown
  <2>3. Len(out) = n /\ out[k] = [acc.out[k] EXCEPT !.to = at] /\ \A p \in 1 .. n : p # k => out[p] = acc.out[p]
    <3> HIDE DEF I, k, at
    <3> QED BY <1>1, <1>2
  <2>4. [acc.out[k] EXCEPT !.to = at] = Run(w, c, b, i)
    <3>1. acc.out[k] = [cond |-> c, from |-> w[b].at, to |-> w[i - 1].at]
      BY <1>3 DEF Run
    <3> QED BY <3>1 DEF Run
  <2> HIDE DEF out, next, new
  <2> QED BY <2>1, <2>2, <2>3, <2>4
<1>6. \A d, a, e : Run(w, d, a, e).cond = d /\ Run(w, d, a, e).from = w[a].at /\ Run(w, d, a, e).to = w[e].at
  BY DEF Run
<1>7. /\ \A d \in DOMAIN acc.last : acc.last[d] \in 1 .. n
      /\ \A d \in DOMAIN acc.next : acc.next[d] \in 1 .. n
  BY DEF Accumulated
<1> HIDE DEF new, n, k, I
<1>8. LastKnown(w, new, i, D \cup {c})
  <2>1. ASSUME NEW d \in DOMAIN acc.last, d \notin D \cup {c}
        PROVE  \E a \in 1 .. Len(w) : Lasts(w, d, a, i - 1) /\ new.out[new.last[d]] = Run(w, d, a, i - 1)
    <3>1. PICK a \in 1 .. Len(w) : Lasts(w, d, a, i - 1) /\ acc.out[acc.last[d]] = Run(w, d, a, i - 1)
      BY <2>1 DEF RunsKnown, LastKnown
    <3>2. acc.last[d] # k
      BY <1>3, <1>6, <2>1, <3>1
    <3> QED BY <1>5, <1>7, <3>1, <3>2
  <2> QED BY <1>5, <2>1 DEF RunsKnown, LastKnown
<1>9. NextKnown(w, new, i, D \cup {c})
  <2>1. ASSUME NEW d \in D
        PROVE  \E a \in 1 .. Len(w) : Lasts(w, d, a, i) /\ new.out[new.next[d]] = Run(w, d, a, i)
    <3>1. PICK a \in 1 .. Len(w) : Lasts(w, d, a, i) /\ acc.out[acc.next[d]] = Run(w, d, a, i)
      BY DEF RunsKnown, NextKnown
    <3>2. acc.next[d] # k /\ acc.next[d] \in 1 .. n
      BY <1>3, <1>6, <1>7, <3>1 DEF RunsKnown, NextKnown
    <3> QED BY <1>5, <3>1, <3>2
  <2> QED BY <1>4, <1>5, <2>1 DEF NextKnown
<1>10. OthersOver(w, new, i, D \cup {c})
  <2>1. ASSUME NEW p \in 1 .. n, p # k
        PROVE  \/ \E d \in DOMAIN acc.last : d \notin D \cup {c} /\ acc.last[d] = p
               \/ \E d \in D : new.next[d] = p
               \/ \E d : \E a, e \in 1 .. Len(w) : e < i - 1 /\ IsRun(w, d, a, e) /\ new.out[p] = Run(w, d, a, e)
    <3>1. \/ \E d \in DOMAIN acc.last : d \notin D /\ acc.last[d] = p
          \/ \E d \in D : acc.next[d] = p
          \/ \E d : \E a, e \in 1 .. Len(w) : e < i - 1 /\ IsRun(w, d, a, e) /\ acc.out[p] = Run(w, d, a, e)
      BY DEF RunsKnown, OthersOver, n
    <3> QED BY <1>5, <2>1, <3>1 DEF k
  <2> QED BY <1>5, <2>1 DEF OthersOver
<1>11. NoneMissing(w, new.out, i)
  <2>1. ASSUME NEW d, NEW a \in 1 .. Len(w), NEW e \in 1 .. Len(w), IsRun(w, d, a, e), e < i - 1
        PROVE  Occurs(new.out, Run(w, d, a, e))
    <3>1. PICK p \in 1 .. n : acc.out[p] = Run(w, d, a, e)
      BY <2>1 DEF RunsKnown, NoneMissing, Occurs, n
    <3>2. p # k
      <4>1. ASSUME p = k PROVE FALSE
        <5>1. w[e].at = w[i - 1].at
          BY <1>3, <1>6, <3>1, <4>1
        <5>2. e = i - 1
          BY <1>4, <5>1, SampleTimes
        <5> QED BY <1>2, <2>1, <5>2
      <4> QED BY <4>1
    <3> QED BY <1>5, <3>1, <3>2 DEF Occurs
  <2> QED BY <2>1 DEF NoneMissing
<1>12. \A p \in 1 .. n : new.out[p].cond = acc.out[p].cond /\ new.out[p].from = acc.out[p].from
  BY <1>3, <1>5, <1>6
<1>13. NoneTwice(new.out) /\ ByBeginning(new.out)
  <2>1. NoneTwice(acc.out) /\ ByBeginning(acc.out)
    BY DEF RunsKnown
  <2> QED BY <1>5, <1>12, <2>1 DEF NoneTwice, ByBeginning, n
<1>14. Begun(w, new.out, i, D \cup {c})
  <2>1. Begun(w, acc.out, i, D)
    BY DEF RunsKnown
  <2> QED BY <1>5, <1>12, <2>1 DEF Begun, n
<1> QED BY <1>8, <1>9, <1>10, <1>11, <1>13, <1>14 DEF RunsKnown, new

\* An interval is opened for a condition that the sample before did not have.
LEMMA RunOpened ==
  ASSUME NEW C, NEW T, NEW w, ProperSamples(w, C, T), NEW i \in 1 .. Len(w), NEW D,
         NEW acc \in Accumulated(C, T), RunsKnown(w, acc, i, D),
         NEW c, Has(w, i, c), c \notin D, c \notin DOMAIN acc.last, c \in C
  PROVE  RunsKnown(w, SampleCondition(acc, w[i].at, c), i, D \cup {c})
<1> DEFINE I == Intervals(C, T)
           n == Len(acc.out)
           new == SampleCondition(acc, w[i].at, c)
           at == w[i].at
           opened == [cond |-> c, from |-> at, to |-> at]
<1>1. acc.out \in Seq(I) /\ acc \in [last : Marks(C), next : Marks(C), out : Seq(I)]
  BY DEF Accumulated
<1>2. Len(w) \in Nat /\ n \in Nat /\ at \in T
  BY <1>1, LenProperties, SampleTimes
<1>3. Lasts(w, c, i, i)
  <2>1. ~Has(w, i - 1, c) /\ i \in Nat
    BY <1>2 DEF RunsKnown, LastKnown
  <2> QED BY <2>1, LastsOn
<1>4. /\ new.last = acc.last
      /\ DOMAIN new.next = D \cup {c} /\ new.next[c] = n + 1 /\ \A d \in D : new.next[d] = acc.next[d]
      /\ Len(new.out) = n + 1 /\ new.out[n + 1] = Run(w, c, i, i)
      /\ \A p \in 1 .. n : new.out[p] = acc.out[p]
  <2> DEFINE out == Append(acc.out, opened)
             next == [d \in DOMAIN acc.next \cup {c} |-> IF d = c THEN n + 1 ELSE acc.next[d]]
  <2>1. new = [last |-> acc.last, next |-> next, out |-> out]
    <3> HIDE DEF I
    <3> QED BY <1>1 DEF SampleCondition
  <2>2. DOMAIN next = D \cup {c} /\ next[c] = n + 1 /\ \A d \in D : next[d] = acc.next[d]
    BY DEF RunsKnown, NextKnown
  <2>3. opened \in I /\ opened = Run(w, c, i, i)
    BY <1>2 DEF Intervals, Run
  <2>4. Len(out) = n + 1 /\ out[n + 1] = opened /\ \A p \in 1 .. n : out[p] = acc.out[p]
    <3> HIDE DEF I, opened
    <3> QED BY <1>1, <2>3, AppendProperties
  <2> HIDE DEF out, next, new, opened
  <2> QED BY <2>1, <2>2, <2>3, <2>4
<1>5. Run(w, c, i, i).cond = c /\ Run(w, c, i, i).from = at
  BY DEF Run
<1>6. /\ \A d \in DOMAIN acc.last : acc.last[d] \in 1 .. n
      /\ \A d \in DOMAIN acc.next : acc.next[d] \in 1 .. n
  BY DEF Accumulated
<1>7. \A p : p \in 1 .. n + 1 <=> p \in 1 .. n \/ p = n + 1
  BY <1>2
<1>8. /\ LastKnown(w, acc, i, D) /\ NextKnown(w, acc, i, D) /\ OthersOver(w, acc, i, D)
      /\ NoneMissing(w, acc.out, i) /\ NoneTwice(acc.out) /\ ByBeginning(acc.out) /\ Begun(w, acc.out, i, D)
  BY DEF RunsKnown
<1> HIDE DEF new, I, n, at, opened
<1>9. LastKnown(w, new, i, D \cup {c})
  BY <1>4, <1>6, <1>8 DEF LastKnown
<1>10. NextKnown(w, new, i, D \cup {c})
  <2>1. ASSUME NEW d \in D
        PROVE  \E a \in 1 .. Len(w) : Lasts(w, d, a, i) /\ new.out[new.next[d]] = Run(w, d, a, i)
    BY <1>4, <1>6, <1>8 DEF NextKnown
  <2> QED BY <1>3, <1>4, <2>1 DEF NextKnown
<1>11. OthersOver(w, new, i, D \cup {c})
  <2>1. ASSUME NEW p \in 1 .. n
        PROVE  \/ \E d \in DOMAIN new.last : d \notin D \cup {c} /\ new.last[d] = p
               \/ \E d \in D \cup {c} : new.next[d] = p
               \/ \E d : \E a, e \in 1 .. Len(w) : e < i - 1 /\ IsRun(w, d, a, e) /\ new.out[p] = Run(w, d, a, e)
    <3>1. \/ \E d \in DOMAIN acc.last : d \notin D /\ acc.last[d] = p
          \/ \E d \in D : acc.next[d] = p
          \/ \E d : \E a, e \in 1 .. Len(w) : e < i - 1 /\ IsRun(w, d, a, e) /\ acc.out[p] = Run(w, d, a, e)
      BY <1>8 DEF OthersOver, n
    <3> QED BY <1>4, <3>1
  <2> QED BY <1>4, <1>7, <2>1 DEF OthersOver
<1>12. NoneMissing(w, new.out, i)
  BY <1>4, <1>7, <1>8 DEF NoneMissing, Occurs, n
<1>13. ASSUME NEW p \in 1 .. n
       PROVE  /\ new.out[p].from <= at
              /\ ~(new.out[p].cond = c /\ new.out[p].from = at)
  <2>1. PICK b \in 1 .. Len(w) : b <= i /\ acc.out[p].from = w[b].at /\ (b = i => acc.out[p].cond \in D)
    BY <1>8 DEF Begun, n
  <2>2. w[b].at <= at
    BY <2>1, SampleTimes DEF at
  <2>3. w[b].at = at => b = i
    BY SampleTimes DEF at
  <2> QED BY <1>4, <2>1, <2>2, <2>3
<1>14. NoneTwice(new.out)
  <2>1. ASSUME NEW p \in 1 .. n + 1, NEW q \in 1 .. n + 1,
               new.out[p].cond = new.out[q].cond, new.out[p].from = new.out[q].from
        PROVE  p = q
    <3>1. CASE p \in 1 .. n /\ q \in 1 .. n
      BY <1>4, <1>8, <2>1, <3>1 DEF NoneTwice, n
    <3>2. CASE p \in 1 .. n /\ q = n + 1
      BY <1>4, <1>5, <1>13, <2>1, <3>2
    <3>3. CASE p = n + 1 /\ q \in 1 .. n
      BY <1>4, <1>5, <1>13, <2>1, <3>3
    <3> QED BY <1>7, <3>1, <3>2, <3>3
  <2> QED BY <1>4, <2>1 DEF NoneTwice
<1>15. ByBeginning(new.out)
  <2>1. ASSUME NEW p \in 1 .. n + 1, NEW q \in 1 .. n + 1, p < q PROVE new.out[p].from <= new.out[q].from
    <3>1. p \in 1 .. n
      BY <1>2, <2>1
    <3>2. CASE q \in 1 .. n
      BY <1>4, <1>8, <2>1, <3>1, <3>2 DEF ByBeginning, n
    <3>3. CASE q = n + 1
      BY <1>4, <1>5, <1>13, <3>1, <3>3
    <3> QED BY <1>7, <3>2, <3>3
  <2> QED BY <1>4, <2>1 DEF ByBeginning
<1>16. Begun(w, new.out, i, D \cup {c})
  <2>1. ASSUME NEW p \in 1 .. n
        PROVE  \E b \in 1 .. Len(w) : b <= i /\ new.out[p].from = w[b].at /\ (b = i => new.out[p].cond \in D \cup {c})
    BY <1>4, <1>8 DEF Begun, n
  <2>2. i <= i /\ new.out[n + 1].from = w[i].at /\ new.out[n + 1].cond \in D \cup {c}
    BY <1>2, <1>4, <1>5 DEF at
  <2> QED BY <1>4, <1>7, <2>1, <2>2 DEF Begun
<1> QED BY <1>9, <1>10, <1>11, <1>12, <1>14, <1>15, <1>16 DEF RunsKnown, new

\* The conditions of the sample that were seen after j of them.
SeenConds(w, i, j) == {w[i].conds[k] : k \in 1 .. j}

\* All conditions of a sample.
LEMMA ConditionsKnown ==
  ASSUME NEW C, NEW T, NEW w, ProperSamples(w, C, T), NEW i \in 1 .. Len(w),
         NEW acc \in Accumulated(C, T), RunsKnown(w, acc, i, {})
  PROVE  RunsKnown(w, SampleConditions(acc, w[i]), i, Range(w[i].conds))
<1> DEFINE cs == w[i].conds
           m == Len(cs)
<1>1. w[i] \in [at : T, conds : Seq(C)]
  BY SampleTimes
<1>2. cs \in Seq(C)
  BY <1>1
<1>3. m \in Nat /\ Range(cs) = {cs[k] : k \in 1 .. m} /\ \A k \in 1 .. m : cs[k] \in C
  <2>1. m \in Nat /\ DOMAIN cs = 1 .. m /\ \A k \in 1 .. m : cs[k] \in C
    BY <1>2, LenProperties, ElementOfSeq
  <2> QED BY <2>1 DEF Range
<1>4. PICK f : /\ SampleConditions(acc, w[i]) = f[m] /\ f[0] = acc
               /\ \A k \in 0 .. m : f[k] \in Accumulated(C, T)
               /\ \A k \in 1 .. m : f[k] = SampleCondition(f[k - 1], w[i].at, cs[k])
  BY <1>1, ConditionsSteps
<1>5. \A k, l \in 1 .. m : cs[k] = cs[l] => k = l
  BY DEF ProperSamples
<1> DEFINE U == {j \in 0 .. m : RunsKnown(w, f[j], i, SeenConds(w, i, j))}
<1>6. 0 \in U
  <2>1. SeenConds(w, i, 0) = {}
    BY DEF SeenConds
  <2>2. 0 \in 0 .. m
    BY <1>3
  <2>3. RunsKnown(w, f[0], i, SeenConds(w, i, 0))
    BY <1>4, <2>1
  <2> QED BY <2>2, <2>3
<1>7. ASSUME NEW j \in 1 .. m, j - 1 \in U PROVE j \in U
  <2> DEFINE D == SeenConds(w, i, j - 1)
             c == cs[j]
  <2>1. j \in 0 .. m /\ j - 1 \in 0 .. m /\ \A k : k \in 1 .. j <=> k \in 1 .. j - 1 \/ k = j
    BY <1>3
  <2>2. SeenConds(w, i, j) = D \cup {c}
    BY <2>1 DEF SeenConds
  <2>3. c \notin D
    <3>1. \A k \in 1 .. j - 1 : k \in 1 .. m /\ k # j
      BY <1>3
    <3> QED BY <1>5, <3>1 DEF SeenConds
  <2>4. Has(w, i, c) /\ c \in C
    BY <1>3 DEF Has
  <2>5. f[j - 1] \in Accumulated(C, T) /\ RunsKnown(w, f[j - 1], i, D) /\ f[j] = SampleCondition(f[j - 1], w[i].at, c)
    BY <1>4, <1>7, <2>1
  <2> HIDE DEF D, c
  <2>6. RunsKnown(w, f[j], i, D \cup {c})
    <3> DEFINE before == f[j - 1]
    <3>1. before \in Accumulated(C, T) /\ RunsKnown(w, before, i, D) /\ f[j] = SampleCondition(before, w[i].at, c)
      BY <2>5
    <3> HIDE DEF before, U
    <3>2. CASE c \in DOMAIN before.last
      <4>1. RunsKnown(w, SampleCondition(before, w[i].at, c), i, D \cup {c})
        BY <2>3, <2>4, <3>1, <3>2, RunExtended
      <4> QED BY <3>1, <4>1
    <3>3. CASE c \notin DOMAIN before.last
      <4>1. RunsKnown(w, SampleCondition(before, w[i].at, c), i, D \cup {c})
        BY <2>3, <2>4, <3>1, <3>3, RunOpened
      <4> QED BY <3>1, <4>1
    <3> QED BY <3>2, <3>3
  <2> QED BY <2>1, <2>2, <2>6
<1>8. m \in U
  <2> HIDE DEF U
  <2>1. \A j \in 0 .. m : j \in U
    BY <1>3, <1>6, <1>7, BoundedInduction
  <2> QED BY <1>3, <2>1
<1>9. SeenConds(w, i, m) = Range(cs)
  BY <1>3 DEF SeenConds
<1> QED BY <1>4, <1>8, <1>9

\* A run that lasts to the same sample begins with the same.
LEMMA OneBeginning ==
  ASSUME NEW w, NEW c, NEW a \in Nat, NEW b \in Nat, NEW e \in Nat, Lasts(w, c, a, e), Lasts(w, c, b, e)
  PROVE  a = b
<1>1. ASSUME NEW x \in Nat, NEW y \in Nat, Lasts(w, c, x, e), Lasts(w, c, y, e), x < y PROVE FALSE
  <2>1. y - 1 \in x .. e
    BY <1>1 DEF Lasts
  <2> QED BY <1>1, <2>1 DEF Lasts
<1> QED BY <1>1

\* The end of a sample: what was not seen in it is over.
LEMMA SampleKnown ==
  ASSUME NEW C, NEW T, NEW w, ProperSamples(w, C, T), NEW i \in 1 .. Len(w),
         NEW acc \in Accumulated(C, T), RunsKnown(w, acc, i, {})
  PROVE  RunsKnown(w, SampleStep(acc, w[i]), i + 1, {})
<1> DEFINE done == SampleConditions(acc, w[i])
           D == Range(w[i].conds)
           new == SampleStep(acc, w[i])
           n == Len(w)
           none == << >>
<1>1. RunsKnown(w, done, i, D)
  BY ConditionsKnown
<1>2. done \in Accumulated(C, T)
  BY SampleTimes, ConditionsType
<1>3. new = [done EXCEPT !.last = done.next, !.next = none]
  BY DEF SampleStep
<1>4. DOMAIN none = {}
  BY NoMarks
<1>5. n \in Nat /\ i \in Nat /\ (i + 1) - 1 = i
  BY SampleTimes
<1> HIDE DEF done, none
<1>6. new.last = done.next /\ DOMAIN new.next = {} /\ new.out = done.out
  <2>1. done \in [last : Marks(C), next : Marks(C), out : Seq(Intervals(C, T))]
    BY <1>2 DEF Accumulated
  <2> HIDE DEF new
  <2> QED BY <1>3, <1>4, <2>1
<1>7. /\ LastKnown(w, done, i, D) /\ NextKnown(w, done, i, D) /\ OthersOver(w, done, i, D)
      /\ NoneMissing(w, done.out, i) /\ NoneTwice(done.out) /\ ByBeginning(done.out) /\ Begun(w, done.out, i, D)
  BY <1>1 DEF RunsKnown
<1>8. \A c : c \in D <=> Has(w, i, c)
  BY DEF Has
<1> HIDE DEF new, D, n
<1>9. LastKnown(w, new, i + 1, {})
  <2>1. \A c : c \in DOMAIN new.last <=> Has(w, i, c)
    BY <1>6, <1>7, <1>8 DEF NextKnown
  <2>2. \A c \in DOMAIN new.last :
          \E b \in 1 .. Len(w) : Lasts(w, c, b, i) /\ new.out[new.last[c]] = Run(w, c, b, i)
    BY <1>6, <1>7 DEF NextKnown
  <2> QED BY <1>5, <2>1, <2>2 DEF LastKnown
<1>10. NextKnown(w, new, i + 1, {})
  BY <1>6 DEF NextKnown
<1>11. ASSUME NEW c \in DOMAIN done.last, c \notin D
       PROVE  \E b \in 1 .. Len(w) : /\ i - 1 \in 1 .. Len(w) /\ IsRun(w, c, b, i - 1)
                                     /\ done.out[done.last[c]] = Run(w, c, b, i - 1)
  <2>1. PICK b \in 1 .. Len(w) : Lasts(w, c, b, i - 1) /\ done.out[done.last[c]] = Run(w, c, b, i - 1)
    BY <1>7, <1>11 DEF LastKnown
  <2>2. i - 1 \in 1 .. Len(w) /\ (i - 1) + 1 = i
    BY <1>5, <2>1 DEF Lasts
  <2>3. IsRun(w, c, b, i - 1)
    BY <1>8, <1>11, <2>1, <2>2 DEF IsRun
  <2> QED BY <2>1, <2>2, <2>3
<1>12. OthersOver(w, new, i + 1, {})
  <2>1. ASSUME NEW p \in 1 .. Len(done.out)
        PROVE  \/ \E c \in DOMAIN new.last : new.last[c] = p
               \/ \E c : \E b, e \in 1 .. Len(w) : e < i /\ IsRun(w, c, b, e) /\ done.out[p] = Run(w, c, b, e)
    <3>1. CASE \E c \in DOMAIN done.last : c \notin D /\ done.last[c] = p
      <4>1. PICK c \in DOMAIN done.last : c \notin D /\ done.last[c] = p
        BY <3>1
      <4>2. PICK b \in 1 .. Len(w) : /\ i - 1 \in 1 .. Len(w) /\ IsRun(w, c, b, i - 1)
                                     /\ done.out[p] = Run(w, c, b, i - 1)
        BY <1>11, <4>1
      <4>3. i - 1 < i
        BY <1>5
      <4> QED BY <4>2, <4>3
    <3>2. CASE \E c \in D : done.next[c] = p
      BY <1>6, <1>7, <3>2 DEF NextKnown
    <3>3. CASE \E c : \E b, e \in 1 .. Len(w) : e < i - 1 /\ IsRun(w, c, b, e) /\ done.out[p] = Run(w, c, b, e)
      <4>1. PICK c : \E b, e \in 1 .. Len(w) : e < i - 1 /\ IsRun(w, c, b, e) /\ done.out[p] = Run(w, c, b, e)
        BY <3>3
      <4>2. PICK b \in 1 .. Len(w), e \in 1 .. Len(w) : e < i - 1 /\ IsRun(w, c, b, e) /\ done.out[p] = Run(w, c, b, e)
        BY <4>1
      <4>3. e < i
        BY <1>5, <4>2
      <4> QED BY <4>2, <4>3
    <3> QED BY <1>7, <3>1, <3>2, <3>3 DEF OthersOver
  <2> QED BY <1>5, <1>6, <2>1 DEF OthersOver
<1>13. NoneMissing(w, new.out, i + 1)
  <2>1. ASSUME NEW c, NEW b \in 1 .. Len(w), NEW e \in 1 .. Len(w), IsRun(w, c, b, e), e < i
        PROVE  Occurs(done.out, Run(w, c, b, e))
    <3>1. CASE e < i - 1
      BY <1>7, <2>1, <3>1 DEF NoneMissing
    <3>2. CASE ~(e < i - 1)
      <4>1. e = i - 1 /\ e + 1 = i /\ e \in b .. e
        BY <1>5, <2>1, <3>2 DEF IsRun, Lasts
      <4>2. Has(w, i - 1, c) /\ ~Has(w, i, c)
        BY <2>1, <4>1 DEF IsRun, Lasts
      <4>3. c \in DOMAIN done.last /\ c \notin D
        BY <1>7, <1>8, <4>2 DEF LastKnown
      <4>4. PICK a \in 1 .. Len(w) : IsRun(w, c, a, e) /\ done.out[done.last[c]] = Run(w, c, a, e)
        BY <1>11, <4>1, <4>3
      <4>5. a = b
        BY <2>1, <4>4, <1>5, OneBeginning DEF IsRun
      <4>6. done.last[c] \in 1 .. Len(done.out)
        BY <1>2, <4>3 DEF Accumulated
      <4> QED BY <4>4, <4>5, <4>6 DEF Occurs
    <3> QED BY <3>1, <3>2
  <2> QED BY <1>5, <1>6, <2>1 DEF NoneMissing
<1>14. Begun(w, new.out, i + 1, {})
  <2>1. ASSUME NEW p \in 1 .. Len(done.out)
        PROVE  \E b \in 1 .. Len(w) : b <= i + 1 /\ done.out[p].from = w[b].at /\ b # i + 1
    <3>1. PICK b \in 1 .. Len(w) : b <= i /\ done.out[p].from = w[b].at
      BY <1>7 DEF Begun
    <3>2. b <= i + 1 /\ b # i + 1
      BY <1>5, <3>1
    <3> QED BY <3>1, <3>2
  <2> QED BY <1>6, <2>1 DEF Begun
<1>15. NoneTwice(new.out) /\ ByBeginning(new.out)
  BY <1>6, <1>7
<1> QED BY <1>9, <1>10, <1>12, <1>13, <1>14, <1>15 DEF RunsKnown, new

\* Before the first sample there is nothing.
LEMMA NothingKnown ==
  ASSUME NEW w
  PROVE  RunsKnown(w, NoIntervals, 1, {})
<1> DEFINE none == << >>
<1>1. NoIntervals = [last |-> none, next |-> none, out |-> none] /\ Len(none) = 0 /\ DOMAIN none = {}
  BY NoMarks DEF NoIntervals
<1> HIDE DEF none
<1>2. NoIntervals.last = none /\ NoIntervals.next = none /\ NoIntervals.out = none
  BY <1>1
<1>3. \A c : ~Has(w, 1 - 1, c)
  BY DEF Has
<1>4. LastKnown(w, NoIntervals, 1, {}) /\ NextKnown(w, NoIntervals, 1, {})
  BY <1>1, <1>2, <1>3 DEF LastKnown, NextKnown
<1>5. OthersOver(w, NoIntervals, 1, {}) /\ NoneTwice(none) /\ ByBeginning(none) /\ Begun(w, none, 1, {})
  BY <1>1, <1>2 DEF OthersOver, NoneTwice, ByBeginning, Begun
<1>6. NoneMissing(w, none, 1)
  <2>1. ASSUME NEW e \in 1 .. Len(w), e < 1 - 1 PROVE FALSE
    BY <2>1
  <2> QED BY <2>1 DEF NoneMissing
<1> QED BY <1>2, <1>4, <1>5, <1>6 DEF RunsKnown

\* The intervals are the runs, in the order of their beginning and none twice.
AreRuns(out, w) ==
  /\ \A x : Occurs(out, x) <=> \E c : \E b, e \in 1 .. Len(w) : IsRun(w, c, b, e) /\ x = Run(w, c, b, e)
  /\ NoneTwice(out) /\ ByBeginning(out)

\* filterSamples finds the runs of its window.
LEMMA WindowRuns ==
  ASSUME NEW C, NEW T, NEW s, NEW from, NEW to, ProperSamples(Window(s, from, to), C, T)
  PROVE  AreRuns(filterSamples(s, from, to), Window(s, from, to))
<1> DEFINE w == Window(s, from, to)
           n == Len(w)
           out == filterSamples(s, from, to)
<1>1. ProperSamples(w, C, T) /\ w \in Seq([at : T, conds : Seq(C)])
  BY DEF ProperSamples
<1>2. PICK f : FiltersSamples(f, w, out, Accumulated(C, T))
  BY <1>1, SamplesSteps
<1> HIDE DEF w, out
<1>3. n \in Nat
  BY <1>1, SampleTimes
<1> DEFINE U == {i \in 0 .. n : RunsKnown(w, f[i], i + 1, {})}
<1>4. 0 \in U
  <2>1. 0 \in 0 .. n /\ 0 + 1 = 1
    BY <1>3
  <2> QED BY <1>2, <2>1, NothingKnown DEF FiltersSamples
<1>5. ASSUME NEW i \in 1 .. n, i - 1 \in U PROVE i \in U
  <2>1. i \in 0 .. n /\ i - 1 \in 0 .. n /\ (i - 1) + 1 = i
    BY <1>3
  <2>2. f[i - 1] \in Accumulated(C, T) /\ RunsKnown(w, f[i - 1], i, {}) /\ f[i] = SampleStep(f[i - 1], w[i])
    BY <1>2, <1>5, <2>1 DEF FiltersSamples
  <2>3. RunsKnown(w, f[i], i + 1, {})
    BY <1>1, <2>2, SampleKnown
  <2> QED BY <2>1, <2>3
<1>6. RunsKnown(w, f[n], n + 1, {})
  <2>1. n \in U
    <3> HIDE DEF U
    <3>1. \A i \in 0 .. n : i \in U
      BY <1>3, <1>4, <1>5, BoundedInduction
    <3> QED BY <1>3, <3>1
  <2> QED BY <2>1
<1>7. f[n] \in Accumulated(C, T)
  BY <1>2, <1>3 DEF FiltersSamples
<1> DEFINE acc == f[n]
<1>8. /\ LastKnown(w, acc, n + 1, {}) /\ NextKnown(w, acc, n + 1, {}) /\ OthersOver(w, acc, n + 1, {})
      /\ NoneMissing(w, out, n + 1) /\ NoneTwice(out) /\ ByBeginning(out) /\ out = acc.out
  BY <1>2, <1>6 DEF RunsKnown, FiltersSamples
<1>9. (n + 1) - 1 = n /\ \A c : ~Has(w, n + 1, c)
  BY <1>3 DEF Has
<1>10. \A c \in DOMAIN acc.last : acc.last[c] \in 1 .. Len(out)
  BY <1>7, <1>8 DEF Accumulated
<1> HIDE DEF acc, U
<1>11. ASSUME NEW c \in DOMAIN acc.last
       PROVE  \E b \in 1 .. n : n \in 1 .. n /\ IsRun(w, c, b, n) /\ out[acc.last[c]] = Run(w, c, b, n)
  <2>1. PICK b \in 1 .. n : Lasts(w, c, b, n) /\ out[acc.last[c]] = Run(w, c, b, n)
    BY <1>8, <1>9 DEF LastKnown
  <2>2. n \in 1 .. n
    BY <1>3, <2>1 DEF Lasts
  <2> QED BY <1>9, <2>1, <2>2 DEF IsRun
<1>12. ASSUME NEW p \in 1 .. Len(out)
       PROVE  \E c : \E b, e \in 1 .. n : IsRun(w, c, b, e) /\ out[p] = Run(w, c, b, e)
  <2>1. CASE \E c \in DOMAIN acc.last : acc.last[c] = p
    BY <1>11, <2>1
  <2>2. CASE \E c : \E b, e \in 1 .. n : e < n /\ IsRun(w, c, b, e) /\ out[p] = Run(w, c, b, e)
    BY <2>2
  <2> QED BY <1>8, <1>9, <2>1, <2>2 DEF OthersOver, NextKnown
<1>13. ASSUME NEW c, NEW b \in 1 .. n, NEW e \in 1 .. n, IsRun(w, c, b, e) PROVE Occurs(out, Run(w, c, b, e))
  <2>1. CASE e < n
    BY <1>8, <1>9, <1>13, <2>1 DEF NoneMissing
  <2>2. CASE ~(e < n)
    <3>1. e = n /\ e \in b .. e
      BY <1>3, <1>13, <2>2 DEF IsRun, Lasts
    <3>2. Has(w, n, c)
      BY <1>13, <3>1 DEF IsRun, Lasts
    <3>3. c \in DOMAIN acc.last
      BY <1>8, <1>9, <3>2 DEF LastKnown
    <3>4. PICK a \in 1 .. n : IsRun(w, c, a, n) /\ out[acc.last[c]] = Run(w, c, a, n)
      BY <1>11, <3>3
    <3>5. a = b
      BY <1>3, <1>13, <3>1, <3>4, OneBeginning DEF IsRun
    <3> QED BY <1>10, <3>1, <3>3, <3>4, <3>5 DEF Occurs
  <2> QED BY <2>1, <2>2
<1>14. AreRuns(out, w)
  <2>1. ASSUME NEW x, Occurs(out, x)
        PROVE  \E c : \E b, e \in 1 .. n : IsRun(w, c, b, e) /\ x = Run(w, c, b, e)
    <3>1. PICK p \in 1 .. Len(out) : out[p] = x
      BY <2>1 DEF Occurs
    <3> QED BY <1>12, <3>1
  <2>2. \A x : Occurs(out, x) <=> \E c : \E b, e \in 1 .. n : IsRun(w, c, b, e) /\ x = Run(w, c, b, e)
    BY <1>13, <2>1
  <2> QED BY <1>8, <2>2 DEF AreRuns
<1> QED BY <1>14 DEF w, out

\* The k-th sample of s is in the window and has the condition, and the runs of such
\* samples: what SampleRuns is about.
HasIn(s, from, to, k, c) == k \in 1 .. Len(s) /\ InWindow(s[k].at, from, to) /\ c \in Range(s[k].conds)
IsRunIn(s, from, to, c, i, j) ==
  /\ i <= j /\ \A k \in i .. j : HasIn(s, from, to, k, c)
  /\ ~HasIn(s, from, to, i - 1, c) /\ ~HasIn(s, from, to, j + 1, c)

LEMMA SampleRunsMembers ==
  ASSUME NEW s, Len(s) \in Nat, NEW from, NEW to, NEW x
  PROVE  x \in SampleRuns(s, from, to) <=>
           \E c : \E i, j \in 1 .. Len(s) : IsRunIn(s, from, to, c, i, j) /\ x = Run(s, c, i, j)
<1> DEFINE N == 1 .. Len(s)
           All == UNION {Range(s[k].conds) : k \in N}
           IsRunOf(q) == IsRunIn(s, from, to, q[1], q[2], q[3])
           Of(r) == [cond |-> r[1], from |-> s[r[2]].at, to |-> s[r[3]].at]
<1>1. SampleRuns(s, from, to) = {Of(r) : r \in {q \in All \X N \X N : IsRunOf(q)}}
  BY DEF SampleRuns, IsRunIn, HasIn
<1>2. ASSUME NEW c, NEW i \in N, NEW j \in N, IsRunIn(s, from, to, c, i, j) PROVE c \in All
  <2>1. i \in i .. j
    BY <1>2 DEF IsRunIn
  <2>2. HasIn(s, from, to, i, c)
    BY <1>2, <2>1 DEF IsRunIn
  <2> QED BY <2>2 DEF HasIn
<1> HIDE DEF N, All
<1>3. ASSUME NEW c, NEW i \in N, NEW j \in N, IsRunIn(s, from, to, c, i, j), x = Run(s, c, i, j)
      PROVE  x \in SampleRuns(s, from, to)
  <2> DEFINE r == <<c, i, j>>
  <2>1. r \in All \X N \X N /\ r[1] = c /\ r[2] = i /\ r[3] = j
    BY <1>2, <1>3
  <2>2. IsRunOf(r) /\ x = Of(r)
    BY <1>3, <2>1 DEF Run
  <2> HIDE DEF r, IsRunOf, Of
  <2> QED BY <1>1, <2>1, <2>2
<1>4. ASSUME x \in SampleRuns(s, from, to)
      PROVE  \E c : \E i, j \in N : IsRunIn(s, from, to, c, i, j) /\ x = Run(s, c, i, j)
  <2>1. PICK r \in All \X N \X N : IsRunOf(r) /\ x = Of(r)
    <3> HIDE DEF IsRunOf, Of
    <3> QED BY <1>1, <1>4
  <2>2. r[2] \in N /\ r[3] \in N
    BY <2>1
  <2> QED BY <2>1, <2>2 DEF Run
<1> QED BY <1>3, <1>4 DEF N

\* The queries can search proper samples.
LEMMA ProperTimeline ==
  ASSUME NEW C, NEW T, NEW s, ProperSamples(s, C, T)
  PROVE  Timeline(s) /\ Len(s) \in Nat
<1>1. /\ Len(s) \in Nat
      /\ \A i \in 1 .. Len(s) : s[i].at \in Nat
      /\ \A i, j \in 1 .. Len(s) : i <= j => s[i].at <= s[j].at
  BY SampleTimes
<1>2. \A i, j \in 1 .. Len(s) : i < j => i <= j
  BY <1>1
<1>3. \E S : s \in Seq(S)
  BY DEF ProperSamples
<1> QED BY <1>1, <1>2, <1>3 DEF Timeline

\* A part of proper samples is proper.
LEMMA ProperWindow ==
  ASSUME NEW C, NEW T, NEW s, ProperSamples(s, C, T), NEW from \in Nat, NEW to \in Nat
  PROVE  ProperSamples(Window(s, from, to), C, {n \in T : InWindow(n, from, to)})
<1> DEFINE w == Window(s, from, to)
           V == {n \in T : InWindow(n, from, to)}
           B == [at : V, conds : Seq(C)]
<1>1. Timeline(s)
  BY ProperTimeline
<1>2. /\ Len(w) \in Nat
      /\ \E a \in Nat \ {0} :
           /\ \A k \in 1 .. Len(w) : a + k - 1 \in 1 .. Len(s) /\ w[k] = s[a + k - 1]
           /\ \A i \in 1 .. Len(s) : InWindow(s[i].at, from, to) <=> i - a + 1 \in 1 .. Len(w)
      /\ \A S : s \in Seq(S) => w \in Seq(S)
  BY <1>1, WindowEntries
<1> HIDE DEF w
<1>3. PICK a \in Nat \ {0} :
        /\ \A k \in 1 .. Len(w) : a + k - 1 \in 1 .. Len(s) /\ w[k] = s[a + k - 1]
        /\ \A i \in 1 .. Len(s) : InWindow(s[i].at, from, to) <=> i - a + 1 \in 1 .. Len(w)
  BY <1>2
<1>4. V \subseteq Nat
  BY DEF ProperSamples
<1>5. ASSUME NEW k \in 1 .. Len(w) PROVE w[k] \in B
  <2> DEFINE i == a + k - 1
  <2>1. i \in 1 .. Len(s) /\ w[k] = s[i] /\ i - a + 1 = k
    BY <1>2, <1>3
  <2> HIDE DEF i
  <2>2. InWindow(s[i].at, from, to)
    BY <1>3, <2>1
  <2>3. s[i] \in [at : T, conds : Seq(C)]
    BY <2>1, SampleTimes
  <2>4. s[i].at \in V
    BY <2>2, <2>3
  <2> HIDE DEF V
  <2> QED BY <2>1, <2>3, <2>4
<1> HIDE DEF B
<1>6. w \in Seq(B)
  <2>1. w \in Seq([at : T, conds : Seq(C)])
    BY <1>2 DEF ProperSamples
  <2>2. w \in [1 .. Len(w) -> [at : T, conds : Seq(C)]]
    BY <2>1, LenProperties
  <2>3. w \in [1 .. Len(w) -> B]
    BY <1>5, <2>2
  <2> QED BY <1>2, <2>3
<1>7. ASSUME NEW i \in 1 .. Len(w), NEW j \in 1 .. Len(w), i < j PROVE w[i].at < w[j].at
  <2>1. a + i - 1 < a + j - 1
    BY <1>2, <1>7
  <2> QED BY <1>3, <2>1 DEF ProperSamples
<1>8. ASSUME NEW i \in 1 .. Len(w), NEW k \in 1 .. Len(w[i].conds), NEW l \in 1 .. Len(w[i].conds),
             w[i].conds[k] = w[i].conds[l]
      PROVE  k = l
  <2>1. PICK j \in 1 .. Len(s) : w[i] = s[j]
    BY <1>3
  <2> QED BY <1>8, <2>1 DEF ProperSamples
<1> HIDE DEF V
<1>9. ProperSamples(w, C, V)
  BY <1>4, <1>6, <1>7, <1>8 DEF ProperSamples, B
<1> QED BY <1>9 DEF w, V

\* r has nothing but what s has, and x.
Extends(r, s, x) == \A i \in 1 .. Len(r) : r[i] = x \/ \E j \in 1 .. Len(s) : r[i] = s[j]

\* A sample that is taken later than all others keeps them proper.
LEMMA SampleAdded ==
  ASSUME NEW C, NEW T, NEW s, ProperSamples(s, C, T), NEW new \in [at : T, conds : Seq(C)],
         \A i \in 1 .. Len(s) : s[i].at < new.at,
         \A k, l \in 1 .. Len(new.conds) : new.conds[k] = new.conds[l] => k = l
  PROVE  ProperSamples(Append(s, new), C, T) /\ Extends(Append(s, new), s, new)
<1> DEFINE B == [at : T, conds : Seq(C)]
           r == Append(s, new)
<1>1. s \in Seq(B) /\ new \in B /\ Len(s) \in Nat
  BY LenProperties DEF ProperSamples
<1> HIDE DEF B
<1>2. /\ r \in Seq(B) /\ Len(r) = Len(s) + 1 /\ r[Len(s) + 1] = new
      /\ \A i \in 1 .. Len(s) : r[i] = s[i]
  BY <1>1, AppendProperties
<1> HIDE DEF r
<1>3. ASSUME NEW i \in 1 .. Len(r)
      PROVE  (i \in 1 .. Len(s) /\ r[i] = s[i]) \/ (i = Len(s) + 1 /\ r[i] = new)
  BY <1>1, <1>2
<1>4. ASSUME NEW i \in 1 .. Len(r), NEW j \in 1 .. Len(r), i < j PROVE r[i].at < r[j].at
  <2>1. i \in 1 .. Len(s) /\ r[i] = s[i]
    BY <1>1, <1>2, <1>3, <1>4
  <2>2. CASE j \in 1 .. Len(s) /\ r[j] = s[j]
    BY <1>4, <2>1, <2>2 DEF ProperSamples
  <2>3. CASE r[j] = new
    BY <2>1, <2>3
  <2> QED BY <1>3, <2>2, <2>3
<1>5. ASSUME NEW i \in 1 .. Len(r), NEW k \in 1 .. Len(r[i].conds), NEW l \in 1 .. Len(r[i].conds),
             r[i].conds[k] = r[i].conds[l]
      PROVE  k = l
  <2>1. CASE i \in 1 .. Len(s) /\ r[i] = s[i]
    BY <1>5, <2>1 DEF ProperSamples
  <2>2. CASE r[i] = new
    BY <1>5, <2>2
  <2> QED BY <1>3, <2>1, <2>2
<1>6. ProperSamples(r, C, T)
  BY <1>2, <1>4, <1>5 DEF ProperSamples, B
<1> QED BY <1>3, <1>6 DEF r, Extends

\* filterSamples returns the runs that its reference definition asks for.
ExactRuns(s, from, to) ==
  LET out == filterSamples(s, from, to)
  IN  Range(out) = SampleRuns(s, from, to) /\ NoneTwice(out) /\ ByBeginning(out)

LEMMA FilterSamplesFacts ==
  ASSUME NEW C, NEW T, NEW s, ProperSamples(s, C, T), NEW from \in Nat, NEW to \in Nat
  PROVE  /\ filterSamples(s, from, to) \in Seq(Intervals(C, {n \in T : InWindow(n, from, to)}))
         /\ ExactRuns(s, from, to)
<1> DEFINE w == Window(s, from, to)
           V == {n \in T : InWindow(n, from, to)}
           out == filterSamples(s, from, to)
           S == Intervals(C, V)
<1>1. ProperSamples(w, C, V)
  BY ProperWindow
<1>2. out \in Seq(S)
  <2>1. Window(s, from, to) \in Seq([at : V, conds : Seq(C)])
    BY <1>1 DEF ProperSamples
  <2> HIDE DEF V
  <2> QED BY <2>1, SamplesType
<1>3. AreRuns(out, w)
  <2> HIDE DEF V
  <2> QED BY <1>1, WindowRuns
<1>4. Timeline(s) /\ Len(s) \in Nat
  BY ProperTimeline
<1>5. /\ Len(w) \in Nat
      /\ \E a \in Nat \ {0} :
           /\ \A k \in 1 .. Len(w) : a + k - 1 \in 1 .. Len(s) /\ w[k] = s[a + k - 1]
           /\ \A i \in 1 .. Len(s) : InWindow(s[i].at, from, to) <=> i - a + 1 \in 1 .. Len(w)
  BY <1>4, WindowEntries
<1> HIDE DEF w, out, S, V
<1>6. PICK a \in Nat \ {0} :
        /\ \A k \in 1 .. Len(w) : a + k - 1 \in 1 .. Len(s) /\ w[k] = s[a + k - 1]
        /\ \A i \in 1 .. Len(s) : InWindow(s[i].at, from, to) <=> i - a + 1 \in 1 .. Len(w)
  BY <1>5
<1>7. ASSUME NEW k \in Int, NEW c PROVE Has(w, k, c) <=> HasIn(s, from, to, a + k - 1, c)
  <2> DEFINE i == a + k - 1
  <2>1. i - a + 1 = k
    OBVIOUS
  <2> HIDE DEF i
  <2>2. ASSUME Has(w, k, c) PROVE HasIn(s, from, to, i, c)
    <3>1. k \in 1 .. Len(w) /\ c \in Range(w[k].conds)
      BY <2>2 DEF Has
    <3>2. i \in 1 .. Len(s) /\ w[k] = s[i]
      BY <1>6, <3>1 DEF i
    <3>3. InWindow(s[i].at, from, to)
      BY <1>6, <2>1, <3>1, <3>2
    <3> QED BY <3>1, <3>2, <3>3 DEF HasIn
  <2>3. ASSUME HasIn(s, from, to, i, c) PROVE Has(w, k, c)
    <3>1. i \in 1 .. Len(s) /\ InWindow(s[i].at, from, to) /\ c \in Range(s[i].conds)
      BY <2>3 DEF HasIn
    <3>2. k \in 1 .. Len(w)
      BY <1>6, <2>1, <3>1
    <3>3. w[k] = s[i]
      BY <1>6, <3>2 DEF i
    <3> QED BY <3>1, <3>2, <3>3 DEF Has
  <2> QED BY <2>2, <2>3 DEF i
<1>8. ASSUME NEW c, NEW b \in 1 .. Len(w), NEW e \in 1 .. Len(w)
      PROVE  IsRun(w, c, b, e) <=> IsRunIn(s, from, to, c, a + b - 1, a + e - 1)
  <2>1. (b \in 1 .. e <=> b <= e) /\ (b <= e <=> a + b - 1 <= a + e - 1)
    BY <1>5
  <2>2. /\ Has(w, b - 1, c) <=> HasIn(s, from, to, a + b - 1 - 1, c)
        /\ Has(w, e + 1, c) <=> HasIn(s, from, to, a + e - 1 + 1, c)
    <3>1. b - 1 \in Int /\ e + 1 \in Int /\ a + (b - 1) - 1 = a + b - 1 - 1 /\ a + (e + 1) - 1 = a + e - 1 + 1
      BY <1>5
    <3>2. /\ Has(w, b - 1, c) <=> HasIn(s, from, to, a + (b - 1) - 1, c)
          /\ Has(w, e + 1, c) <=> HasIn(s, from, to, a + (e + 1) - 1, c)
      BY <1>7, <3>1
    <3> QED BY <3>1, <3>2
  <2>3. (\A k \in b .. e : Has(w, k, c)) <=> \A k \in a + b - 1 .. a + e - 1 : HasIn(s, from, to, k, c)
    <3>1. ASSUME \A k \in b .. e : Has(w, k, c), NEW k \in a + b - 1 .. a + e - 1 PROVE HasIn(s, from, to, k, c)
      <4>1. k - a + 1 \in b .. e /\ k - a + 1 \in Int /\ a + (k - a + 1) - 1 = k
        BY <1>5
      <4>2. HasIn(s, from, to, a + (k - a + 1) - 1, c)
        BY <1>7, <3>1, <4>1
      <4> QED BY <4>1, <4>2
    <3>2. ASSUME \A k \in a + b - 1 .. a + e - 1 : HasIn(s, from, to, k, c), NEW k \in b .. e PROVE Has(w, k, c)
      <4>1. k \in Int /\ a + k - 1 \in a + b - 1 .. a + e - 1
        BY <1>5
      <4> QED BY <1>7, <3>2, <4>1
    <3> QED BY <3>1, <3>2
  <2> QED BY <2>1, <2>2, <2>3 DEF IsRun, Lasts, IsRunIn
<1>9. ASSUME NEW c, NEW b \in 1 .. Len(w), NEW e \in 1 .. Len(w)
      PROVE  /\ a + b - 1 \in 1 .. Len(s) /\ a + e - 1 \in 1 .. Len(s)
             /\ Run(w, c, b, e) = Run(s, c, a + b - 1, a + e - 1)
  BY <1>6 DEF Run
<1>10. ASSUME NEW x PROVE Occurs(out, x) <=> x \in SampleRuns(s, from, to)
  <2>1. ASSUME Occurs(out, x) PROVE x \in SampleRuns(s, from, to)
    <3>1. PICK c : \E b, e \in 1 .. Len(w) : IsRun(w, c, b, e) /\ x = Run(w, c, b, e)
      BY <1>3, <2>1 DEF AreRuns
    <3>2. PICK b \in 1 .. Len(w), e \in 1 .. Len(w) : IsRun(w, c, b, e) /\ x = Run(w, c, b, e)
      BY <3>1
    <3> DEFINE i == a + b - 1
               j == a + e - 1
    <3>3. i \in 1 .. Len(s) /\ j \in 1 .. Len(s) /\ IsRunIn(s, from, to, c, i, j) /\ x = Run(s, c, i, j)
      BY <1>8, <1>9, <3>2
    <3> HIDE DEF i, j
    <3> QED BY <1>4, <3>3, SampleRunsMembers
  <2>2. ASSUME x \in SampleRuns(s, from, to) PROVE Occurs(out, x)
    <3>1. PICK c : \E i, j \in 1 .. Len(s) : IsRunIn(s, from, to, c, i, j) /\ x = Run(s, c, i, j)
      BY <1>4, <2>2, SampleRunsMembers
    <3>2. PICK i \in 1 .. Len(s), j \in 1 .. Len(s) : IsRunIn(s, from, to, c, i, j) /\ x = Run(s, c, i, j)
      BY <3>1
    <3>3. InWindow(s[i].at, from, to) /\ InWindow(s[j].at, from, to)
      <4>1. i \in i .. j /\ j \in i .. j
        BY <1>4, <3>2 DEF IsRunIn
      <4> QED BY <3>2, <4>1 DEF IsRunIn, HasIn
    <3> DEFINE b == i - a + 1
               e == j - a + 1
    <3>4. b \in 1 .. Len(w) /\ e \in 1 .. Len(w)
      BY <1>6, <3>3
    <3>5. a + b - 1 = i /\ a + e - 1 = j
      BY <1>4
    <3> HIDE DEF b, e
    <3>6. IsRun(w, c, b, e) /\ x = Run(w, c, b, e)
      BY <1>8, <1>9, <3>2, <3>4, <3>5
    <3> QED BY <1>3, <3>4, <3>6 DEF AreRuns
  <2> QED BY <2>1, <2>2
<1>11. Range(out) = SampleRuns(s, from, to)
  <2>1. DOMAIN out = 1 .. Len(out)
    BY <1>2, LenProperties
  <2>2. \A x : x \in Range(out) <=> Occurs(out, x)
    BY <2>1 DEF Range, Occurs
  <2> QED BY <1>10, <2>2
<1>12. ExactRuns(s, from, to)
  BY <1>3, <1>11 DEF AreRuns, ExactRuns, out
<1> QED BY <1>2, <1>12 DEF out, S, V

-----------------------------------------------------------------------------
(* What Monitor.Events returns *)

\* An event as an interval.
Point(e) == [cond |-> e.cond, from |-> e.at, to |-> e.at]

\* Events in the order of their times, none twice.
ProperEvents(ev, D, T) ==
  /\ ev \in Seq([at : T, cond : D]) /\ T \subseteq Nat
  /\ \A i, j \in 1 .. Len(ev) : i < j => ev[i].at <= ev[j].at
  /\ \A i, j \in 1 .. Len(ev) : ev[i] = ev[j] => i = j

\* An event that is recorded later than all others keeps them proper.
LEMMA EventAdded ==
  ASSUME NEW D, NEW T, NEW ev, ProperEvents(ev, D, T), NEW e \in [at : T, cond : D],
         \A i \in 1 .. Len(ev) : ev[i].at < e.at
  PROVE  ProperEvents(Append(ev, e), D, T) /\ Extends(Append(ev, e), ev, e)
<1> DEFINE B == [at : T, cond : D]
           r == Append(ev, e)
<1>1. ev \in Seq(B) /\ Len(ev) \in Nat /\ e \in B /\ \A b \in B : b.at \in Nat
  BY LenProperties DEF ProperEvents
<1> HIDE DEF B
<1>2. /\ r \in Seq(B) /\ Len(r) = Len(ev) + 1 /\ r[Len(ev) + 1] = e
      /\ \A i \in 1 .. Len(ev) : r[i] = ev[i]
  BY <1>1, AppendProperties
<1> HIDE DEF r
<1>3. ASSUME NEW i \in 1 .. Len(r)
      PROVE  (i \in 1 .. Len(ev) /\ r[i] = ev[i]) \/ (i = Len(ev) + 1 /\ r[i] = e)
  BY <1>1, <1>2
<1>4. \A i \in 1 .. Len(ev) : ev[i].at \in Nat /\ ev[i].at <= e.at /\ ev[i] # e
  <2>1. \A i \in 1 .. Len(ev) : ev[i].at \in Nat /\ e.at \in Nat
    BY <1>1, ElementOfSeq
  <2>2. \A i \in 1 .. Len(ev) : ev[i].at <= e.at
    BY <2>1
  <2>3. \A i \in 1 .. Len(ev) : ev[i].at # e.at
    BY <2>1
  <2> QED BY <2>1, <2>2, <2>3
<1>5. ASSUME NEW i \in 1 .. Len(r), NEW j \in 1 .. Len(r), i < j PROVE r[i].at <= r[j].at
  <2>1. i \in 1 .. Len(ev) /\ r[i] = ev[i]
    BY <1>1, <1>2, <1>3, <1>5
  <2>2. CASE j \in 1 .. Len(ev) /\ r[j] = ev[j]
    BY <1>5, <2>1, <2>2 DEF ProperEvents
  <2>3. CASE r[j] = e
    BY <1>4, <2>1, <2>3
  <2> QED BY <1>3, <2>2, <2>3
<1>6. ASSUME NEW i \in 1 .. Len(r), NEW j \in 1 .. Len(r), r[i] = r[j] PROVE i = j
  <2>1. CASE i \in 1 .. Len(ev) /\ j \in 1 .. Len(ev)
    BY <1>2, <1>6, <2>1 DEF ProperEvents
  <2>2. CASE i \in 1 .. Len(ev) /\ j \notin 1 .. Len(ev)
    BY <1>2, <1>3, <1>4, <1>6, <2>2
  <2>3. CASE i \notin 1 .. Len(ev) /\ j \in 1 .. Len(ev)
    BY <1>2, <1>3, <1>4, <1>6, <2>3
  <2>4. CASE i \notin 1 .. Len(ev) /\ j \notin 1 .. Len(ev)
    BY <1>3, <2>4
  <2> QED BY <2>1, <2>2, <2>3, <2>4
<1>7. ProperEvents(r, D, T)
  BY <1>2, <1>5, <1>6 DEF ProperEvents, B
<1> QED BY <1>3, <1>7 DEF r, Extends

\* The events of the window as points.
Points(ev, from, to) ==
  [i \in 1 .. Len(filterEvents(ev, from, to)) |->
     LET e == filterEvents(ev, from, to)[i]
     IN  [cond |-> e.cond, from |-> e.at, to |-> e.at]]

\* x is one of them.
IsPoint(ev, from, to, x) == \E i \in 1 .. Len(ev) : InWindow(ev[i].at, from, to) /\ x = Point(ev[i])

\* They are the events of the window, each once and in the order of their times.
LEMMA PointFacts ==
  ASSUME NEW D, NEW T, NEW ev, ProperEvents(ev, D, T), NEW from \in Nat, NEW to \in Nat
  PROVE  /\ Points(ev, from, to) \in Seq(Intervals(D, {n \in T : InWindow(n, from, to)}))
         /\ \A x : Occurs(Points(ev, from, to), x) <=> IsPoint(ev, from, to, x)
         /\ \A X : Once(Points(ev, from, to), X)
         /\ ByBeginning(Points(ev, from, to))
<1> DEFINE w == Window(ev, from, to)
           V == {n \in T : InWindow(n, from, to)}
           I == Intervals(D, V)
           ps == Points(ev, from, to)
<1>1. /\ Len(ev) \in Nat
      /\ \A i \in 1 .. Len(ev) : ev[i] \in [at : T, cond : D] /\ ev[i].at \in Nat
  <2> DEFINE B == [at : T, cond : D]
  <2>1. ev \in Seq(B) /\ \A b \in B : b.at \in Nat
    BY DEF ProperEvents
  <2> HIDE DEF B
  <2>2. Len(ev) \in Nat /\ \A i \in 1 .. Len(ev) : ev[i] \in B
    BY <2>1, LenProperties, ElementOfSeq
  <2> QED BY <2>1, <2>2 DEF B
<1>2. Timeline(ev)
  BY <1>1 DEF ProperEvents, Timeline
<1>3. Len(w) \in Nat
  BY <1>2, WindowEntries
<1>4. \E a \in Nat \ {0} :
        /\ \A k \in 1 .. Len(w) : a + k - 1 \in 1 .. Len(ev) /\ w[k] = ev[a + k - 1]
        /\ \A i \in 1 .. Len(ev) : InWindow(ev[i].at, from, to) <=> i - a + 1 \in 1 .. Len(w)
  BY <1>2, WindowEntries
<1>5. ps = [k \in 1 .. Len(w) |-> Point(w[k])]
  BY DEF Points, filterEvents, Point
<1> HIDE DEF w, ps
<1>6. PICK a \in Nat \ {0} :
        /\ \A k \in 1 .. Len(w) : a + k - 1 \in 1 .. Len(ev) /\ w[k] = ev[a + k - 1]
        /\ \A i \in 1 .. Len(ev) : InWindow(ev[i].at, from, to) <=> i - a + 1 \in 1 .. Len(w)
  BY <1>4
<1>7. ASSUME NEW k \in 1 .. Len(w)
      PROVE  \E i \in 1 .. Len(ev) : i = a + k - 1 /\ w[k] = ev[i] /\ InWindow(ev[i].at, from, to)
  <2> DEFINE i == a + k - 1
  <2>1. i \in 1 .. Len(ev) /\ w[k] = ev[i]
    BY <1>6
  <2>2. i - a + 1 = k
    BY <1>3
  <2> HIDE DEF i
  <2>3. InWindow(ev[i].at, from, to)
    BY <1>6, <2>1, <2>2
  <2> QED BY <2>1, <2>3 DEF i
<1>8. ASSUME NEW i \in 1 .. Len(ev), InWindow(ev[i].at, from, to)
      PROVE  \E k \in 1 .. Len(w) : w[k] = ev[i]
  <2> DEFINE k == i - a + 1
  <2>1. k \in 1 .. Len(w) /\ a + k - 1 = i
    BY <1>1, <1>6, <1>8
  <2> HIDE DEF k
  <2> QED BY <1>6, <2>1
<1>9. ASSUME NEW i \in 1 .. Len(ev), InWindow(ev[i].at, from, to) PROVE Point(ev[i]) \in I
  <2>1. ev[i].at \in V /\ ev[i].cond \in D
    BY <1>1, <1>9
  <2> HIDE DEF V
  <2> QED BY <2>1 DEF Point, Intervals
<1> HIDE DEF I
<1>10. ps \in Seq(I) /\ Len(ps) = Len(w)
  <2>1. ps \in [1 .. Len(w) -> I]
    <3>1. \A k \in 1 .. Len(w) : Point(w[k]) \in I
      BY <1>7, <1>9
    <3> QED BY <1>5, <3>1
  <2> QED BY <1>3, <2>1
<1>11. \A k \in 1 .. Len(ps) : k \in 1 .. Len(w) /\ ps[k] = Point(w[k])
  BY <1>5, <1>10
<1>12. \A x : Occurs(ps, x) <=> IsPoint(ev, from, to, x)
  <2>1. ASSUME NEW x, Occurs(ps, x)
        PROVE  \E i \in 1 .. Len(ev) : InWindow(ev[i].at, from, to) /\ x = Point(ev[i])
    <3>1. PICK k \in 1 .. Len(ps) : ps[k] = x
      BY <2>1 DEF Occurs
    <3>2. k \in 1 .. Len(w) /\ x = Point(w[k])
      BY <1>11, <3>1
    <3> QED BY <1>7, <3>2
  <2>2. ASSUME NEW i \in 1 .. Len(ev), InWindow(ev[i].at, from, to) PROVE Occurs(ps, Point(ev[i]))
    <3>1. PICK k \in 1 .. Len(w) : w[k] = ev[i]
      BY <1>8, <2>2
    <3>2. k \in 1 .. Len(ps) /\ ps[k] = Point(ev[i])
      BY <1>10, <1>11, <3>1
    <3> QED BY <3>2 DEF Occurs
  <2> QED BY <2>1, <2>2 DEF IsPoint
<1>13. ASSUME NEW k \in 1 .. Len(ps), NEW l \in 1 .. Len(ps), ps[k] = ps[l] PROVE k = l
  <2>1. PICK i \in 1 .. Len(ev) : i = a + k - 1 /\ w[k] = ev[i]
    BY <1>7, <1>11
  <2>2. PICK j \in 1 .. Len(ev) : j = a + l - 1 /\ w[l] = ev[j]
    BY <1>7, <1>11
  <2>3. Point(ev[i]) = Point(ev[j])
    BY <1>11, <1>13, <2>1, <2>2
  <2>4. ev[i].cond = ev[j].cond /\ ev[i].at = ev[j].at
    BY <2>3 DEF Point
  <2>5. ev[i] = ev[j]
    <3>1. ev[i] \in [at : T, cond : D] /\ ev[j] \in [at : T, cond : D]
      BY <1>1
    <3> QED BY <2>4, <3>1
  <2>6. i = j
    BY <2>5 DEF ProperEvents
  <2>7. k \in Nat /\ l \in Nat
    BY <1>3, <1>10
  <2> QED BY <2>1, <2>2, <2>6, <2>7
<1>14. \A X : Once(ps, X)
  BY <1>13 DEF Once
<1>15. ByBeginning(ps)
  <2>1. ASSUME NEW k \in 1 .. Len(ps), NEW l \in 1 .. Len(ps), k < l PROVE ps[k].from <= ps[l].from
    <3>1. PICK i \in 1 .. Len(ev) : i = a + k - 1 /\ w[k] = ev[i]
      BY <1>7, <1>11
    <3>2. PICK j \in 1 .. Len(ev) : j = a + l - 1 /\ w[l] = ev[j]
      BY <1>7, <1>11
    <3>3. i < j
      BY <1>3, <1>10, <2>1, <3>1, <3>2
    <3>4. ev[i].at <= ev[j].at
      BY <3>3 DEF ProperEvents
    <3>5. ps[k] = Point(ev[i]) /\ ps[l] = Point(ev[j])
      BY <1>11, <3>1, <3>2
    <3>6. \A e : Point(e).from = e.at
      BY DEF Point
    <3> QED BY <3>4, <3>5, <3>6
  <2> QED BY <2>1 DEF ByBeginning
<1> QED BY <1>10, <1>12, <1>14, <1>15 DEF ps, I, V

\* Monitor.Events returns the events of the window and the runs of its samples,
\* nothing twice and all in the order of their beginning, wherever the sort is left
\* out.
ExactEvents(ev, s, from, to) ==
  LET all == EventsBetween(ev, s, from, to)
  IN  /\ ByBeginning(all)
      /\ \A x : Occurs(all, x) <=> x \in SampleRuns(s, from, to) \/ IsPoint(ev, from, to, x)
      /\ \A X : Once(all, X)

\* So it does for proper events and samples, if no event looks like a run.
LEMMA EventsFacts ==
  ASSUME NEW C, NEW D, NEW T, NEW ev, NEW s, ProperEvents(ev, D, T), ProperSamples(s, C, T),
         C \subseteq Nat, D \subseteq Nat, NEW from \in Nat, NEW to \in Nat,
         \A i \in 1 .. Len(ev) : Point(ev[i]) \notin SampleRuns(s, from, to)
  PROVE  /\ EventsBetween(ev, s, from, to) \in Seq(Intervals(C \cup D, {n \in T : InWindow(n, from, to)}))
         /\ ExactEvents(ev, s, from, to)
<1> DEFINE V == {n \in T : InWindow(n, from, to)}
           S == Intervals(C \cup D, V)
           ivs == filterSamples(s, from, to)
           ps == Points(ev, from, to)
           all == EventsBetween(ev, s, from, to)
<1>1. all = IF ivs # << >> THEN Sorted(ivs \o ps) ELSE ps
  BY DEF EventsBetween, Merge, Points
<1>2. ivs \in Seq(Intervals(C, V)) /\ ExactRuns(s, from, to)
  BY FilterSamplesFacts
<1>3. /\ ps \in Seq(Intervals(D, V)) /\ (\A X : Once(ps, X)) /\ ByBeginning(ps)
      /\ \A x : Occurs(ps, x) <=> IsPoint(ev, from, to, x)
  BY PointFacts
<1>4. V \subseteq Nat
  BY DEF ProperSamples
<1>5. Range(ivs) = SampleRuns(s, from, to) /\ NoneTwice(ivs)
  BY <1>2 DEF ExactRuns
<1>6. \A x : IsPoint(ev, from, to, x) => x \notin SampleRuns(s, from, to)
  BY DEF IsPoint
<1> HIDE DEF V, ivs, ps, all
<1>7. Intervals(C, V) \subseteq S /\ Intervals(D, V) \subseteq S
  BY DEF Intervals
<1>8. Comparable(S)
  BY <1>4 DEF Intervals, Comparable
<1> HIDE DEF S
<1>9. ivs \in Seq(S) /\ ps \in Seq(S)
  BY <1>2, <1>3, <1>7, SeqMonotonic
<1>10. (\A X : Once(ivs, X)) /\ \A x : Occurs(ivs, x) <=> x \in SampleRuns(s, from, to)
  <2>1. DOMAIN ivs = 1 .. Len(ivs)
    BY <1>9, LenProperties
  <2>2. \A x : x \in Range(ivs) <=> Occurs(ivs, x)
    BY <2>1 DEF Range, Occurs
  <2> QED BY <1>5, <2>2 DEF NoneTwice, Once
<1> DEFINE both == ivs \o ps
<1>11. /\ \A x : Occurs(both, x) <=> Occurs(ivs, x) \/ Occurs(ps, x)
       /\ \A X : Once(ivs, X) /\ Once(ps, X) /\ (\A x \in X : ~(Occurs(ivs, x) /\ Occurs(ps, x))) => Once(both, X)
  BY <1>9, ConcatOccurs
<1>12. both \in Seq(S)
  BY <1>9, ConcatProperties
<1> HIDE DEF both
<1>13. \A X : Once(both, X)
  BY <1>3, <1>6, <1>10, <1>11
<1>14. CASE ivs # << >>
  <2>1. all = Sorted(both)
    BY <1>1, <1>14 DEF both
  <2>2. all \in Seq(S) /\ ByBeginning(all) /\ (\A x : Occurs(all, x) <=> Occurs(both, x)) /\ \A X : Once(all, X)
    BY <1>8, <1>12, <1>13, <2>1, SortedFacts
  <2>3. \A x : Occurs(all, x) <=> x \in SampleRuns(s, from, to) \/ IsPoint(ev, from, to, x)
    BY <1>3, <1>10, <1>11, <2>2
  <2> QED BY <2>2, <2>3 DEF ExactEvents, all, S, V
<1>15. CASE ivs = << >>
  <2>1. all = ps
    BY <1>1, <1>15
  <2>2. \A x : ~Occurs(ivs, x)
    BY <1>15 DEF Occurs
  <2>3. \A x : Occurs(all, x) <=> x \in SampleRuns(s, from, to) \/ IsPoint(ev, from, to, x)
    BY <1>3, <1>10, <2>1, <2>2
  <2>4. all \in Seq(S) /\ ByBeginning(all) /\ \A X : Once(all, X)
    BY <1>3, <1>9, <2>1
  <2> QED BY <2>3, <2>4 DEF ExactEvents, all, S, V
<1> QED BY <1>14, <1>15
=============================================================================
