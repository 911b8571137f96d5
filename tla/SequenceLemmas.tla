---------------------------- MODULE SequenceLemmas ----------------------------
(* Which values a sequence holds after an append, a replacement of its last    *)
(* element, a cut or a concatenation, without its first element, where, and    *)
(* how many; and what a fold over a sequence goes through, by induction.       *)
EXTENDS Sequences, Integers, Functions, FiniteSets, FiniteSetTheorems,
        FiniteSetsExt, WellFoundedInduction, TLAPS

(* The range of a sequence is the set of its elements, and it is in the set    *)
(* the sequence is over.                                                       *)
LEMMA RangeOfSeq ==
  ASSUME NEW S, NEW s \in Seq(S)
  PROVE  /\ Range(s) = {s[i] : i \in 1 .. Len(s)}
         /\ Range(s) \subseteq S
  BY DEF Range

(* Append adds its element and keeps the others.                               *)
LEMMA RangeOfAppend ==
  ASSUME NEW S, NEW s \in Seq(S), NEW x \in S
  PROVE  /\ Append(s, x) \in Seq(S)
         /\ Range(Append(s, x)) = Range(s) \cup {x}
<1> DEFINE t == Append(s, x)
<1>1. /\ t \in Seq(S)
      /\ Len(t) = Len(s) + 1
      /\ \A i \in 1 .. Len(s) : t[i] = s[i]
      /\ t[Len(s) + 1] = x
  OBVIOUS
<1>2. /\ Range(s) = {s[i] : i \in 1 .. Len(s)}
      /\ Range(t) = {t[i] : i \in 1 .. Len(t)}
  BY <1>1, RangeOfSeq
<1>3. 1 .. Len(t) = (1 .. Len(s)) \cup {Len(s) + 1}
  BY <1>1
<1> QED
  BY <1>1, <1>2, <1>3

(* Replacing the last element loses at most that element.                      *)
LEMMA RangeOfReplaceLast ==
  ASSUME NEW S, NEW s \in Seq(S), s # <<>>, NEW x \in S
  PROVE  LET t == [s EXCEPT ![Len(s)] = x]
         IN /\ t \in Seq(S)
            /\ t # <<>>
            /\ Range(t) \subseteq Range(s) \cup {x}
            /\ Range(s) \subseteq Range(t) \cup {s[Len(s)]}
<1> DEFINE n == Len(s)
           t == [s EXCEPT ![n] = x]
<1>1. /\ n \in Nat
      /\ n > 0
      /\ s \in [1 .. n -> S]
  OBVIOUS
<1> HIDE DEF n
<1>2. /\ t \in [1 .. n -> S]
      /\ \A i \in 1 .. n : i # n => t[i] = s[i]
      /\ t[n] = x
  BY <1>1
<1>3. t \in Seq(S) /\ Len(t) = n /\ t # <<>>
  <2> HIDE DEF t
  <2>1. t \in Seq(S) /\ Len(t) = n
    BY <1>1, <1>2
  <2> QED
    BY <2>1, <1>1
<1> USE DEF n
<1>4. /\ Range(s) = {s[i] : i \in 1 .. Len(s)}
      /\ Range(t) = {t[i] : i \in 1 .. Len(s)}
  BY <1>3, RangeOfSeq
<1> QED
  BY <1>1, <1>2, <1>3, <1>4

(* A prefix and the rest after it hold what the whole holds.                   *)
LEMMA RangeOfSplit ==
  ASSUME NEW S, NEW s \in Seq(S), NEW n \in 0 .. Len(s)
  PROVE  /\ SubSeq(s, 1, n) \in Seq(S)
         /\ SubSeq(s, n + 1, Len(s)) \in Seq(S)
         /\ Range(s) = Range(SubSeq(s, 1, n)) \cup Range(SubSeq(s, n + 1, Len(s)))
<1> DEFINE a == SubSeq(s, 1, n)
           b == SubSeq(s, n + 1, Len(s))
<1>1. /\ a \in Seq(S)
      /\ Len(a) = n
      /\ \A i \in 1 .. n : a[i] = s[i]
  OBVIOUS
<1>2. /\ b \in Seq(S)
      /\ Len(b) = Len(s) - n
      /\ \A i \in 1 .. Len(s) - n : b[i] = s[n + i]
  OBVIOUS
<1>3. /\ Range(s) = {s[i] : i \in 1 .. Len(s)}
      /\ Range(a) = {a[i] : i \in 1 .. Len(a)}
      /\ Range(b) = {b[i] : i \in 1 .. Len(b)}
  <2> HIDE DEF a, b
  <2> QED
    BY <1>1, <1>2, RangeOfSeq
<1>4. Range(a) \subseteq Range(s) /\ Range(b) \subseteq Range(s)
  BY <1>1, <1>2, <1>3
<1>5. ASSUME NEW i \in 1 .. Len(s)
      PROVE  s[i] \in Range(a) \cup Range(b)
  <2>1. CASE i <= n
    BY <2>1, <1>1, <1>3
  <2>2. CASE i > n
    <3>1. i - n \in 1 .. Len(s) - n /\ s[i] = b[i - n]
      BY <2>2, <1>2
    <3> QED
      BY <3>1, <1>2, <1>3
  <2> QED
    BY <2>1, <2>2
<1> QED
  BY <1>1, <1>2, <1>3, <1>4, <1>5

(* A concatenation holds what its two parts hold.                              *)
LEMMA RangeOfConcat ==
  ASSUME NEW S, NEW s \in Seq(S), NEW t \in Seq(S)
  PROVE  /\ s \o t \in Seq(S)
         /\ Range(s \o t) = Range(s) \cup Range(t)
<1> DEFINE u == s \o t
<1>1. /\ u \in Seq(S)
      /\ Len(u) = Len(s) + Len(t)
      /\ \A i \in 1 .. Len(s) : u[i] = s[i]
      /\ \A i \in 1 .. Len(t) : u[Len(s) + i] = t[i]
  OBVIOUS
<1>2. /\ Range(s) = {s[i] : i \in 1 .. Len(s)}
      /\ Range(t) = {t[i] : i \in 1 .. Len(t)}
      /\ Range(u) = {u[i] : i \in 1 .. Len(u)}
  BY <1>1, RangeOfSeq
<1>3. Range(s) \subseteq Range(u) /\ Range(t) \subseteq Range(u)
  <2>1. Len(s) \in Nat /\ Len(t) \in Nat
    OBVIOUS
  <2> HIDE DEF u
  <2>2. ASSUME NEW i \in 1 .. Len(s)
        PROVE  s[i] \in Range(u)
    <3>1. i \in 1 .. Len(u)
      BY <1>1, <2>1
    <3> QED
      BY <1>1, <1>2, <3>1
  <2>3. ASSUME NEW i \in 1 .. Len(t)
        PROVE  t[i] \in Range(u)
    <3>1. Len(s) + i \in 1 .. Len(u)
      BY <1>1, <2>1
    <3> QED
      BY <1>1, <1>2, <3>1
  <2> QED
    BY <1>2, <2>2, <2>3
<1>4. ASSUME NEW i \in 1 .. Len(u)
      PROVE  u[i] \in Range(s) \cup Range(t)
  <2>1. CASE i <= Len(s)
    BY <2>1, <1>1, <1>2
  <2>2. CASE i > Len(s)
    <3>1. i - Len(s) \in 1 .. Len(t) /\ u[i] = t[i - Len(s)]
      <4>1. i - Len(s) \in 1 .. Len(t) /\ Len(s) + (i - Len(s)) = i
        BY <2>2, <1>1
      <4> QED
        BY <4>1, <1>1
    <3> QED
      BY <3>1, <1>2
  <2> QED
    BY <2>1, <2>2
<1> QED
  BY <1>1, <1>2, <1>3, <1>4

(* A sequence holds its first element and what is left without it.             *)
LEMMA RangeOfTail ==
  ASSUME NEW S, NEW s \in Seq(S), s # <<>>
  PROVE  /\ Len(s) \in Nat \ {0}
         /\ Head(s) = s[1] /\ Head(s) \in S
         /\ Tail(s) \in Seq(S) /\ Len(Tail(s)) = Len(s) - 1
         /\ \A i \in 1 .. Len(Tail(s)) : /\ i \in Nat /\ i + 1 \in 1 .. Len(s) /\ 1 < i + 1
                                         /\ Tail(s)[i] = s[i + 1]
         /\ Range(s) = {Head(s)} \cup Range(Tail(s))
<1> DEFINE u == Tail(s)
<1>1. /\ Head(s) = s[1] /\ 1 \in DOMAIN s /\ s[1] \in S /\ u \in Seq(S)
      /\ DOMAIN s = 1 .. Len(s) /\ Len(s) \in Nat \ {0}
      /\ DOMAIN u = 1 .. Len(s) - 1 /\ Len(u) = Len(s) - 1
      /\ \A i \in DOMAIN u : u[i] = s[i + 1]
  OBVIOUS
<1> HIDE DEF u
<1>2. \A i \in DOMAIN u : i \in Nat /\ i + 1 \in DOMAIN s /\ 1 < i + 1
  BY <1>1
<1>3. \A i \in DOMAIN s : i = 1 \/ (i - 1 \in DOMAIN u /\ u[i - 1] = s[i])
  BY <1>1
<1>4. Range(s) = {s[1]} \cup Range(u)
  <2>1. Range(u) \subseteq Range(s) /\ s[1] \in Range(s)
    BY <1>1, <1>2 DEF Range
  <2>2. ASSUME NEW x \in Range(s)
        PROVE  x \in {s[1]} \cup Range(u)
    <3>1. PICK i \in DOMAIN s : x = s[i]
      BY DEF Range
    <3>2. i = 1 \/ (i - 1 \in DOMAIN u /\ u[i - 1] = x)
      BY <1>3, <3>1
    <3> QED
      BY <3>1, <3>2 DEF Range
  <2> QED
    BY <2>1, <2>2
<1> QED
  BY <1>1, <1>2, <1>4 DEF u

(* Where an element stands in a sequence that holds it once.                   *)
LEMMA PlacesOf ==
  ASSUME NEW S, NEW s \in Seq(S), \A i, j \in DOMAIN s : i # j => s[i] # s[j],
         NEW p, p = [e \in Range(s) |-> CHOOSE i \in DOMAIN s : s[i] = e]
  PROVE  /\ DOMAIN s = 1 .. Len(s) /\ Len(s) \in Nat
         /\ DOMAIN p = Range(s)
         /\ \A e \in Range(s) : p[e] \in 1 .. Len(s) /\ s[p[e]] = e
         /\ \A i \in 1 .. Len(s) : s[i] \in Range(s) /\ p[s[i]] = i
<1>1. DOMAIN s = 1 .. Len(s) /\ Len(s) \in Nat
  OBVIOUS
<1>2. \A i \in 1 .. Len(s) : s[i] \in Range(s)
  BY <1>1 DEF Range
<1>3. ASSUME NEW e \in Range(s)
      PROVE  p[e] \in 1 .. Len(s) /\ s[p[e]] = e
  <2>1. \E i \in DOMAIN s : s[i] = e
    BY DEF Range
  <2>2. p[e] = CHOOSE i \in DOMAIN s : s[i] = e
    OBVIOUS
  <2> QED
    BY <1>1, <2>1, <2>2
<1>4. \A i \in 1 .. Len(s) : p[s[i]] = i
  BY <1>1, <1>2, <1>3
<1> QED
  BY <1>1, <1>2, <1>3, <1>4
-----------------------------------------------------------------------------
(* No value twice.                                                             *)
Distinct(s) == \A i, k \in 1 .. Len(s) : i # k => s[i] # s[k]

(* A sequence with one more at its end.                                        *)
LEMMA Appended ==
  ASSUME NEW S, NEW s \in Seq(S), NEW x \in S
  PROVE  /\ Append(s, x) \in Seq(S)
         /\ Len(s) \in Nat
         /\ Len(Append(s, x)) = Len(s) + 1
         /\ \A i \in 1 .. Len(s) : Append(s, x)[i] = s[i]
         /\ Append(s, x)[Len(s) + 1] = x
         /\ \A i \in 1 .. Len(Append(s, x)) : i \in 1 .. Len(s) \/ i = Len(s) + 1
OBVIOUS

(* One that the sequence does not hold yet, at its end.                        *)
LEMMA DistinctAppend ==
  ASSUME NEW S, NEW s \in Seq(S), Distinct(s), NEW x \in S, x \notin Range(s)
  PROVE  /\ Append(s, x) \in Seq(S)
         /\ Distinct(Append(s, x))
         /\ Range(Append(s, x)) = Range(s) \cup {x}
<1> DEFINE t == Append(s, x)
<1>1. /\ t \in Seq(S) /\ Len(s) \in Nat /\ Len(t) = Len(s) + 1
      /\ \A i \in 1 .. Len(s) : t[i] = s[i]
      /\ t[Len(s) + 1] = x
      /\ \A i \in 1 .. Len(t) : i \in 1 .. Len(s) \/ i = Len(s) + 1
  BY Appended
<1>2. Range(t) = Range(s) \cup {x}
  BY RangeOfAppend
<1>3. \A i \in 1 .. Len(s) : s[i] \in Range(s)
  BY DEF Range
<1> HIDE DEF t
<1>4. Distinct(t)
  BY <1>1, <1>3 DEF Distinct
<1> QED
  BY <1>1, <1>2, <1>4 DEF t

(* Without the first element, which it then does not hold.                     *)
LEMMA DistinctTail ==
  ASSUME NEW S, NEW s \in Seq(S), s # <<>>, Distinct(s)
  PROVE  /\ Tail(s) \in Seq(S) /\ Len(s) \in Nat /\ Len(Tail(s)) = Len(s) - 1
         /\ Head(s) \in S /\ Head(s) = s[1] /\ 1 \in 1 .. Len(s)
         /\ \A i \in 1 .. Len(Tail(s)) : i + 1 \in 1 .. Len(s) /\ Tail(s)[i] = s[i + 1]
         /\ Range(s) = {Head(s)} \cup Range(Tail(s))
         /\ Head(s) \notin Range(Tail(s)) /\ Distinct(Tail(s))
<1> DEFINE u == Tail(s)
           h == Head(s)
<1>1. /\ Len(s) \in Nat \ {0} /\ h = s[1] /\ h \in S
      /\ u \in Seq(S) /\ Len(u) = Len(s) - 1
      /\ \A i \in 1 .. Len(u) : i \in Nat /\ i + 1 \in 1 .. Len(s) /\ 1 < i + 1 /\ u[i] = s[i + 1]
      /\ Range(s) = {h} \cup Range(u)
  BY RangeOfTail
<1> HIDE DEF u, h
<1>2. 1 \in 1 .. Len(s)
  BY <1>1
<1>3. Distinct(u)
  BY <1>1 DEF Distinct
<1>4. h \notin Range(u)
  <2>1. \A i \in 1 .. Len(u) : u[i] # h
    BY <1>1, <1>2 DEF Distinct
  <2>2. DOMAIN u = 1 .. Len(u)
    BY <1>1
  <2> QED
    BY <2>1, <2>2 DEF Range
<1> QED
  BY <1>1, <1>2, <1>3, <1>4 DEF u, h

(* How often a sequence that holds no value twice holds one.                   *)
LEMMA OccursOnce ==
  ASSUME NEW S, NEW s \in Seq(S), Distinct(s), NEW a
  PROVE  Cardinality({i \in DOMAIN s : s[i] = a}) = IF a \in Range(s) THEN 1 ELSE 0
<1> DEFINE I == {i \in DOMAIN s : s[i] = a}
<1>1. DOMAIN s = 1 .. Len(s)
  OBVIOUS
<1>2. CASE a \in Range(s)
  <2>1. PICK i \in DOMAIN s : s[i] = a
    BY <1>2 DEF Range
  <2>2. I = {i}
    BY <1>1, <2>1 DEF Distinct
  <2> HIDE DEF I
  <2>3. Cardinality(I) = 1
    BY <2>2, FS_Singleton
  <2> QED
    BY <1>2, <2>3 DEF I
<1>3. CASE a \notin Range(s)
  <2>1. I = {}
    BY <1>3 DEF Range
  <2> HIDE DEF I
  <2>2. Cardinality(I) = 0
    BY <2>1, FS_EmptySet
  <2> QED
    BY <1>3, <2>2 DEF I
<1> QED
  BY <1>2, <1>3

(* Such a sequence is as long as the set of its values is large.               *)
LEMMA SizeOfRange ==
  ASSUME NEW S, NEW s \in Seq(S), Distinct(s)
  PROVE  IsFiniteSet(Range(s)) /\ Cardinality(Range(s)) = Len(s)
<1> DEFINE D == 1 .. Len(s)
<1>1. Len(s) \in Nat /\ DOMAIN s = D
  OBVIOUS
<1>2. IsFiniteSet(D) /\ Cardinality(D) = Len(s)
  BY <1>1, FS_Interval
<1>3. s \in Bijection(D, Range(s))
  <2>1. s \in [D -> Range(s)]
    BY <1>1 DEF Range
  <2>2. \A i, k \in D : s[i] = s[k] => i = k
    BY DEF Distinct
  <2>3. \A x \in Range(s) : \E i \in D : s[i] = x
    BY <1>1 DEF Range
  <2> HIDE DEF D
  <2> QED
    BY <2>1, <2>2, <2>3 DEF Bijection, Injection, Surjection, IsInjective
<1> HIDE DEF D
<1>4. ExistsBijection(D, Range(s))
  BY <1>3 DEF ExistsBijection
<1> QED
  BY <1>2, <1>4, FS_Bijection
(* Induction, over sets rather than predicates, and what it gives: the least   *)
(* of a set of numbers, the greatest, and the folds of the community modules.  *)

(* A set of natural numbers that is not empty has a least one.                 *)
LEMMA LeastNatural ==
  ASSUME NEW T, T \subseteq Nat, T # {}
  PROVE  \E m \in T : \A n \in T : m <= n
<1> DEFINE R == OpToRel(<, Nat)
<1>1. IsWellFoundedOn(R, Nat)
  BY NatLessThanWellFounded
<1>2. \A x, y \in Nat : y < x => <<y, x>> \in R
  BY DEF OpToRel
<1> HIDE DEF R
<1>3. PICK m \in T : \A n \in T : ~ (<<n, m>> \in R)
  BY <1>1, WFMin
<1>4. \A n \in T : ~ (n < m)
  BY <1>2, <1>3
<1> QED
  BY <1>4

(* A set with zero and with each successor has every natural number.           *)
LEMMA SetInduction ==
  ASSUME NEW T, 0 \in T, \A n \in Nat : n \in T => n + 1 \in T
  PROVE  Nat \subseteq T
<1>1. SUFFICES ASSUME NEW k \in Nat, k \notin T PROVE FALSE
  OBVIOUS
<1> DEFINE U == {n \in Nat : n \notin T}
<1>2. PICK m \in U : \A n \in U : m <= n
  <2>1. U \subseteq Nat /\ U # {}
    BY <1>1
  <2> QED
    BY <2>1, LeastNatural
<1>3. m # 0 /\ m - 1 \in Nat /\ m - 1 \notin U
  BY <1>2
<1> QED
  BY <1>2, <1>3

(* The greatest number of a set below a bound.                                 *)
LEMMA Greatest ==
  ASSUME NEW n \in Nat, NEW T, T \subseteq 1 .. n, T # {}
  PROVE  /\ Max(T) \in T
         /\ \A x \in T : x <= Max(T)
<1> DEFINE U == {n - x : x \in T}
<1>1. U \subseteq Nat /\ U # {}
  <2>1. ASSUME NEW x \in T
        PROVE  n - x \in Nat
    <3>1. x \in Nat /\ x <= n
      OBVIOUS
    <3> QED
      BY <3>1
  <2>2. PICK x \in T : TRUE
    OBVIOUS
  <2> QED
    BY <2>1, <2>2
<1>2. PICK m \in U : \A y \in U : m <= y
  BY <1>1, LeastNatural
<1>3. PICK t \in T : m = n - t
  BY <1>2
<1>4. \A x \in T : t >= x
  BY <1>2, <1>3
<1>5. \E x \in T : \A y \in T : x >= y
  BY <1>4
<1> QED
  BY <1>5 DEF Max

(* The functions on the subsets of 1 .. n that obey a recursion up to k, which *)
(* takes the greatest index last.                                              *)
Solutions(A, n, base, step, k) ==
  {g \in [SUBSET (1 .. n) -> A] :
     /\ g[{}] = base
     /\ \A s \in SUBSET (1 .. k) : s # {} => g[s] = step[<<g[s \ {Max(s)}], Max(s)>>]}

(* One index more.                                                             *)
LEMMA FoldGrows ==
  ASSUME NEW A, NEW base \in A, NEW n \in Nat, NEW step \in [A \X (1 .. n) -> A],
         NEW k \in Nat, k + 1 <= n, Solutions(A, n, base, step, k) # {}
  PROVE  Solutions(A, n, base, step, k + 1) # {}
<1> PICK g \in Solutions(A, n, base, step, k) : TRUE
  OBVIOUS
<1> DEFINE h == [s \in SUBSET (1 .. n) |->
                   IF k + 1 \in s THEN step[<<g[s \ {k + 1}], k + 1>>] ELSE g[s]]
<1>0. /\ g \in [SUBSET (1 .. n) -> A] /\ g[{}] = base
      /\ \A s \in SUBSET (1 .. k) : s # {} => g[s] = step[<<g[s \ {Max(s)}], Max(s)>>]
  BY DEF Solutions
<1>1. k + 1 \in 1 .. n
  OBVIOUS
<1>2. h \in [SUBSET (1 .. n) -> A]
  <2>1. ASSUME NEW s \in SUBSET (1 .. n)
        PROVE  (IF k + 1 \in s THEN step[<<g[s \ {k + 1}], k + 1>>] ELSE g[s]) \in A
    <3>1. g[s] \in A /\ g[s \ {k + 1}] \in A
      BY <1>0
    <3>2. <<g[s \ {k + 1}], k + 1>> \in A \X (1 .. n)
      BY <1>1, <3>1
    <3> QED
      BY <3>1, <3>2
  <2> QED
    BY <2>1
<1>3. h[{}] = base
  BY <1>0
<1>4. ASSUME NEW s \in SUBSET (1 .. (k + 1)), s # {}
      PROVE  h[s] = step[<<h[s \ {Max(s)}], Max(s)>>]
  <2>1. s \in SUBSET (1 .. n)
    OBVIOUS
  <2>2. Max(s) \in s /\ \A x \in s : x <= Max(s)
    BY <1>4, <2>1, Greatest
  <2>3. CASE k + 1 \in s
    <3>1. Max(s) = k + 1
      <4>1. Max(s) \in 1 .. (k + 1) /\ k + 1 <= Max(s)
        BY <2>2, <2>3
      <4> QED
        BY <4>1
    <3>2. h[s \ {k + 1}] = g[s \ {k + 1}] /\ h[s] = step[<<g[s \ {k + 1}], k + 1>>]
      BY <2>1, <2>3
    <3> QED
      BY <3>1, <3>2
  <2>4. CASE k + 1 \notin s
    <3>1. s \in SUBSET (1 .. k)
      BY <2>4
    <3>2. g[s] = step[<<g[s \ {Max(s)}], Max(s)>>]
      BY <1>0, <1>4, <3>1
    <3>3. h[s] = g[s] /\ h[s \ {Max(s)}] = g[s \ {Max(s)}]
      BY <2>1, <2>4
    <3> QED
      BY <3>2, <3>3
  <2> QED
    BY <2>3, <2>4
<1> HIDE DEF h
<1> QED
  BY <1>2, <1>3, <1>4 DEF Solutions

(* A recursion that takes the greatest index last has a solution.              *)
LEMMA FoldExists ==
  ASSUME NEW A, NEW base \in A, NEW n \in Nat, NEW step \in [A \X (1 .. n) -> A]
  PROVE  Solutions(A, n, base, step, n) # {}
<1> DEFINE T == {k \in Nat : k <= n => Solutions(A, n, base, step, k) # {}}
<1>1. 0 \in T
  <2> DEFINE g == [s \in SUBSET (1 .. n) |-> base]
  <2>1. g \in [SUBSET (1 .. n) -> A] /\ g[{}] = base
    OBVIOUS
  <2>2. \A s \in SUBSET (1 .. 0) : s = {}
    OBVIOUS
  <2> HIDE DEF g
  <2>3. g \in Solutions(A, n, base, step, 0)
    BY <2>1, <2>2 DEF Solutions
  <2> QED
    BY <2>3
<1>2. ASSUME NEW k \in Nat, k \in T
      PROVE  k + 1 \in T
  <2>1. ASSUME k + 1 <= n
        PROVE  Solutions(A, n, base, step, k + 1) # {}
    <3>1. Solutions(A, n, base, step, k) # {}
      BY <1>2, <2>1
    <3> QED
      BY <2>1, <3>1, FoldGrows
  <2> QED
    BY <2>1
<1> HIDE DEF T
<1>3. n \in T
  BY <1>1, <1>2, SetInduction
<1> QED
  BY <1>3 DEF T

(* The prefixes of the indices, one after another.                             *)
LEMMA FirstIndices ==
  ASSUME NEW n \in Nat, NEW m \in 1 .. n
  PROVE  /\ 1 .. m \in SUBSET (1 .. n)
         /\ 1 .. m # {}
         /\ Max(1 .. m) = m
         /\ (1 .. m) \ {Max(1 .. m)} = 1 .. m - 1
<1>1. m \in 1 .. m /\ 1 .. m \subseteq 1 .. n
  OBVIOUS
<1>2. Max(1 .. m) \in 1 .. m /\ \A x \in 1 .. m : x <= Max(1 .. m)
  <2>1. 1 .. m # {}
    BY <1>1
  <2> QED
    BY <1>1, <2>1, Greatest
<1>3. Max(1 .. m) = m
  BY <1>1, <1>2
<1>4. (1 .. m) \ {m} = 1 .. m - 1
  OBVIOUS
<1>5. 1 .. m # {}
  BY <1>1
<1> QED
  BY <1>1, <1>3, <1>4, <1>5

(* What a fold makes of the first indices, from nothing to all of them.        *)
Recursion(f, A, n, step) ==
  /\ f[{}] \in A
  /\ \A m \in 1 .. n : f[1 .. m - 1] \in A => f[1 .. m] = step[<<f[1 .. m - 1], m>>]

Walks(f, A, n, step) ==
  {h \in [0 .. n -> A] :
     /\ h[0] = f[{}] /\ h[n] = f[1 .. n]
     /\ \A m \in 1 .. n : h[m] = step[<<h[m - 1], m>>]}

(* A recursion goes through the indices one by one.                            *)
LEMMA FoldPrefixes ==
  ASSUME NEW A, NEW n \in Nat, NEW f, NEW step \in [A \X (1 .. n) -> A],
         Recursion(f, A, n, step)
  PROVE  Walks(f, A, n, step) # {}
<1> DEFINE T == {k \in Nat : k <= n => f[1 .. k] \in A}
<1>0. 1 .. 0 = {}
  OBVIOUS
<1>1. 0 \in T
  BY <1>0 DEF Recursion
<1>2. ASSUME NEW k \in Nat, k \in T
      PROVE  k + 1 \in T
  <2>1. ASSUME NEW m \in 1 .. n, m = k + 1
        PROVE  f[1 .. m] \in A
    <3>1. m - 1 = k /\ f[1 .. m - 1] \in A
      BY <1>2, <2>1
    <3>2. <<f[1 .. m - 1], m>> \in A \X (1 .. n)
      BY <3>1
    <3> QED
      BY <3>1, <3>2 DEF Recursion
  <2> QED
    BY <2>1
<1> HIDE DEF T
<1>3. \A k \in Nat : k \in T
  BY <1>1, <1>2, SetInduction
<1>4. \A k \in 0 .. n : f[1 .. k] \in A
  BY <1>3 DEF T
<1> DEFINE h == [k \in 0 .. n |-> f[1 .. k]]
<1>5. h \in [0 .. n -> A]
  BY <1>4
<1>6. h[0] = f[{}] /\ h[n] = f[1 .. n]
  BY <1>0
<1>7. \A m \in 1 .. n : h[m] = step[<<h[m - 1], m>>]
  BY <1>4 DEF Recursion
<1> HIDE DEF h
<1>8. h \in Walks(f, A, n, step)
  BY <1>5, <1>6, <1>7 DEF Walks
<1> QED
  BY <1>8
===============================================================================
