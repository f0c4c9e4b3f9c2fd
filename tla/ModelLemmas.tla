------------------------------- MODULE ModelLemmas --------------------------
(***************************************************************************)
(* Facts about the operators the models are built from, and about sums     *)
(* over a set of any size.                                                 *)
(***************************************************************************)
EXTENDS Queues, Integers, FiniteSetTheorems, TLAPS

(* n is what the amounts of a add up to: w gives every subset its part,    *)
(* each member adds its amount to it, and what is worth nothing adds up to *)
(* nothing.                                                                *)
Tallies(w, a) ==
  /\ w \in [SUBSET DOMAIN a -> Nat]
  /\ \A R \in SUBSET DOMAIN a :
       /\ \A p \in R : w[R] = w[R \ {p}] + a[p]
       /\ (\A p \in R : a[p] = 0) => w[R] = 0

AddsUpTo(a, n) == \E w : Tallies(w, a) /\ w[DOMAIN a] = n

(* What adds up to something adds up to a number.                          *)
LEMMA TallyIsNat ==
  ASSUME NEW a, NEW n, AddsUpTo(a, n)
  PROVE  /\ n \in Nat
         /\ (\A p \in DOMAIN a : a[p] = 0) => n = 0
BY DEF AddsUpTo, Tallies

(* Where nothing is worth anything, the total is nothing.                  *)
LEMMA TallyStart ==
  ASSUME NEW a, \A p \in DOMAIN a : a[p] = 0
  PROVE  AddsUpTo(a, 0)
<1> DEFINE w == [R \in SUBSET DOMAIN a |-> 0]
<1>1. Tallies(w, a) /\ w[DOMAIN a] = 0
  BY DEF Tallies
<1> QED
  BY <1>1 DEF AddsUpTo

(* One amount grows, and the total with it.                                *)
LEMMA TallyGrows ==
  ASSUME NEW S, NEW a \in [S -> Nat], NEW n, AddsUpTo(a, n),
         NEW p \in S, NEW q \in Nat,
         NEW b \in [S -> Nat], b[p] = a[p] + q, \A x \in S \ {p} : b[x] = a[x]
  PROVE  AddsUpTo(b, n + q)
<1>1. PICK w : Tallies(w, a) /\ w[S] = n
  BY DEF AddsUpTo
<1> DEFINE v == [R \in SUBSET S |-> IF p \in R THEN w[R] + q ELSE w[R]]
<1>2. v \in [SUBSET S -> Nat] /\ v[S] = n + q
  BY <1>1 DEF Tallies
<1>3. ASSUME NEW R \in SUBSET S, NEW x \in R
      PROVE  v[R] = v[R \ {x}] + b[x]
  <2>1. R \ {x} \in SUBSET S /\ w[R] \in Nat /\ w[R \ {x}] \in Nat /\ a[x] \in Nat
    BY <1>1 DEF Tallies
  <2>2. w[R] = w[R \ {x}] + a[x]
    BY <1>1 DEF Tallies
  <2> QED
    BY <2>1, <2>2
<1>4. ASSUME NEW R \in SUBSET S, \A x \in R : b[x] = 0
      PROVE  v[R] = 0
  <2>1. \A x \in R : a[x] = 0 /\ (x = p => q = 0)
    BY <1>4
  <2>2. w[R] = 0
    BY <1>1, <2>1 DEF Tallies
  <2> QED
    BY <2>1, <2>2
<1>5. Tallies(v, b)
  BY <1>2, <1>3, <1>4 DEF Tallies
<1> QED
  BY <1>2, <1>5 DEF AddsUpTo

(* One amount shrinks, and the total with it.                              *)
LEMMA TallyShrinks ==
  ASSUME NEW S, NEW a \in [S -> Nat], NEW n, AddsUpTo(a, n),
         NEW p \in S, NEW q \in Nat,
         NEW b \in [S -> Nat], a[p] = b[p] + q, \A x \in S \ {p} : b[x] = a[x]
  PROVE  n - q \in Nat /\ AddsUpTo(b, n - q)
<1>1. PICK w : Tallies(w, a) /\ w[S] = n
  BY DEF AddsUpTo
<1>2. ASSUME NEW R \in SUBSET S, p \in R
      PROVE  /\ w[R] - q = w[R \ {p}] + b[p]
             /\ w[R] - q \in Nat
  <2>1. /\ R \ {p} \in SUBSET S /\ w[R] \in Nat /\ w[R \ {p}] \in Nat
        /\ w[R] = w[R \ {p}] + a[p]
    BY <1>1, <1>2 DEF Tallies
  <2> QED
    BY <2>1
<1> DEFINE v == [R \in SUBSET S |-> IF p \in R THEN w[R] - q ELSE w[R]]
<1>3. v \in [SUBSET S -> Nat] /\ v[S] = n - q
  BY <1>1, <1>2 DEF Tallies
<1>4. ASSUME NEW R \in SUBSET S, NEW x \in R
      PROVE  v[R] = v[R \ {x}] + b[x]
  <2>1. /\ R \ {x} \in SUBSET S /\ w[R] \in Nat /\ w[R \ {x}] \in Nat
        /\ a[x] \in Nat /\ b[x] \in Nat
    BY <1>1 DEF Tallies
  <2>2. w[R] = w[R \ {x}] + a[x]
    BY <1>1 DEF Tallies
  <2>3. CASE x = p
    BY <1>2, <2>1, <2>3
  <2>4. CASE x # p /\ p \in R
    BY <1>2, <2>1, <2>2, <2>4
  <2>5. CASE p \notin R
    BY <2>1, <2>2, <2>5
  <2> QED
    BY <2>3, <2>4, <2>5
<1>5. ASSUME NEW R \in SUBSET S, \A x \in R : b[x] = 0
      PROVE  v[R] = 0
  <2>1. CASE p \in R
    <3>1. R \ {p} \in SUBSET S /\ \A x \in R \ {p} : a[x] = 0
      BY <1>5
    <3>2. w[R \ {p}] = 0
      BY <1>1, <3>1 DEF Tallies
    <3>3. b[p] = 0 /\ w[R] - q = w[R \ {p}] + b[p]
      BY <1>2, <1>5, <2>1
    <3>4. w[R] - q = 0
      BY <3>2, <3>3
    <3> QED
      BY <2>1, <3>4
  <2>2. CASE p \notin R
    BY <1>1, <1>5, <2>2 DEF Tallies
  <2> QED
    BY <2>1, <2>2
<1>6. Tallies(v, b)
  BY <1>3, <1>4, <1>5 DEF Tallies
<1> QED
  BY <1>3, <1>6, S \in SUBSET S DEF AddsUpTo

-----------------------------------------------------------------------------
(* A set of naturals has a least member: what induction over a sequence's  *)
(* length rests on.                                                        *)
LEMMA LeastNatural ==
  ASSUME NEW T \in SUBSET Nat, T # {}
  PROVE  \E n \in T : \A m \in T : n <= m
<1> DEFINE U == {0 .. n : n \in T}
           R == StrictSubsetOrdering(Nat)
<1>1. IsWellFoundedOn(R, FiniteSubsetsOf(Nat))
  BY FS_StrictSubsetOrderingWellFounded
<1>2. U \subseteq FiniteSubsetsOf(Nat) /\ U # {}
  <2>1. \A n \in T : 0 .. n \in SUBSET Nat /\ IsFiniteSet(0 .. n)
    BY FS_Interval
  <2> QED
    BY <2>1 DEF FiniteSubsetsOf
<1>3. PICK x \in U : \A y \in U : ~ (<<y, x>> \in R)
  <2> HIDE DEF U, R
  <2> QED
    BY <1>1, <1>2, WFMin
<1>4. PICK n \in T : x = 0 .. n
  OBVIOUS
<1>5. ASSUME NEW m \in T, m < n
      PROVE  FALSE
  <2>1. 0 .. m \in U /\ 0 .. m \in SUBSET Nat /\ 0 .. n \in SUBSET Nat
    OBVIOUS
  <2>2. 0 .. m \subseteq 0 .. n /\ 0 .. m # 0 .. n
    BY <1>5
  <2>3. <<0 .. m, 0 .. n>> \in R
    BY <2>1, <2>2 DEF StrictSubsetOrdering
  <2> QED
    BY <2>1, <2>3, <1>3, <1>4
<1> QED
  BY <1>5

(* The partial results of a filter.                                        *)
IsKept(f, N, q, S) ==
  f = [n \in 0 .. N |->
         IF n = 0 THEN <<>>
         ELSE IF q[n] \in S THEN Append(f[n - 1], q[n]) ELSE f[n - 1]]

(* They exist, so the filter is the last of them.                          *)
LEMMA KeptExists ==
  ASSUME NEW N \in Nat, NEW q, NEW S
  PROVE  \E f : IsKept(f, N, q, S)
<1> DEFINE Ok(n) == \E f : IsKept(f, n, q, S)
           Bad == {n \in Nat : ~Ok(n)}
<1>1. SUFFICES ASSUME Bad # {} PROVE FALSE
  OBVIOUS
<1>2. PICK n \in Bad : \A m \in Bad : n <= m
  <2> HIDE DEF Ok
  <2> QED
    BY <1>1, LeastNatural
<1>3. CASE n = 0
  <2> DEFINE f == [k \in 0 .. 0 |-> <<>>]
  <2>1. IsKept(f, n, q, S)
    BY <1>3 DEF IsKept
  <2> QED
    BY <2>1
<1>4. CASE n # 0
  <2>1. n - 1 \in Nat /\ Ok(n - 1)
    <3> HIDE DEF Ok
    <3> QED
      BY <1>2, <1>4
  <2>2. PICK s : IsKept(s, n - 1, q, S)
    BY <2>1
  <2> DEFINE last == IF q[n] \in S THEN Append(s[n - 1], q[n]) ELSE s[n - 1]
             f == [k \in 0 .. n |-> IF k = n THEN last ELSE s[k]]
  <2>3. \A k \in 0 .. (n - 1) : s[k] =
          IF k = 0 THEN <<>>
          ELSE IF q[k] \in S THEN Append(s[k - 1], q[k]) ELSE s[k - 1]
    BY <2>2 DEF IsKept
  <2>4. \A k \in 0 .. n : f[k] =
          IF k = 0 THEN <<>>
          ELSE IF q[k] \in S THEN Append(f[k - 1], q[k]) ELSE f[k - 1]
    BY <1>4, <2>3
  <2>5. IsKept(f, n, q, S)
    <3>1. DOMAIN f = 0 .. n /\ f = [k \in 0 .. n |-> f[k]]
      OBVIOUS
    <3> HIDE DEF f, last
    <3> QED
      BY <2>4, <3>1 DEF IsKept
  <2> QED
    BY <2>5
<1> QED
  BY <1>3, <1>4

(* So a filter is the last of its partial results.                         *)
LEMMA KeepInIsLast ==
  ASSUME NEW q, Len(q) \in Nat, NEW S
  PROVE  \E f : IsKept(f, Len(q), q, S) /\ KeepIn(q, S) = f[Len(q)]
<1>1. PICK f : IsKept(f, Len(q), q, S)
  BY KeptExists
<1>2. PICK g : /\ g = [n \in 0 .. Len(q) |->
                        IF n = 0 THEN <<>>
                        ELSE IF q[n] \in S THEN Append(g[n - 1], q[n]) ELSE g[n - 1]]
               /\ KeepIn(q, S) = g[Len(q)]
  <2>1. f = [n \in 0 .. Len(q) |->
              IF n = 0 THEN <<>>
              ELSE IF q[n] \in S THEN Append(f[n - 1], q[n]) ELSE f[n - 1]]
    BY <1>1 DEF IsKept
  <2> QED
    BY <2>1 DEF KeepIn
<1> QED
  BY <1>2 DEF IsKept

(* k is what the first n of q have in S, in their order: g says where each *)
(* of its entries stood.                                                   *)
Thins(g, k, n, q, S) ==
  /\ g \in [1 .. Len(k) -> 1 .. n]
  /\ \A a, b \in 1 .. Len(k) : a < b => g[a] < g[b]
  /\ \A a \in 1 .. Len(k) : k[a] = q[g[a]] /\ k[a] \in S
  /\ \A i \in 1 .. n : q[i] \in S => \E a \in 1 .. Len(k) : g[a] = i

(* A filter keeps exactly what is in the set, in order.                    *)
LEMMA KeepInThins ==
  ASSUME NEW T, NEW q \in Seq(T), NEW S
  PROVE  /\ KeepIn(q, S) \in Seq(T)
         /\ \E g : Thins(g, KeepIn(q, S), Len(q), q, S)
<1>1. PICK f : IsKept(f, Len(q), q, S) /\ KeepIn(q, S) = f[Len(q)]
  BY KeepInIsLast
<1>2. \A n \in 0 .. Len(q) : f[n] =
        IF n = 0 THEN <<>>
        ELSE IF q[n] \in S THEN Append(f[n - 1], q[n]) ELSE f[n - 1]
  BY <1>1 DEF IsKept
<1> DEFINE Ok(n) == f[n] \in Seq(T) /\ \E g : Thins(g, f[n], n, q, S)
           Bad == {n \in 0 .. Len(q) : ~Ok(n)}
<1>3. SUFFICES ASSUME Bad # {} PROVE FALSE
  <2>1. Len(q) \in 0 .. Len(q)
    OBVIOUS
  <2> HIDE DEF Ok
  <2>2. Bad = {} => Ok(Len(q))
    BY <2>1
  <2> QED
    BY <1>1, <2>2 DEF Ok
<1>4. PICK n \in Bad : \A m \in Bad : n <= m
  <2> HIDE DEF Ok
  <2>1. Bad \in SUBSET Nat
    OBVIOUS
  <2> QED
    BY <1>3, <2>1, LeastNatural
<1>5. CASE n = 0
  <2> DEFINE none == [a \in {} |-> 0]
  <2>1. f[n] = <<>> /\ Len(f[n]) = 0
    BY <1>2, <1>5
  <2>2. Thins(none, f[n], n, q, S)
    <3>1. 1 .. Len(f[n]) = {} /\ 1 .. n = {}
      BY <1>5, <2>1
    <3> QED
      BY <3>1 DEF Thins
  <2>3. f[n] \in Seq(T)
    BY <2>1
  <2>4. \E g : Thins(g, f[n], n, q, S)
    <3> HIDE DEF none
    <3> QED
      BY <2>2
  <2> QED
    BY <2>3, <2>4
<1>6. CASE n # 0
  <2>1. n \in 1 .. Len(q) /\ n - 1 \in 0 .. Len(q) /\ Ok(n - 1)
    <3> HIDE DEF Ok
    <3> QED
      BY <1>4, <1>6
  <2> DEFINE k == f[n - 1]
  <2>2. PICK g : Thins(g, k, n - 1, q, S)
    BY <2>1
  <2>3. k \in Seq(T) /\ Len(k) \in Nat
    BY <2>1
  <2>4. CASE q[n] \notin S
    <3>1. f[n] = k
      BY <1>2, <1>6, <2>1, <2>4
    <3> HIDE DEF k
    <3>2. g \in [1 .. Len(k) -> 1 .. n]
      BY <2>1, <2>2 DEF Thins
    <3>3. \A i \in 1 .. n : q[i] \in S => \E a \in 1 .. Len(k) : g[a] = i
      <4>1. \A i \in 1 .. n : i = n \/ i \in 1 .. (n - 1)
        BY <2>1
      <4> QED
        BY <2>2, <2>4, <4>1 DEF Thins
    <3>4. Thins(g, k, n, q, S)
      BY <2>2, <3>2, <3>3 DEF Thins
    <3> QED
      BY <2>3, <3>1, <3>4
  <2>5. CASE q[n] \in S
    <3> DEFINE h == [a \in 1 .. Len(k) + 1 |-> IF a = Len(k) + 1 THEN n ELSE g[a]]
    <3>1. f[n] = Append(k, q[n])
      BY <1>2, <1>6, <2>1, <2>5
    <3> HIDE DEF k
    <3>2. /\ Append(k, q[n]) \in Seq(T) /\ Len(Append(k, q[n])) = Len(k) + 1
          /\ \A a \in 1 .. Len(k) : Append(k, q[n])[a] = k[a]
          /\ Append(k, q[n])[Len(k) + 1] = q[n]
      BY <2>1, <2>3
    <3>3. \A a \in 1 .. Len(k) + 1 : a = Len(k) + 1 \/ a \in 1 .. Len(k)
      BY <2>3
    <3>a. \A a \in 1 .. Len(k) : g[a] \in 1 .. (n - 1)
      BY <2>2 DEF Thins
    <3>4. h \in [1 .. Len(k) + 1 -> 1 .. n]
      BY <2>1, <2>3, <3>3, <3>a
    <3>5. \A a, b \in 1 .. Len(k) + 1 : a < b => h[a] < h[b]
      <4>1. ASSUME NEW a \in 1 .. Len(k) + 1, NEW b \in 1 .. Len(k) + 1, a < b
            PROVE  h[a] < h[b]
        <5>1. a \in 1 .. Len(k) /\ h[a] = g[a]
          BY <2>3, <4>1
        <5>2. CASE b = Len(k) + 1
          BY <2>1, <3>a, <5>1, <5>2
        <5>3. CASE b \in 1 .. Len(k)
          <6>1. h[b] = g[b]
            BY <2>3, <5>3
          <6> QED
            BY <2>2, <4>1, <5>1, <5>3, <6>1 DEF Thins
        <5> QED
          BY <3>3, <5>2, <5>3
      <4> QED
        BY <4>1
    <3>6. \A a \in 1 .. Len(k) + 1 :
            Append(k, q[n])[a] = q[h[a]] /\ Append(k, q[n])[a] \in S
      <4>1. ASSUME NEW a \in 1 .. Len(k)
            PROVE  Append(k, q[n])[a] = q[h[a]] /\ Append(k, q[n])[a] \in S
        <5>1. h[a] = g[a]
          BY <2>3
        <5> QED
          BY <2>2, <3>2, <5>1 DEF Thins
      <4>2. h[Len(k) + 1] = n
        BY <2>3
      <4> QED
        BY <2>5, <3>2, <3>3, <4>1, <4>2
    <3>7. \A i \in 1 .. n : q[i] \in S => \E a \in 1 .. Len(k) + 1 : h[a] = i
      <4>1. \A i \in 1 .. n : i = n \/ i \in 1 .. (n - 1)
        BY <2>1
      <4>2. h[Len(k) + 1] = n /\ Len(k) + 1 \in 1 .. Len(k) + 1
        BY <2>3
      <4>3. \A a \in 1 .. Len(k) : a \in 1 .. Len(k) + 1 /\ h[a] = g[a]
        BY <2>3
      <4> QED
        BY <2>2, <4>1, <4>2, <4>3 DEF Thins
    <3> HIDE DEF h
    <3>8. Thins(h, Append(k, q[n]), n, q, S)
      BY <3>2, <3>4, <3>5, <3>6, <3>7 DEF Thins
    <3> QED
      BY <3>1, <3>2, <3>8
  <2> QED
    BY <2>4, <2>5
<1> QED
  BY <1>5, <1>6

(* The same in terms of the entries: what a filter keeps is what is in the *)
(* set, and of two that it keeps the first comes first in the queue.       *)
LEMMA KeepInKeeps ==
  ASSUME NEW T, NEW q \in Seq(T), NEW S, NEW k, k = KeepIn(q, S)
  PROVE  /\ k \in Seq(T)
         /\ \A a \in DOMAIN k : k[a] \in S /\ \E i \in DOMAIN q : k[a] = q[i]
         /\ \A i \in DOMAIN q : q[i] \in S => \E a \in DOMAIN k : k[a] = q[i]
         /\ \A a, b \in DOMAIN k : a < b =>
              \E i, j \in DOMAIN q : i < j /\ k[a] = q[i] /\ k[b] = q[j]
<1>1. k \in Seq(T) /\ DOMAIN k = 1 .. Len(k) /\ DOMAIN q = 1 .. Len(q)
  BY KeepInThins
<1>2. PICK g : Thins(g, k, Len(q), q, S)
  BY KeepInThins
<1>3. \A a \in 1 .. Len(k) : k[a] = q[g[a]] /\ k[a] \in S /\ g[a] \in 1 .. Len(q)
  BY <1>2 DEF Thins
<1>4. \A a, b \in 1 .. Len(k) : a < b => g[a] < g[b]
  BY <1>2 DEF Thins
<1>5. \A i \in 1 .. Len(q) : q[i] \in S => \E a \in 1 .. Len(k) : k[a] = q[i]
  BY <1>2 DEF Thins
<1> QED
  BY <1>1, <1>3, <1>4, <1>5
=============================================================================
