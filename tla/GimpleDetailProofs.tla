------------------------- MODULE GimpleDetailProofs -------------------------
(***************************************************************************)
(* Theorems about STEP3 of GimplePhases, for every set of images and every *)
(* set of programs that refer to what they declare: no worker fills in a   *)
(* type it is filling in, types that one worker filled in are whole, and   *)
(* code paths lead where the code goes.  GimpleCallProofs goes on with the *)
(* steps behind it.                                                        *)
(***************************************************************************)
EXTENDS GimplePhases, SequenceTheorems, FiniteSetTheorems,
        WellFoundedInduction, TLAPS

(***************************************************************************)
(* Numbers and recursion                                                   *)
(***************************************************************************)
LEMMA LeastOf ==
    ASSUME NEW T, T \subseteq Nat, T # {}
    PROVE  \E x \in T : \A y \in T : x <= y
<1>1. PICK R : /\ IsWellFoundedOn(R, Nat)
               /\ \A x, y \in Nat : y < x => <<y, x>> \in R
  <2>1. \A x, y \in Nat : y < x => <<y, x>> \in OpToRel(<, Nat)
    BY DEF OpToRel
  <2> QED
    BY <2>1, NatLessThanWellFounded
<1>2. PICK x \in T : \A y \in T : ~ (<<y, x>> \in R)
  BY <1>1, WFMin
<1>3. ASSUME NEW y \in T PROVE x <= y
  <2>1. x \in Nat /\ y \in Nat
    OBVIOUS
  <2>2. ~ (y < x)
    BY <1>1, <1>2, <2>1, Zenon
  <2> QED
    BY <2>1, <2>2
<1> QED
  BY <1>3

(* Induction over a set of numbers.                                        *)
LEMMA AllNumbers ==
    ASSUME NEW T, 0 \in T, \A n \in Nat : n \in T => n + 1 \in T
    PROVE  \A n \in Nat : n \in T
<1> SUFFICES ASSUME \E n \in Nat : n \notin T PROVE FALSE
  OBVIOUS
<1> DEFINE B == {n \in Nat : n \notin T}
<1>1. B \subseteq Nat /\ B # {}
  OBVIOUS
<1>2. PICK m \in B : \A y \in B : m <= y
  <2> HIDE DEF B
  <2> QED
    BY <1>1, LeastOf
<1>3. m \in Nat /\ m # 0
  OBVIOUS
<1>4. m - 1 \in Nat /\ (m - 1) + 1 = m /\ ~ (m <= m - 1)
  BY <1>3
<1>5. m - 1 \in T
  BY <1>2, <1>4
<1> QED
  BY <1>4, <1>5

(* A function of numbers that gives each value from the one before.        *)
Follows(f, n, a, st) ==
    /\ f[0] = a
    /\ \A i \in 0..(n - 1) : f[i + 1] = st[<<i, f[i]>>]

LEMMA FollowsAgree ==
    ASSUME NEW a, NEW st, NEW m \in Nat, NEW n \in Nat, m <= n,
           NEW f, NEW g, Follows(f, m, a, st), Follows(g, n, a, st)
    PROVE  \A i \in 0..m : f[i] = g[i]
<1> DEFINE T == {i \in Nat : i <= m => f[i] = g[i]}
<1>1. 0 \in T
  BY DEF Follows
<1>2. ASSUME NEW i \in Nat, i \in T PROVE i + 1 \in T
  <2>1. CASE i + 1 <= m
    <3>1. i \in 0..(m - 1) /\ i \in 0..(n - 1) /\ i <= m
      BY <2>1
    <3>2. f[i] = g[i]
      BY <1>2, <3>1
    <3>3. f[i + 1] = st[<<i, f[i]>>] /\ g[i + 1] = st[<<i, g[i]>>]
      BY <3>1 DEF Follows
    <3> QED
      BY <3>2, <3>3
  <2> QED
    BY <2>1
<1>3. \A i \in Nat : i \in T
  <2> HIDE DEF T
  <2> QED
    BY <1>1, <1>2, AllNumbers
<1> QED
  BY <1>3

LEMMA PartsExist ==
    ASSUME NEW V, NEW a \in V, NEW st \in [Nat \X V -> V]
    PROVE  \A n \in Nat : \E f \in [0..n -> V] : Follows(f, n, a, st)
<1> DEFINE T == {n \in Nat : \E f \in [0..n -> V] : Follows(f, n, a, st)}
<1>1. 0 \in T
  <2>1. [i \in 0..0 |-> a] \in [0..0 -> V]
    OBVIOUS
  <2>2. Follows([i \in 0..0 |-> a], 0, a, st)
    BY DEF Follows
  <2> QED
    BY <2>1, <2>2
<1>2. ASSUME NEW n \in Nat, n \in T PROVE n + 1 \in T
  <2>1. PICK f \in [0..n -> V] : Follows(f, n, a, st)
    BY <1>2
  <2> DEFINE g == [i \in 0..(n + 1) |-> IF i <= n THEN f[i] ELSE st[<<n, f[n]>>]]
  <2>2. n \in 0..n /\ f[n] \in V /\ st[<<n, f[n]>>] \in V
    BY <2>1
  <2>3. g \in [0..(n + 1) -> V]
    BY <2>1, <2>2
  <2>4. g[0] = a
    BY <2>1 DEF Follows
  <2>5. ASSUME NEW i \in 0..((n + 1) - 1) PROVE g[i + 1] = st[<<i, g[i]>>]
    <3>1. i \in 0..n /\ i + 1 \in 0..(n + 1) /\ i \in 0..(n + 1)
      OBVIOUS
    <3>2. CASE i = n
      BY <3>1, <3>2
    <3>3. CASE i < n
      <4>1. i \in 0..(n - 1) /\ i + 1 <= n /\ i <= n
        BY <3>1, <3>3
      <4>2. f[i + 1] = st[<<i, f[i]>>]
        BY <2>1, <4>1 DEF Follows
      <4> QED
        BY <3>1, <4>1, <4>2
    <3> QED
      BY <3>1, <3>2, <3>3
  <2>6. Follows(g, n + 1, a, st)
    <3> HIDE DEF g
    <3> QED
      BY <2>4, <2>5 DEF Follows
  <2> QED
    BY <2>3, <2>6
<1>3. \A n \in Nat : n \in T
  <2> HIDE DEF T
  <2> QED
    BY <1>1, <1>2, AllNumbers
<1> QED
  BY <1>3

IsStep(st, V) == st \in [Nat \X V -> V]
Sequel(f, V, a, st) ==
    f \in [Nat -> V] /\ f[0] = a /\ \A n \in Nat : f[n + 1] = st[<<n, f[n]>>]

LEMMA Recursion ==
    ASSUME NEW V, NEW a, NEW st, a \in V, IsStep(st, V)
    PROVE  \E f : Sequel(f, V, a, st)
<1> DEFINE g(n) == CHOOSE f \in [0..n -> V] : Follows(f, n, a, st)
           F == [n \in Nat |-> g(n)[n]]
<1>1. ASSUME NEW n \in Nat PROVE g(n) \in [0..n -> V] /\ Follows(g(n), n, a, st)
  BY PartsExist DEF IsStep
<1> HIDE DEF g
<1>2. F \in [Nat -> V]
  BY <1>1
<1>3. F[0] = a
  BY <1>1 DEF Follows
<1>4. ASSUME NEW n \in Nat PROVE F[n + 1] = st[<<n, F[n]>>]
  <2>1. Follows(g(n), n, a, st) /\ Follows(g(n + 1), n + 1, a, st)
    BY <1>1
  <2>2. g(n)[n] = g(n + 1)[n]
    <3>1. \A i \in 0..n : g(n)[i] = g(n + 1)[i]
      BY <2>1, FollowsAgree
    <3> QED
      BY <3>1
  <2>3. g(n + 1)[n + 1] = st[<<n, g(n + 1)[n]>>]
    BY <2>1 DEF Follows
  <2> QED
    BY <2>2, <2>3
<1> QED
  <2> HIDE DEF F
  <2> QED
    BY <1>2, <1>3, <1>4 DEF Sequel

(***************************************************************************)
(* Lists                                                                   *)
(***************************************************************************)
LEMMA ListFacts ==
    ASSUME NEW s, IsList(s)
    PROVE  Len(s) \in Nat /\ DOMAIN s = 1..Len(s)
BY DEF IsList

LEMMA PushFacts ==
    ASSUME NEW S, NEW s \in Seq(S), NEW e \in S
    PROVE  /\ <<e>> \o s \in Seq(S)
           /\ Len(<<e>> \o s) = Len(s) + 1
           /\ (<<e>> \o s)[1] = e
           /\ \A c \in 2..(Len(s) + 1) : (<<e>> \o s)[c] = s[c - 1]
<1>1. <<e>> \in Seq(S) /\ Len(<<e>>) = 1 /\ <<e>>[1] = e
  OBVIOUS
<1>2. /\ Len(s) \in Nat /\ <<e>> \o s \in Seq(S)
      /\ Len(<<e>> \o s) = Len(s) + 1
  BY <1>1
<1>3. (<<e>> \o s)[1] = e
  BY <1>1, <1>2
<1>4. ASSUME NEW c \in 2..(Len(s) + 1) PROVE (<<e>> \o s)[c] = s[c - 1]
  BY <1>1, <1>2
<1> QED
  BY <1>2, <1>3, <1>4

(* Picked(S) makes one list of another: the number n + 1 is appended when  *)
(* it is in S.                                                             *)
Picked(S) == [p \in Nat \X Seq(Nat) |-> IF p[1] + 1 \in S
                                        THEN Append(p[2], p[1] + 1) ELSE p[2]]

LEMMA PickedIs ==
    ASSUME NEW S, NEW n \in Nat, NEW s \in Seq(Nat)
    PROVE  Picked(S)[<<n, s>>] = IF n + 1 \in S THEN Append(s, n + 1) ELSE s
<1>1. PICK p : p = <<n, s>>
  OBVIOUS
<1>2. p \in Nat \X Seq(Nat) /\ p[1] = n /\ p[2] = s
  BY <1>1
<1>3. Picked(S)[p] = IF p[1] + 1 \in S THEN Append(p[2], p[1] + 1) ELSE p[2]
  BY <1>2, Zenon DEF Picked
<1>4. Picked(S)[p] = IF n + 1 \in S THEN Append(s, n + 1) ELSE s
  BY <1>2, <1>3, Zenon
<1> QED
  BY <1>1, <1>4, Zenon

LEMMA NextNumber ==
    ASSUME NEW n \in Nat, NEW i \in Nat, i + 1 <= n
    PROVE  i + 1 \in 0..n /\ i + 1 # 0 /\ (i + 1) - 1 = i /\ i <= n
OBVIOUS

LEMMA UpToNext ==
    ASSUME NEW m \in Nat
    PROVE  \A i \in 1..(m + 1) : i = m + 1 \/ i \in 1..m
OBVIOUS

LEMMA InOrderIs ==
    ASSUME NEW S, NEW F \in [Nat -> Seq(Nat)], F[0] = <<>>,
           \A i \in Nat : F[i + 1] = IF i + 1 \in S THEN Append(F[i], i + 1) ELSE F[i],
           NEW n \in Nat
    PROVE  InOrder(n, S) = F[n]
<1> DEFINE Step(f, i) == IF i = 0 THEN <<>>
                         ELSE LET s == f[i - 1]
                              IN IF i \in S THEN Append(s, i) ELSE s
           G == [i \in 0..n |-> F[i]]
           U == CHOOSE f : f = [i \in 0..n |-> Step(f, i)]
<1>1. ASSUME NEW i \in 0..n PROVE G[i] = Step(G, i)
  <2>1. CASE i = 0
    BY <2>1
  <2>2. CASE i # 0
    <3>1. i - 1 \in Nat /\ (i - 1) + 1 = i /\ i - 1 \in 0..n
      BY <2>2
    <3>2. F[(i - 1) + 1] = IF (i - 1) + 1 \in S
                           THEN Append(F[i - 1], (i - 1) + 1) ELSE F[i - 1]
      BY <3>1, Zenon
    <3>3. F[i] = IF i \in S THEN Append(F[i - 1], i) ELSE F[i - 1]
      BY <3>1, <3>2, Zenon
    <3>4. G[i] = F[i] /\ G[i - 1] = F[i - 1]
      BY <3>1
    <3> QED
      BY <2>2, <3>3, <3>4
  <2> QED
    BY <2>1, <2>2
<1>2. G = [i \in 0..n |-> Step(G, i)]
  BY <1>1
<1>3. U = [i \in 0..n |-> Step(U, i)]
  <2> HIDE DEF G, Step
  <2> QED
    BY <1>2
<1>4. InOrder(n, S) = U[n]
  BY DEF InOrder
<1> HIDE DEF U, G
<1>5. \A i \in 0..n : U[i] = Step(U, i)
  BY <1>3
<1>6. U[0] = F[0]
  <2>1. 0 \in 0..n
    OBVIOUS
  <2>2. U[0] = Step(U, 0)
    BY <1>5, <2>1, Zenon
  <2>3. Step(U, 0) = <<>>
    BY Zenon
  <2> QED
    BY <2>2, <2>3, Zenon
<1>7. ASSUME NEW i \in Nat, i <= n => U[i] = F[i], i + 1 <= n
      PROVE  U[i + 1] = F[i + 1]
  <2>1. i + 1 \in 0..n /\ i + 1 # 0 /\ (i + 1) - 1 = i /\ i <= n
    BY <1>7, NextNumber, Zenon
  <2>4. U[i] = F[i]
    BY <1>7, <2>1
  <2>2. U[i + 1] = IF i + 1 \in S THEN Append(F[i], i + 1) ELSE F[i]
    BY <1>5, <2>1, <2>4
  <2>3. F[i + 1] = IF i + 1 \in S THEN Append(F[i], i + 1) ELSE F[i]
    BY Zenon
  <2> QED
    BY <2>2, <2>3
<1> HIDE DEF Step
<1> DEFINE T == {i \in Nat : i <= n => U[i] = F[i]}
<1>8. n \in T
  <2>1. 0 \in T
    BY <1>6, Zenon
  <2>2. ASSUME NEW i \in Nat, i \in T PROVE i + 1 \in T
    <3>1. i + 1 \in Nat /\ (i <= n => U[i] = F[i])
      BY <2>2
    <3>2. i + 1 <= n => U[i + 1] = F[i + 1]
      BY <1>7, <3>1, Zenon
    <3> QED
      BY <3>1, <3>2, Zenon
  <2> HIDE DEF T
  <2> QED
    BY <2>1, <2>2, AllNumbers
<1>9. U[n] = F[n]
  BY <1>8
<1> QED
  BY <1>4, <1>9, Zenon

LEMMA InOrderSteps ==
    ASSUME NEW S
    PROVE  /\ InOrder(0, S) = <<>>
           /\ \A n \in Nat :
                 /\ InOrder(n, S) \in Seq(Nat)
                 /\ InOrder(n + 1, S) = IF n + 1 \in S
                                        THEN Append(InOrder(n, S), n + 1)
                                        ELSE InOrder(n, S)
<1>1. <<>> \in Seq(Nat) /\ Picked(S) \in [Nat \X Seq(Nat) -> Seq(Nat)]
  BY DEF Picked
<1>2. PICK F \in [Nat -> Seq(Nat)] :
         F[0] = <<>> /\ \A n \in Nat : F[n + 1] = Picked(S)[<<n, F[n]>>]
  <2>1. PICK st : st = Picked(S)
    OBVIOUS
  <2>2. PICK a, V : a = <<>> /\ V = Seq(Nat)
    OBVIOUS
  <2>3. a \in V /\ IsStep(st, V)
    BY <1>1, <2>1, <2>2 DEF IsStep
  <2>4. PICK F : Sequel(F, V, a, st)
    BY <2>3, Recursion, Zenon
  <2> QED
    BY <2>1, <2>2, <2>4 DEF Sequel
<1>3. ASSUME NEW n \in Nat
      PROVE F[n + 1] = IF n + 1 \in S THEN Append(F[n], n + 1) ELSE F[n]
  <2>1. F[n] \in Seq(Nat)
    OBVIOUS
  <2>2. F[n + 1] = Picked(S)[<<n, F[n]>>]
    BY <1>2
  <2>3. Picked(S)[<<n, F[n]>>] = IF n + 1 \in S THEN Append(F[n], n + 1) ELSE F[n]
    BY <2>1, PickedIs
  <2> QED
    BY <2>2, <2>3, Zenon
<1>4. ASSUME NEW n \in Nat PROVE InOrder(n, S) = F[n]
  <2> HIDE <1>2
  <2>1. F \in [Nat -> Seq(Nat)] /\ F[0] = <<>>
    BY <1>2
  <2>2. \A i \in Nat : F[i + 1] = IF i + 1 \in S THEN Append(F[i], i + 1) ELSE F[i]
    BY <1>3
  <2> QED
    BY <2>1, <2>2, InOrderIs
<1>5. ASSUME NEW n \in Nat
      PROVE InOrder(n + 1, S) = IF n + 1 \in S THEN Append(InOrder(n, S), n + 1)
                                ELSE InOrder(n, S)
  <2>1. n + 1 \in Nat
    OBVIOUS
  <2>2. InOrder(n, S) = F[n] /\ InOrder(n + 1, S) = F[n + 1]
    BY <1>4, <2>1
  <2> QED
    BY <1>3, <2>2, Zenon
<1> QED
  BY <1>2, <1>4, <1>5

(* The list has what S has of the numbers up to n, each before the next.   *)
InOrderOf(r, n, S) ==
    /\ r \in Seq(Nat)
    /\ \A k \in 1..Len(r) : r[k] \in S /\ r[k] \in 1..n
    /\ \A i \in S : i \in 1..n => \E k \in 1..Len(r) : r[k] = i
    /\ \A j, k \in 1..Len(r) : j < k => r[j] < r[k]

LEMMA InOrderFacts ==
    ASSUME NEW n \in Nat, NEW S
    PROVE  InOrderOf(InOrder(n, S), n, S)
<1> DEFINE T == {m \in Nat : InOrderOf(InOrder(m, S), m, S)}
<1>1. 0 \in T
  <2>1. <<>> \in Seq(Nat) /\ Len(<<>>) = 0
    OBVIOUS
  <2>2. InOrderOf(<<>>, 0, S)
    BY <2>1 DEF InOrderOf
  <2> QED
    BY <2>2, InOrderSteps
<1>2. ASSUME NEW m \in Nat, m \in T PROVE m + 1 \in T
  <2>1. PICK r : r = InOrder(m, S)
    OBVIOUS
  <2>2. InOrderOf(r, m, S)
    BY <1>2, <2>1
  <2>3. CASE m + 1 \in S
    <3>1. PICK q : q = Append(r, m + 1)
      OBVIOUS
    <3>2. r \in Seq(Nat) /\ Len(r) \in Nat
      BY <2>2 DEF InOrderOf
    <3>3. /\ q \in Seq(Nat) /\ Len(q) = Len(r) + 1
          /\ \A k \in 1..Len(r) : q[k] = r[k]
          /\ q[Len(r) + 1] = m + 1
      BY <3>1, <3>2
    <3>4. \A k \in 1..Len(q) : q[k] \in S /\ q[k] \in 1..(m + 1)
      <4> TAKE k \in 1..Len(q)
      <4>1. CASE k = Len(r) + 1
        BY <2>3, <3>3, <4>1
      <4>2. CASE k \in 1..Len(r)
        BY <2>2, <3>3, <4>2, SMTT(30) DEF InOrderOf
      <4>3. k = Len(r) + 1 \/ k \in 1..Len(r)
        BY <3>2, <3>3, UpToNext
      <4> QED
        BY <4>1, <4>2, <4>3, Zenon
    <3>5. \A i \in S : i \in 1..(m + 1) => \E k \in 1..Len(q) : q[k] = i
      <4> TAKE i \in S
      <4> HAVE i \in 1..(m + 1)
      <4>1. CASE i = m + 1
        <5>1. Len(r) + 1 \in 1..Len(q) /\ q[Len(r) + 1] = i
          BY <3>2, <3>3, <4>1
        <5> QED
          BY <5>1, Zenon
      <4>2. CASE i \in 1..m
        <5>1. PICK k \in 1..Len(r) : r[k] = i
          BY <2>2, <4>2 DEF InOrderOf
        <5>2. k \in 1..Len(q) /\ q[k] = i
          BY <3>2, <3>3, <5>1
        <5> QED
          BY <5>2, Zenon
      <4> QED
        BY <4>1, <4>2
    <3>6. \A j, k \in 1..Len(q) : j < k => q[j] < q[k]
      <4> TAKE j, k \in 1..Len(q)
      <4> HAVE j < k
      <4>1. j \in 1..Len(r) /\ q[j] = r[j] /\ r[j] \in 1..m
        BY <2>2, <3>2, <3>3 DEF InOrderOf
      <4>2. CASE k = Len(r) + 1
        BY <3>3, <4>1, <4>2
      <4>3. CASE k \in 1..Len(r)
        BY <2>2, <3>3, <4>1, <4>3 DEF InOrderOf
      <4>4. k = Len(r) + 1 \/ k \in 1..Len(r)
        BY <3>2, <3>3, UpToNext
      <4> QED
        BY <4>2, <4>3, <4>4, Zenon
    <3>7. InOrderOf(q, m + 1, S)
      BY <3>3, <3>4, <3>5, <3>6 DEF InOrderOf
    <3>8. InOrder(m + 1, S) = q
      <4>1. InOrder(m + 1, S) = Append(InOrder(m, S), m + 1)
        BY <2>3, InOrderSteps, Zenon
      <4> QED
        BY <2>1, <3>1, <4>1, Zenon
    <3> QED
      BY <3>7, <3>8
  <2>4. CASE m + 1 \notin S
    <3>1. InOrderOf(r, m + 1, S)
      <4>1. \A i : i \in S /\ i \in 1..(m + 1) => i \in 1..m
        BY <2>4, UpToNext
      <4>2. \A i : i \in 1..m => i \in 1..(m + 1)
        OBVIOUS
      <4> QED
        BY <2>2, <4>1, <4>2, Zenon DEF InOrderOf
    <3>2. InOrder(m + 1, S) = r
      <4>1. InOrder(m + 1, S) = InOrder(m, S)
        BY <2>4, InOrderSteps, Zenon
      <4> QED
        BY <2>1, <4>1, Zenon
    <3> QED
      BY <3>1, <3>2
  <2> QED
    BY <2>3, <2>4
<1>3. n \in T
  <2> HIDE DEF T
  <2> QED
    BY <1>1, <1>2, AllNumbers
<1> QED
  BY <1>3

LEMMA ListOf ==
    ASSUME NEW n \in Nat, NEW s, s = [i \in 1..n |-> s[i]]
    PROVE  IsList(s) /\ Len(s) = n /\ DOMAIN s = 1..n
<1> DEFINE S == {s[i] : i \in DOMAIN s}
<1>1. DOMAIN s = 1..n
  OBVIOUS
<1>2. s \in [1..n -> S]
  BY <1>1
<1>3. s \in Seq(S)
  <2> HIDE DEF S
  <2> QED
    BY <1>2
<1>4. Len(s) = n
  <2> HIDE DEF S
  <2> QED
    BY <1>1, <1>3
<1> QED
  BY <1>1, <1>3, <1>4 DEF IsList

Joined(r, s, t) ==
    /\ IsList(r) /\ Len(r) = Len(s) + Len(t)
    /\ \A i \in 1..Len(s) : r[i] = s[i]
    /\ \A i \in 1..Len(t) : r[Len(s) + i] = t[i]
    /\ \A i \in 1..Len(r) : i \in 1..Len(s) \/ \E j \in 1..Len(t) : i = Len(s) + j

LEMMA JoinedLists ==
    ASSUME NEW s, NEW t, IsList(s), IsList(t)
    PROVE  Joined(s \o t, s, t)
<1> DEFINE A == {s[i] : i \in DOMAIN s}
           B == {t[i] : i \in DOMAIN t}
<1>1. s \in Seq(A) /\ t \in Seq(B)
  BY DEF IsList
<1>2. A \subseteq A \cup B /\ B \subseteq A \cup B
  OBVIOUS
<1> HIDE DEF A, B
<1>3. PICK S : S = A \cup B
  OBVIOUS
<1>4. s \in Seq(S) /\ t \in Seq(S)
  BY <1>1, <1>2, <1>3, SeqMonotonic
<1>5. PICK r : r = s \o t
  OBVIOUS
<1>6. /\ r \in Seq(S) /\ Len(r) = Len(s) + Len(t)
      /\ Len(s) \in Nat /\ Len(t) \in Nat
      /\ \A i \in 1..Len(s) : r[i] = s[i]
      /\ \A i \in 1..Len(t) : r[Len(s) + i] = t[i]
  BY <1>4, <1>5
<1>7. \A i \in 1..Len(r) : i \in 1..Len(s) \/ \E j \in 1..Len(t) : i = Len(s) + j
  <2> TAKE i \in 1..Len(r)
  <2>1. CASE i <= Len(s)
    BY <1>6, <2>1
  <2>2. CASE i > Len(s)
    <3>1. i - Len(s) \in 1..Len(t) /\ i = Len(s) + (i - Len(s))
      BY <1>6, <2>2
    <3> QED
      BY <3>1
  <2> QED
    BY <1>6, <2>1, <2>2
<1>8. IsList(r)
  <2>1. r \in [1..Len(r) -> S] /\ Len(r) \in Nat
    BY <1>6
  <2>2. r = [i \in 1..Len(r) |-> r[i]]
    BY <2>1
  <2> QED
    BY <2>1, <2>2, ListOf
<1> QED
  BY <1>5, <1>6, <1>7, <1>8 DEF Joined

(***************************************************************************)
(* Trees, nodes and parts                                                  *)
(***************************************************************************)
LEMMA TreeFacts ==
    ASSUME TypesSound(types), NEW u \in Image
    PROVE  /\ Len(types.tree[u]) \in Nat /\ Len(types.decl[u]) \in Nat
           /\ DOMAIN types.tree[u] = 1..Len(types.tree[u])
           /\ DOMAIN types.decl[u] = 1..Len(types.decl[u])
BY ListFacts DEF TypesSound

LEMMA PlaceFacts ==
    ASSUME TypesSound(types), NEW x
    PROVE  /\ x \in Trees => /\ x = <<x[1], x[2]>> /\ x[1] \in Image
                             /\ x[2] \in DOMAIN types.tree[x[1]] /\ x[2] \in Nat
                             /\ ~ IsDecl(x)
           /\ x \in Decls => /\ x = <<x[1], x[2]>> /\ x[1] \in Image
                             /\ x[2] - Len(types.tree[x[1]]) \in DOMAIN types.decl[x[1]]
                             /\ x[2] \in Nat /\ IsDecl(x)
<1>1. ASSUME x \in Trees
      PROVE  /\ x = <<x[1], x[2]>> /\ x[1] \in Image /\ x[2] \in Nat
             /\ x[2] \in DOMAIN types.tree[x[1]] /\ ~ IsDecl(x)
  <2>1. PICK u \in Image : \E t \in DOMAIN types.tree[u] : x = <<u, t>>
    BY <1>1 DEF Trees
  <2>3. PICK t \in DOMAIN types.tree[u] : x = <<u, t>>
    BY <2>1
  <2>2. t \in Nat /\ t <= Len(types.tree[u]) /\ Len(types.tree[u]) \in Nat
    BY <2>3, TreeFacts
  <2> QED
    BY <2>3, <2>2 DEF IsDecl
<1>2. ASSUME x \in Decls
      PROVE  /\ x = <<x[1], x[2]>> /\ x[1] \in Image /\ x[2] \in Nat
             /\ x[2] - Len(types.tree[x[1]]) \in DOMAIN types.decl[x[1]]
             /\ IsDecl(x)
  <2>1. PICK u \in Image : \E i \in DOMAIN types.decl[u] :
                              x = <<u, Len(types.tree[u]) + i>>
    BY <1>2 DEF Decls
  <2>3. PICK i \in DOMAIN types.decl[u] : x = <<u, Len(types.tree[u]) + i>>
    BY <2>1
  <2>2. PICK n : n = Len(types.tree[u])
    OBVIOUS
  <2>4. n \in Nat /\ i \in Nat /\ i >= 1
    BY <2>2, TreeFacts
  <2>5. (n + i) - n = i /\ n + i > n /\ n + i \in Nat
    BY <2>4
  <2>6. x[1] = u /\ x[2] = n + i
    BY <2>2, <2>3
  <2> QED
    BY <2>2, <2>3, <2>5, <2>6 DEF IsDecl
<1> QED
  BY <1>1, <1>2

LEMMA NoneIsNoPlace ==
    ASSUME TypesSound(types)
    PROVE  None \notin Trees /\ None \notin Decls /\ None \notin Nodes
<1>1. ASSUME NEW x \in Trees \cup Decls PROVE x # None
  <2>1. PICK u, k : x = <<u, k>>
    BY PlaceFacts
  <2> QED
    BY <2>1 DEF None
<1> QED
  BY <1>1 DEF Nodes

LEMMA NodeFacts ==
    ASSUME TypesSound(types), NEW x \in Trees, NodeOf(x) # None
    PROVE  /\ NodeOf(x) \in Trees /\ NodeOf(x) \in Nodes
           /\ NodeOf(NodeOf(x)) = NodeOf(x) /\ ~ IsDecl(NodeOf(x))
<1>0. PICK u \in Image : \E t \in DOMAIN types.tree[u] : x = <<u, t>>
  BY DEF Trees
<1>1. PICK t \in DOMAIN types.tree[u] : x = <<u, t>>
  BY <1>0
<1>2. Tree(x) = types.tree[u][t] /\ TreeSound(types, u, t)
  BY <1>1 DEF Tree, TypesSound
<1>3. PICK c : c = IF Tree(x).canon = 0 THEN t ELSE Tree(x).canon
  OBVIOUS
<1>4. c \in DOMAIN types.tree[u] /\ types.tree[u][c].canon = 0
  BY <1>2, <1>1, <1>3 DEF TreeSound
<1>5. Tree(<<u, c>>) = types.tree[u][c] /\ TreeSound(types, u, c)
  BY <1>1, <1>4 DEF Tree, TypesSound
<1>6. NodeOf(x) = CASE Tree(<<u, c>>).status = "named" -> <<types.owner[c], c>>
                    [] Tree(<<u, c>>).status = "unnamed" -> <<u, c>>
                    [] OTHER -> None
  BY <1>1, <1>3 DEF NodeOf
<1>7. CASE Tree(<<u, c>>).status = "named"
  <2>1. PICK o : o = types.owner[c]
    OBVIOUS
  <2>2. /\ o \in Image /\ c \in DOMAIN types.tree[o]
        /\ types.tree[o][c].canon = 0 /\ types.tree[o][c].status = "named"
    BY <1>4, <1>5, <1>7, <2>1 DEF TreeSound
  <2>3. NodeOf(x) = <<o, c>>
    BY <1>6, <1>7, <2>1
  <2>4. <<o, c>> \in Trees
    BY <2>2, SMTT(30) DEF Trees
  <2>5. NodeOf(<<o, c>>) = <<o, c>>
    BY <2>1, <2>2, Zenon DEF NodeOf, Tree
  <2> QED
    BY <2>3, <2>4, <2>5, PlaceFacts DEF Nodes
<1>8. CASE Tree(<<u, c>>).status = "unnamed"
  <2>1. NodeOf(x) = <<u, c>>
    BY <1>6, <1>8
  <2>2. <<u, c>> \in Trees
    BY <1>1, <1>4, SMTT(30) DEF Trees
  <2>3. NodeOf(<<u, c>>) = <<u, c>>
    BY <1>4, <1>5, <1>8, Zenon DEF NodeOf, Tree
  <2> QED
    BY <2>1, <2>2, <2>3, PlaceFacts DEF Nodes
<1>9. CASE Tree(<<u, c>>).status \notin {"named", "unnamed"}
  BY <1>6, <1>9
<1> QED
  BY <1>7, <1>8, <1>9

LEMMA NodeAtFacts ==
    ASSUME TypesSound(types), NEW x \in Trees \cup Decls
    PROVE  /\ NodeAt(x) # None => /\ NodeAt(x) \in Nodes /\ x \in TreesOf(NodeAt(x))
                                  /\ NodeAt(NodeAt(x)) = NodeAt(x)
           /\ x \in Decls => NodeAt(x) = x
           /\ x \in Trees => NodeAt(x) = NodeOf(x) /\ NodeAt(x) \notin Decls
<1>1. CASE x \in Trees
  <2>1. NodeAt(x) = NodeOf(x)
    BY <1>1, PlaceFacts DEF NodeAt
  <2>2. CASE NodeOf(x) = None
    BY <1>1, <2>1, <2>2, NoneIsNoPlace, PlaceFacts
  <2>3. CASE NodeOf(x) # None
    <3>1. /\ NodeOf(x) \in Trees /\ NodeOf(x) \in Nodes
          /\ NodeOf(NodeOf(x)) = NodeOf(x) /\ ~ IsDecl(NodeOf(x))
      BY <1>1, <2>3, NodeFacts
    <3>2. NodeOf(x) \notin Decls /\ x \notin Decls
      BY <1>1, <3>1, PlaceFacts
    <3> QED
      BY <1>1, <2>1, <3>1, <3>2 DEF NodeAt, TreesOf
  <2> QED
    BY <2>2, <2>3
<1>2. CASE x \in Decls
  <2>1. NodeAt(x) = x /\ x \notin Trees
    BY <1>2, PlaceFacts DEF NodeAt
  <2> QED
    BY <1>2, <2>1, PlaceFacts DEF Nodes, TreesOf
<1> QED
  BY <1>1, <1>2

(* What is looked at below a type is a type of the same image; only the    *)
(* first part is what `next' is about.                                     *)
PartsSound(x, p) ==
    /\ IsList(p)
    /\ \A i \in DOMAIN p :
          /\ p[i].role \in {"next", "none", "child", "value"}
          /\ p[i].role # "value" => <<x[1], p[i].type>> \in Trees
          /\ p[i].role = "next" => i = 1

LEMMA EachFacts ==
    ASSUME NEW s, NEW role, IsList(s)
    PROVE  /\ IsList(Each(s, role)) /\ DOMAIN Each(s, role) = DOMAIN s
           /\ Len(Each(s, role)) = Len(s)
           /\ \A i \in DOMAIN s : Each(s, role)[i] = Part(s[i].type, role)
           /\ \A i \in DOMAIN Each(s, role) :
                 /\ i \in DOMAIN s /\ Each(s, role)[i].role = role
                 /\ Each(s, role)[i].type = s[i].type
<1>1. Len(s) \in Nat /\ DOMAIN s = 1..Len(s)
  BY ListFacts
<1>2. PICK e : e = Each(s, role)
  OBVIOUS
<1>3. e = [i \in 1..Len(s) |-> e[i]] /\ \A i \in DOMAIN s : e[i] = Part(s[i].type, role)
  BY <1>1, <1>2 DEF Each
<1>4. /\ DOMAIN e = DOMAIN s
      /\ \A i \in DOMAIN s : e[i].role = role /\ e[i].type = s[i].type
  BY <1>1, <1>2, <1>3 DEF Each, Part
<1>5. IsList(e) /\ Len(e) = Len(s)
  BY <1>1, <1>3, ListOf
<1> QED
  BY <1>2, <1>3, <1>4, <1>5

LEMMA OneIsList ==
    ASSUME NEW e
    PROVE  IsList(<<e>>) /\ Len(<<e>>) = 1 /\ <<e>>[1] = e /\ DOMAIN <<e>> = {1}
<1>1. <<e>> \in Seq({e}) /\ Len(<<e>>) = 1 /\ DOMAIN <<e>> = 1..1
  OBVIOUS
<1> QED
  BY <1>1 DEF IsList

LEMMA NoneIsList == IsList(<<>>) /\ Len(<<>>) = 0 /\ DOMAIN <<>> = {}
<1>1. <<>> \in Seq({<<>>[i] : i \in DOMAIN <<>>}) /\ Len(<<>>) = 0
  OBVIOUS
<1>2. DOMAIN <<>> = 1..0
  OBVIOUS
<1> QED
  BY <1>1, <1>2 DEF IsList

(* A first part and others behind it.                                      *)
LEMMA FirstAndRest ==
    ASSUME NEW x, NEW e, NEW s, IsList(s),
           e.role \in {"next", "none"}, <<x[1], e.type>> \in Trees,
           \A i \in DOMAIN s :
              /\ s[i].role \in {"none", "child", "value"}
              /\ s[i].role # "value" => <<x[1], s[i].type>> \in Trees
    PROVE  PartsSound(x, <<e>> \o s)
<1>1. PICK p : p = <<e>> \o s
  OBVIOUS
<1>2. /\ IsList(p) /\ Len(p) = 1 + Len(s) /\ p[1] = e
      /\ \A i \in 1..Len(s) : p[1 + i] = s[i]
      /\ \A i \in 1..Len(p) : i = 1 \/ \E j \in 1..Len(s) : i = 1 + j
  <2>1. PICK f : f = <<e>>
    OBVIOUS
  <2>2. IsList(f) /\ Len(f) = 1 /\ f[1] = e
    BY <2>1, OneIsList
  <2>3. 1 \in 1..Len(f) /\ \A k \in 1..Len(f) : k = 1
    BY <2>2
  <2>4. Joined(p, f, s)
    BY <1>1, <2>1, <2>2, JoinedLists
  <2> QED
    BY <2>2, <2>3, <2>4 DEF Joined
<1>3. DOMAIN p = 1..Len(p) /\ DOMAIN s = 1..Len(s)
  BY <1>2, ListFacts
<1>4. ASSUME NEW i \in DOMAIN p
      PROVE  /\ p[i].role \in {"next", "none", "child", "value"}
             /\ p[i].role # "value" => <<x[1], p[i].type>> \in Trees
             /\ p[i].role = "next" => i = 1
  <2>1. CASE i = 1
    BY <1>2, <2>1
  <2>2. CASE i # 1
    <3>1. PICK j \in DOMAIN s : i = 1 + j
      BY <1>2, <1>3, <2>2
    <3>2. p[i] = s[j]
      BY <1>2, <1>3, <3>1
    <3> QED
      BY <3>2
  <2> QED
    BY <2>1, <2>2
<1> QED
  BY <1>1, <1>2, <1>4 DEF PartsSound

LEMMA PartsFacts ==
    ASSUME TypesSound(types), NEW x \in Trees \cup Decls
    PROVE  PartsSound(x, Parts(x))
<1>1. CASE x \in Decls
  <2>1. /\ x[1] \in Image /\ IsDecl(x)
        /\ x[2] - Len(types.tree[x[1]]) \in DOMAIN types.decl[x[1]]
    BY <1>1, PlaceFacts
  <2>2. PICK d : d = Decl(x)
    OBVIOUS
  <2>3. DeclSound(types, x[1], d)
    BY <2>1, <2>2 DEF TypesSound, Decl
  <2>4. CASE d.kind = "asm"
    <3>1. Parts(x) = <<>>
      BY <2>1, <2>2, <2>4 DEF Parts
    <3> QED
      BY <3>1, NoneIsList DEF PartsSound
  <2>5. CASE d.kind # "asm"
    <3>1. PICK e : e = Part(d.type, "next")
      OBVIOUS
    <3>2. PICK s : s = Each(d.args, "child")
      OBVIOUS
    <3>3. Parts(x) = <<e>> \o s
      BY <2>1, <2>2, <2>5, <3>1, <3>2 DEF Parts
    <3>4. e.role = "next" /\ <<x[1], e.type>> \in Trees
      BY <2>1, <2>3, <2>5, <3>1 DEF DeclSound, Part, Trees
    <3>5. IsList(s)
      BY <2>3, <3>2, EachFacts DEF DeclSound
    <3>6. ASSUME NEW i \in DOMAIN s
          PROVE  s[i].role = "child" /\ <<x[1], s[i].type>> \in Trees
      <4>1. i \in DOMAIN d.args /\ s[i] = Part(d.args[i].type, "child")
        BY <2>3, <3>2, EachFacts DEF DeclSound
      <4> QED
        BY <2>1, <2>3, <2>5, <4>1 DEF DeclSound, Part, Trees
    <3> QED
      BY <3>3, <3>4, <3>5, <3>6, FirstAndRest
  <2> QED
    BY <2>4, <2>5
<1>2. CASE x \in Trees
  <2>1. x[1] \in Image /\ x[2] \in DOMAIN types.tree[x[1]] /\ ~ IsDecl(x)
    BY <1>2, PlaceFacts
  <2>2. PICK r : r = Tree(x)
    OBVIOUS
  <2>3. /\ IsList(r.fields)
        /\ r.code \in {"pointer", "reference", "vector", "array", "complex", "function"}
              => <<x[1], r.elem>> \in Trees
        /\ r.code \in Aggregate \cup {"function"} =>
              \A i \in DOMAIN r.fields : <<x[1], r.fields[i].type>> \in Trees
    <3>1. TreeSound(types, x[1], x[2]) /\ r = types.tree[x[1]][x[2]]
      BY <2>1, <2>2 DEF TypesSound, Tree
    <3>2. \A k \in DOMAIN types.tree[x[1]] : <<x[1], k>> \in Trees
      BY <2>1, SMTT(30) DEF Trees
    <3>3. /\ IsList(r.fields)
          /\ r.code \in {"pointer", "reference", "vector", "array", "complex", "function"}
                => r.elem \in DOMAIN types.tree[x[1]]
          /\ r.code \in Aggregate \cup {"function"} =>
                \A i \in DOMAIN r.fields : r.fields[i].type \in DOMAIN types.tree[x[1]]
      BY <3>1, Zenon DEF TreeSound
    <3> QED
      BY <3>2, <3>3
  <2>4. CASE r.code \in {"pointer", "reference", "vector", "array", "complex"}
    <3>1. PICK role \in {"next", "none"} : Parts(x) = <<Part(r.elem, role)>>
      BY <2>1, <2>2, <2>4 DEF Parts, Aggregate
    <3>2. PICK e : e = Part(r.elem, role)
      OBVIOUS
    <3>3. e.role = role /\ <<x[1], e.type>> \in Trees
      BY <2>3, <2>4, <3>2 DEF Part
    <3>4. PartsSound(x, <<e>>)
      BY <3>3, OneIsList DEF PartsSound
    <3> QED
      BY <3>1, <3>2, <3>4
  <2>5. CASE r.code \in Aggregate
    <3>1. PICK s : s = Each(r.fields, "child")
      OBVIOUS
    <3>2. Parts(x) = s
      BY <2>1, <2>2, <2>5, <3>1 DEF Parts, Aggregate
    <3>3. IsList(s) /\ \A i \in DOMAIN s : /\ s[i].role = "child"
                                           /\ <<x[1], s[i].type>> \in Trees
      <4>1. /\ IsList(s)
            /\ \A i \in DOMAIN s : /\ i \in DOMAIN r.fields /\ s[i].role = "child"
                                   /\ s[i].type = r.fields[i].type
        BY <2>3, <3>1, EachFacts
      <4> QED
        BY <2>3, <2>5, <4>1
    <3> QED
      BY <3>2, <3>3 DEF PartsSound
  <2>6. CASE r.code = "enum"
    <3>1. PICK s : s = Each(r.fields, "value")
      OBVIOUS
    <3>2. Parts(x) = s
      BY <2>1, <2>2, <2>6, <3>1 DEF Parts, Aggregate
    <3>3. IsList(s) /\ \A i \in DOMAIN s : s[i].role = "value"
      BY <2>3, <3>1, EachFacts
    <3> QED
      BY <3>2, <3>3 DEF PartsSound
  <2>7. CASE r.code = "function"
    <3>1. PICK e, s, t : /\ e = Part(r.elem, "none") /\ s = Each(r.fields, "none")
                         /\ t = IF r.va THEN <<Part(0, "value")>> ELSE <<>>
      OBVIOUS
    <3>2. Parts(x) = <<e>> \o s \o t
      BY <2>1, <2>2, <2>7, <3>1 DEF Parts, Aggregate
    <3>3. e.role = "none" /\ <<x[1], e.type>> \in Trees
      BY <2>3, <2>7, <3>1 DEF Part
    <3>4. IsList(s) /\ \A i \in DOMAIN s : /\ s[i].role = "none"
                                           /\ <<x[1], s[i].type>> \in Trees
      <4>1. /\ IsList(s)
            /\ \A i \in DOMAIN s : /\ i \in DOMAIN r.fields /\ s[i].role = "none"
                                   /\ s[i].type = r.fields[i].type
        BY <2>3, <3>1, EachFacts
      <4> QED
        BY <2>3, <2>7, <4>1
    <3>5. IsList(t) /\ \A i \in DOMAIN t : t[i].role = "value"
      BY <3>1, OneIsList, NoneIsList DEF Part
    <3>6. PICK p : p = <<e>> \o s
      OBVIOUS
    <3>7. PartsSound(x, p) /\ \A i \in DOMAIN p : p[i].role = "none"
      <4>1. PartsSound(x, p)
        BY <3>3, <3>4, <3>6, FirstAndRest
      <4>2. ASSUME NEW i \in DOMAIN p PROVE p[i].role = "none"
        <5>1. /\ IsList(p) /\ p[1] = e /\ Len(p) = 1 + Len(s)
              /\ \A j \in 1..Len(s) : p[1 + j] = s[j]
              /\ \A k \in 1..Len(p) : k = 1 \/ \E j \in 1..Len(s) : k = 1 + j
          <6>1. PICK f : f = <<e>>
            OBVIOUS
          <6>2. IsList(f) /\ Len(f) = 1 /\ f[1] = e
            BY <6>1, OneIsList
          <6>3. 1 \in 1..Len(f) /\ \A k \in 1..Len(f) : k = 1
            BY <6>2
          <6>4. Joined(p, f, s)
            BY <3>4, <3>6, <6>1, <6>2, JoinedLists
          <6> QED
            BY <6>2, <6>3, <6>4 DEF Joined
        <5>2. i \in 1..Len(p) /\ DOMAIN s = 1..Len(s)
          BY <3>4, <5>1, ListFacts
        <5>3. CASE i = 1
          BY <3>3, <5>1, <5>3
        <5>4. CASE i # 1
          <6>1. PICK j \in DOMAIN s : i = 1 + j
            BY <5>1, <5>2, <5>4
          <6>2. p[i] = s[j]
            BY <5>1, <5>2, <6>1
          <6> QED
            BY <3>4, <6>2
        <5> QED
          BY <5>3, <5>4
      <4> QED
        BY <4>1, <4>2
    <3>8. PICK q : q = p \o t
      OBVIOUS
    <3>9. /\ IsList(q)
          /\ \A i \in 1..Len(p) : q[i] = p[i]
          /\ \A i \in 1..Len(t) : q[Len(p) + i] = t[i]
          /\ \A i \in 1..Len(q) : i \in 1..Len(p) \/ \E j \in 1..Len(t) : i = Len(p) + j
      <4>1. IsList(p) /\ IsList(t)
        BY <3>5, <3>7 DEF PartsSound
      <4>2. Joined(q, p, t)
        BY <3>8, <4>1, JoinedLists
      <4> QED
        BY <4>2 DEF Joined
    <3>10. /\ DOMAIN q = 1..Len(q) /\ DOMAIN p = 1..Len(p) /\ DOMAIN t = 1..Len(t)
      BY <3>5, <3>7, <3>9, ListFacts DEF PartsSound
    <3>11. ASSUME NEW i \in DOMAIN q
           PROVE  /\ q[i].role \in {"next", "none", "child", "value"}
                  /\ q[i].role # "value" => <<x[1], q[i].type>> \in Trees
                  /\ q[i].role = "next" => i = 1
      <4>1. CASE i \in DOMAIN p
        BY <3>7, <3>9, <3>10, <4>1 DEF PartsSound
      <4>2. CASE \E j \in DOMAIN t : i = Len(p) + j
        <5>1. PICK j \in DOMAIN t : i = Len(p) + j
          BY <4>2
        <5>2. q[i] = t[j]
          BY <3>9, <3>10, <5>1
        <5>3. q[i].role = "value"
          BY <3>5, <5>2
        <5> QED
          BY <5>3
      <4> QED
        BY <3>9, <3>10, <4>1, <4>2
    <3> QED
      <4>1. PartsSound(x, q)
        BY <3>9, <3>11 DEF PartsSound
      <4> QED
        BY <3>2, <3>6, <3>8, <4>1
  <2>8. CASE r.code \notin {"pointer", "reference", "vector", "array", "complex", "enum",
                            "function"} \cup Aggregate
    <3>1. Parts(x) = <<>>
      BY <2>1, <2>2, <2>8 DEF Parts, Aggregate
    <3> QED
      BY <3>1, NoneIsList DEF PartsSound
  <2> QED
    BY <2>4, <2>5, <2>6, <2>7, <2>8
<1> QED
  BY <1>1, <1>2

LEMMA SameTypes ==
    ASSUME types' = types
    PROVE  /\ Trees' = Trees /\ Decls' = Decls /\ Nodes' = Nodes
           /\ \A x : NodeAt(x)' = NodeAt(x)
           /\ \A x : NodeOf(x)' = NodeOf(x)
           /\ \A x : IsDecl(x)' = IsDecl(x)
           /\ \A x : Decl(x)' = Decl(x)
           /\ \A x : Parts(x)' = Parts(x)
           /\ \A x : Objects(x)' = Objects(x)
           /\ \A x : TreesOf(x)' = TreesOf(x)
           /\ \A x : Paths(x)' = Paths(x)
<1>1. Trees' = Trees /\ Decls' = Decls
  BY DEF Trees, Decls
<1>2. \A x : NodeOf(x)' = NodeOf(x)
  BY DEF NodeOf, Tree
<1>3. \A x : IsDecl(x)' = IsDecl(x)
  BY DEF IsDecl
<1>4. Nodes' = Nodes
  BY <1>1, <1>2 DEF Nodes
<1>5. \A x : Decl(x)' = Decl(x)
  BY SMTT(30) DEF Decl
<1>6. \A x : Parts(x)' = Parts(x)
  BY <1>3, <1>5 DEF Parts, Tree
<1>7. \A x : NodeAt(x)' = NodeAt(x)
  BY <1>3, <1>2 DEF NodeAt
<1>8. \A x : Objects(x)' = Objects(x)
  BY <1>3, <1>2 DEF Objects, ObjectsOf
<1>9. \A x : TreesOf(x)' = TreesOf(x)
  BY <1>3, <1>2, <1>1 DEF TreesOf
<1>10. \A x : Paths(x)' = Paths(x)
  BY <1>5 DEF Paths
<1> QED
  BY <1>1, <1>2, <1>3, <1>4, <1>5, <1>6, <1>7, <1>8, <1>9, <1>10

(***************************************************************************)
(* The invariant of STEP3                                                  *)
(***************************************************************************)

FrameType ==
    [tree : Trees \cup Decls, pc : {"look", "set", "parts"}, i : Nat \ {0}]

(* The calls a worker is in: below the one at the top each is at a part,   *)
(* whose type the next one was called with; each is about another node.    *)
FrameSound(u, f) ==
    /\ f.tree[1] = u
    /\ f.pc # "parts" => f.i = 1
    /\ f.i <= Len(Parts(f.tree)) + 1
    /\ f.pc # "look" => NodeAt(f.tree) # None
    /\ f.pc = "parts" => NodeAt(f.tree) \in isSet

Calls(f, g) ==
    /\ f.pc = "parts" /\ f.i \in DOMAIN Parts(f.tree)
    /\ Parts(f.tree)[f.i].role # "value"
    /\ g.tree = <<f.tree[1], Parts(f.tree)[f.i].type>>

StackSound(u) ==
    /\ stack[u] \in Seq(FrameType)
    /\ at[u] \in 1..(Len(Objects(u)) + 1)
    /\ stack[u] # <<>> =>
          /\ at[u] \in DOMAIN Objects(u)
          /\ stack[u][Len(stack[u])].tree = <<u, Objects(u)[at[u]]>>
    /\ \A k \in DOMAIN stack[u] :
          /\ FrameSound(u, stack[u][k])
          /\ k # 1 => Calls(stack[u][k], stack[u][k - 1])
    /\ \A j, k \in DOMAIN stack[u] :
          j < k /\ stack[u][j].pc # "look" =>
             NodeAt(stack[u][j].tree) # NodeAt(stack[u][k].tree)

(* Where a worker fills in a node.                                         *)
Fills(u, n) ==
    {k \in DOMAIN stack[u] : stack[u][k].pc = "parts" /\ NodeAt(stack[u][k].tree) = n}

TwoImages(n) == \E x, y \in TreesOf(n) : x[1] # y[1]

(* A node that was come to once is filled in by one worker, as far as that *)
(* one has come, or is what a tree says of it.                             *)
NodeSound(n) ==
    /\ entered[n] \in Nat
    /\ n \in isSet <=> entered[n] # 0
    /\ entered[n] = 0 => children[n] = <<>>
    /\ entered[n] = 1 =>
          /\ \A u, v \in Image : Fills(u, n) # {} /\ Fills(v, n) # {} => u = v
          /\ \A u \in Image : \A k \in Fills(u, n) :
                Built(stack[u][k].tree, n, stack[u][k].i - 1)
          /\ (\A u \in Image : Fills(u, n) = {}) => \E x \in TreesOf(n) : SaysOf(x, n)
    /\ entered[n] > 1 => TwoImages(n)

(* A worker that found is_set clear, and finds it set after all, was       *)
(* overtaken by another image's.                                           *)
OvertakenBy(u) ==
    \A k \in DOMAIN stack[u] :
        LET n == NodeAt(stack[u][k].tree)
        IN stack[u][k].pc = "set" /\ n \in isSet => \E y \in TreesOf(n) : y[1] # u

Passed(u) ==
    \A k \in DOMAIN Objects(u) :
        LET x == <<u, Objects(u)[k]>>
        IN k < at[u] => x \in isSet \/ (IsDecl(x) /\ ~ Decl(x).body)

PathsKnown ==
    \A d \in Decls : d \in isSet /\ Fills(d[1], d) = {} => paths[d] = Paths(d)

DetailTypes ==
    /\ TypesSound(types) /\ isSet \subseteq Nodes /\ variant \subseteq isSet
    /\ DOMAIN entered = Nodes /\ DOMAIN children = Nodes /\ DOMAIN nxt = Nodes
    /\ DOMAIN paths = Decls
    /\ DOMAIN stack = Image /\ DOMAIN at = Image

DetailSound ==
    /\ DetailTypes
    /\ \A u \in Image : StackSound(u) /\ OvertakenBy(u) /\ Passed(u)
    /\ \A n \in Nodes : NodeSound(n)
    /\ PathsKnown

DetailInv ==
    /\ DetailSound
    /\ phase \in 3..8 /\ (phase > 3 => AllDetailed)

LEMMA SameRows ==
    ASSUME types' = types
    PROVE  /\ \A x, i : RowOf(x, i)' = RowOf(x, i)
           /\ \A x : Listed(x)' = Listed(x)
           /\ \A x, m : Rows(x, m)' = Rows(x, m)
<1>1. \A x, i : RowOf(x, i)' = RowOf(x, i)
  BY SameTypes DEF RowOf
<1>2. \A x : Listed(x)' = Listed(x)
  BY SameTypes DEF Listed
<1>3. \A x, m : Rows(x, m)' = Rows(x, m)
  BY <1>1, <1>2 DEF Rows
<1> QED
  BY <1>1, <1>2, <1>3

LEMMA AppendedRow ==
    ASSUME NEW r \in Seq(Nat), NEW i \in Nat, NEW e, NEW s, NEW t,
           s = [k \in DOMAIN r |-> e[r[k]]],
           t = [k \in DOMAIN Append(r, i) |-> e[Append(r, i)[k]]]
    PROVE  t = Append(s, e[i])
<1>1. PICK q, n : q = Append(r, i) /\ n = Len(r)
  OBVIOUS
<1>2. /\ n \in Nat /\ DOMAIN r = 1..n /\ DOMAIN q = 1..(n + 1)
      /\ q[n + 1] = i /\ \A k \in 1..n : q[k] = r[k]
  BY <1>1
<1>3. t = [k \in 1..(n + 1) |-> e[q[k]]]
  BY <1>1, <1>2
<1>4. PICK S : S = {s[k] : k \in 1..n} \cup {e[i]}
  OBVIOUS
<1>5. s \in Seq(S) /\ Len(s) = n /\ e[i] \in S
  <2>1. s \in [1..n -> S]
    BY <1>2, <1>4
  <2> QED
    BY <1>2, <1>4, <2>1
<1>6. PICK w : w = Append(s, e[i])
  OBVIOUS
<1>7. w \in Seq(S) /\ Len(w) = n + 1 /\ w[n + 1] = e[i] /\ \A k \in 1..n : w[k] = s[k]
  BY <1>5, <1>6, <1>2
<1>8. w \in [1..(n + 1) -> S]
  BY <1>2, <1>7
<1>9. \A k \in 1..(n + 1) : w[k] = t[k]
  <2> TAKE k \in 1..(n + 1)
  <2>1. CASE k = n + 1
    BY <1>2, <1>3, <1>7, <2>1
  <2>2. CASE k \in 1..n
    BY <1>2, <1>3, <1>7, <2>2
  <2> QED
    BY <1>2, <2>1, <2>2
<1>10. w = t
  BY <1>3, <1>8, <1>9
<1> QED
  BY <1>6, <1>10

LEMMA RowsFacts ==
    ASSUME NEW x
    PROVE  /\ Rows(x, 0) = <<>>
           /\ \A m \in Nat :
                 Rows(x, m + 1) = IF m + 1 \in Listed(x)
                                  THEN Append(Rows(x, m), RowOf(x, m + 1))
                                  ELSE Rows(x, m)
<1>1. PICK S : S = Listed(x)
  OBVIOUS
<1>2. Rows(x, 0) = <<>>
  <2>1. InOrder(0, S) = <<>>
    BY InOrderSteps
  <2> QED
    BY <1>1, <2>1 DEF Rows
<1>3. ASSUME NEW m \in Nat
      PROVE Rows(x, m + 1) = IF m + 1 \in S THEN Append(Rows(x, m), RowOf(x, m + 1))
                             ELSE Rows(x, m)
  <2>1. PICK r, q : r = InOrder(m, S) /\ q = InOrder(m + 1, S)
    OBVIOUS
  <2>2. r \in Seq(Nat) /\ q = IF m + 1 \in S THEN Append(r, m + 1) ELSE r
    BY <2>1, InOrderSteps
  <2>3. /\ Rows(x, m) = [k \in DOMAIN r |-> RowOf(x, r[k])]
        /\ Rows(x, m + 1) = [k \in DOMAIN q |-> RowOf(x, q[k])]
    BY <1>1, <2>1 DEF Rows
  <2>4. CASE m + 1 \notin S
    BY <2>2, <2>3, <2>4
  <2>5. CASE m + 1 \in S
    <3>1. PICK e : e = [i \in Nat |-> RowOf(x, i)]
      OBVIOUS
    <3>2. q = Append(r, m + 1) /\ q \in Seq(Nat) /\ m + 1 \in Nat
      BY <2>2, <2>5
    <3>3. /\ \A k \in DOMAIN r : r[k] \in Nat /\ e[r[k]] = RowOf(x, r[k])
          /\ \A k \in DOMAIN q : q[k] \in Nat /\ e[q[k]] = RowOf(x, q[k])
          /\ e[m + 1] = RowOf(x, m + 1)
      BY <2>2, <3>1, <3>2
    <3>4. /\ Rows(x, m) = [k \in DOMAIN r |-> e[r[k]]]
          /\ Rows(x, m + 1) = [k \in DOMAIN q |-> e[q[k]]]
      BY <2>3, <3>3
    <3>5. Rows(x, m + 1) = Append(Rows(x, m), e[m + 1])
      BY <2>2, <3>2, <3>4, AppendedRow
    <3> QED
      BY <2>5, <3>3, <3>5
  <2> QED
    BY <2>4, <2>5
<1> QED
  BY <1>1, <1>2, <1>3

LEMMA ObjectFacts ==
    ASSUME TypesSound(types), NEW u \in Image
    PROVE  /\ Len(Objects(u)) \in Nat /\ DOMAIN Objects(u) = 1..Len(Objects(u))
           /\ \A k \in DOMAIN Objects(u) :
                 LET x == <<u, Objects(u)[k]>>
                 IN x \in Nodes /\ x \in Trees \cup Decls /\ NodeAt(x) = x
           /\ \A n \in Nodes : n[1] = u =>
                 \E k \in DOMAIN Objects(u) : n = <<u, Objects(u)[k]>>
<1>0. PICK a, b : a = Len(types.tree[u]) /\ b = Len(types.decl[u])
  OBVIOUS
<1>2. /\ a \in Nat /\ b \in Nat
      /\ DOMAIN types.tree[u] = 1..a /\ DOMAIN types.decl[u] = 1..b
  BY <1>0, TreeFacts
<1>1. PICK m \in Nat : m = a + b
  BY <1>2
<1>3. PICK S, r : /\ S = {k \in 1..m : IsDecl(<<u, k>>) \/ NodeOf(<<u, k>>) = <<u, k>>}
                  /\ r = InOrder(m, S)
  OBVIOUS
<1>4. Objects(u) = r
  BY <1>0, <1>1, <1>3 DEF Objects, ObjectsOf
<1>5. /\ r \in Seq(Nat) /\ \A k \in 1..Len(r) : r[k] \in S
      /\ \A i \in S : \E k \in 1..Len(r) : r[k] = i
  <2>1. InOrderOf(r, m, S)
    BY <1>2, <1>3, InOrderFacts
  <2> QED
    BY <1>3, <2>1 DEF InOrderOf
<1>6. Len(r) \in Nat /\ DOMAIN r = 1..Len(r)
  BY <1>5
<1>7. ASSUME NEW k \in S
      PROVE <<u, k>> \in Nodes /\ <<u, k>> \in Trees \cup Decls /\ NodeAt(<<u, k>>) = <<u, k>>
  <2>1. k \in 1..m /\ (IsDecl(<<u, k>>) \/ NodeOf(<<u, k>>) = <<u, k>>)
    BY <1>3
  <2>2. IsDecl(<<u, k>>) <=> k > a
    BY <1>0 DEF IsDecl
  <2>3. CASE k > a
    <3>1. PICK j : j = k - a
      OBVIOUS
    <3>2. j \in 1..b /\ k = a + j
      BY <1>1, <1>2, <2>1, <2>3, <3>1
    <3>3. <<u, k>> \in Decls
      <4>1. <<u, a + j>> \in {<<u, Len(types.tree[u]) + i>> : i \in DOMAIN types.decl[u]}
        BY <1>0, <1>2, <3>2
      <4> QED
        BY <3>2, <4>1 DEF Decls
    <3> QED
      BY <2>2, <2>3, <3>3 DEF Nodes, NodeAt
  <2>4. CASE ~ (k > a)
    <3>1. k \in 1..a
      BY <1>2, <2>1, <2>4
    <3>2. <<u, k>> \in Trees
      BY <1>2, <3>1 DEF Trees
    <3> QED
      BY <2>1, <2>2, <2>4, <3>2 DEF Nodes, NodeAt
  <2> QED
    BY <2>3, <2>4
<1>8. ASSUME NEW n \in Nodes, n[1] = u PROVE \E k \in S : n = <<u, k>>
  <2>1. CASE n \in Decls
    <3>1. n = <<u, n[2]>> /\ IsDecl(n) /\ n[2] \in Nat /\ n[2] - a \in 1..b
      BY <1>0, <1>2, <1>8, <2>1, PlaceFacts
    <3>2. n[2] \in 1..m
      <4>1. PICK i \in Nat : i = n[2]
        BY <3>1
      <4>2. i - a \in 1..b
        BY <3>1, <4>1
      <4>3. i \in 1..m
        BY <1>1, <1>2, <4>2
      <4> QED
        BY <4>1, <4>3
    <3> QED
      BY <1>3, <3>1, <3>2
  <2>2. CASE n \notin Decls
    <3>1. n \in Trees /\ NodeOf(n) = n
      BY <2>2 DEF Nodes
    <3>2. n = <<u, n[2]>> /\ n[2] \in 1..a
      BY <1>2, <1>8, <3>1, PlaceFacts
    <3>3. n[2] \in 1..m
      <4>1. PICK i \in 1..a : i = n[2]
        BY <3>2
      <4>2. i \in 1..m
        BY <1>1, <1>2
      <4> QED
        BY <4>1, <4>2
    <3>4. NodeOf(<<u, n[2]>>) = <<u, n[2]>>
      BY <3>1, <3>2
    <3>5. n[2] \in S
      BY <1>3, <3>3, <3>4
    <3> QED
      BY <3>2, <3>5
  <2> QED
    BY <2>1, <2>2
<1>9. \A k \in DOMAIN r : <<u, r[k]>> \in Nodes /\ <<u, r[k]>> \in Trees \cup Decls
                          /\ NodeAt(<<u, r[k]>>) = <<u, r[k]>>
  BY <1>5, <1>6, <1>7
<1>10. \A n \in Nodes : n[1] = u => \E k \in DOMAIN r : n = <<u, r[k]>>
  <2> TAKE n \in Nodes
  <2> HAVE n[1] = u
  <2>1. PICK i \in S : n = <<u, i>>
    BY <1>8
  <2>2. PICK k \in 1..Len(r) : r[k] = i
    BY <1>5
  <2> QED
    BY <1>6, <2>1, <2>2
<1> QED
  BY <1>4, <1>6, <1>9, <1>10

(***************************************************************************)
(* What steps leave alone                                                  *)
(***************************************************************************)
LEMMA StackFacts ==
    ASSUME DetailSound, NEW u \in Image
    PROVE  /\ stack[u] \in Seq(FrameType) /\ Len(stack[u]) \in Nat
           /\ DOMAIN stack[u] = 1..Len(stack[u])
           /\ stack[u] # <<>> => /\ Len(stack[u]) # 0 /\ 1 \in DOMAIN stack[u]
                                 /\ Top(u) \in FrameType /\ Top(u) = stack[u][1]
           /\ \A k \in DOMAIN stack[u] :
                 /\ stack[u][k] \in FrameType
                 /\ stack[u][k].tree \in Trees \cup Decls
                 /\ k # 1 => /\ k - 1 \in DOMAIN stack[u] /\ stack[u][k].pc = "parts"
                             /\ stack[u][k - 1].tree \in Trees
<1>1. stack[u] \in Seq(FrameType) /\ StackSound(u) /\ TypesSound(types)
  BY DEF DetailSound, DetailTypes, StackSound
<1>2. Len(stack[u]) \in Nat /\ DOMAIN stack[u] = 1..Len(stack[u])
  BY <1>1
<1>3. stack[u] # <<>> => /\ Len(stack[u]) # 0 /\ 1 \in DOMAIN stack[u]
                         /\ Top(u) \in FrameType /\ Top(u) = stack[u][1]
  BY <1>1, <1>2 DEF Top
<1>4. ASSUME NEW k \in DOMAIN stack[u]
      PROVE  /\ stack[u][k] \in FrameType /\ stack[u][k].tree \in Trees \cup Decls
             /\ k # 1 => /\ k - 1 \in DOMAIN stack[u] /\ stack[u][k].pc = "parts"
                         /\ stack[u][k - 1].tree \in Trees
  <2>1. stack[u][k] \in FrameType
    BY <1>1, <1>2
  <2>2. stack[u][k].tree \in Trees \cup Decls
    BY <2>1 DEF FrameType
  <2>3. ASSUME k # 1
        PROVE  /\ k - 1 \in DOMAIN stack[u] /\ stack[u][k].pc = "parts"
               /\ stack[u][k - 1].tree \in Trees
    <3>1. k - 1 \in DOMAIN stack[u]
      BY <1>2, <2>3
    <3>2. Calls(stack[u][k], stack[u][k - 1])
      BY <1>1, <2>3 DEF StackSound
    <3>3. PartsSound(stack[u][k].tree, Parts(stack[u][k].tree))
      BY <1>1, <2>2, PartsFacts
    <3> QED
      BY <3>1, <3>2, <3>3 DEF Calls, PartsSound
  <2> QED
    BY <2>1, <2>2, <2>3
<1> QED
  BY <1>1, <1>2, <1>3, <1>4

LEMMA StackKeeps ==
    ASSUME NEW v \in Image, StackSound(v), types' = types,
           stack'[v] = stack[v], at'[v] = at[v], isSet \subseteq isSet'
    PROVE  StackSound(v)'
<1>1. PICK s : s = stack[v]
  OBVIOUS
<1>2. s = stack'[v]
  BY <1>1
<1>3. FrameType' = FrameType
  BY SameTypes DEF FrameType
<1>4. ASSUME NEW k \in DOMAIN s, FrameSound(v, s[k]) PROVE FrameSound(v, s[k])'
  BY <1>4, SameTypes DEF FrameSound
<1>5. ASSUME NEW k \in DOMAIN s, Calls(s[k], s[k - 1]) PROVE Calls(s[k], s[k - 1])'
  BY <1>5, SameTypes DEF Calls
<1>6. /\ s \in Seq(FrameType)'
      /\ at'[v] \in 1..(Len(Objects(v)') + 1)
      /\ s # <<>> => /\ at'[v] \in DOMAIN (Objects(v)')
                     /\ s[Len(s)].tree = <<v, Objects(v)'[at'[v]]>>
  BY <1>1, <1>3, SameTypes DEF StackSound
<1>7. \A j, k \in DOMAIN s :
         j < k /\ s[j].pc # "look" => NodeAt(s[j].tree)' # NodeAt(s[k].tree)'
  BY <1>1, SameTypes DEF StackSound
<1>8. \A k \in DOMAIN s : FrameSound(v, s[k])' /\ (k # 1 => Calls(s[k], s[k - 1])')
  BY <1>1, <1>4, <1>5 DEF StackSound
<1> QED
  BY <1>2, <1>6, <1>7, <1>8 DEF StackSound

LEMMA OvertakenKeeps ==
    ASSUME NEW v \in Image, OvertakenBy(v), types' = types,
           stack'[v] = stack[v], isSet' = isSet
    PROVE  OvertakenBy(v)'
BY SameTypes DEF OvertakenBy

LEMMA PassedKeeps ==
    ASSUME NEW v \in Image, Passed(v), types' = types,
           at'[v] = at[v], isSet \subseteq isSet'
    PROVE  Passed(v)'
BY SameTypes DEF Passed

LEMMA FillsKeep ==
    ASSUME NEW v \in Image, types' = types, stack'[v] = stack[v]
    PROVE  \A m : Fills(v, m)' = Fills(v, m)
BY SameTypes DEF Fills

LEMMA BuiltKeeps ==
    ASSUME NEW x, NEW n, NEW m, Built(x, n, m), types' = types,
           children'[n] = children[n], nxt'[n] = nxt[n]
    PROVE  Built(x, n, m)'
BY SameTypes, SameRows DEF Built

LEMMA SaysKeeps ==
    ASSUME NEW x, NEW n, SaysOf(x, n), types' = types,
           children'[n] = children[n], nxt'[n] = nxt[n]
    PROVE  SaysOf(x, n)'
BY SameTypes, SameRows DEF SaysOf, Built

(* A node that nothing is entered for, while the workers that fill it in   *)
(* are at the parts they were at.                                          *)
LEMMA NodeKeeps ==
    ASSUME NEW m, NodeSound(m), types' = types,
           children'[m] = children[m], nxt'[m] = nxt[m], entered'[m] = entered[m],
           m \in isSet' <=> m \in isSet,
           \A v \in Image : Fills(v, m)' # {} <=> Fills(v, m) # {},
           \A v \in Image : \A k \in Fills(v, m)' : \E j \in Fills(v, m) :
               stack'[v][k].tree = stack[v][j].tree /\ stack'[v][k].i = stack[v][j].i
    PROVE  NodeSound(m)'
<1>1. TreesOf(m)' = TreesOf(m)
  BY SameTypes
<1>2. entered[m] > 1 => TwoImages(m)'
  BY <1>1 DEF NodeSound, TwoImages
<1>3. ASSUME entered[m] = 1
      PROVE  /\ \A u, v \in Image : Fills(u, m)' # {} /\ Fills(v, m)' # {} => u = v
             /\ \A u \in Image : \A k \in Fills(u, m)' :
                   Built(stack[u][k].tree, m, stack[u][k].i - 1)'
             /\ (\A u \in Image : Fills(u, m)' = {}) => \E x \in TreesOf(m)' : SaysOf(x, m)'
  <2>1. \A u, v \in Image : Fills(u, m)' # {} /\ Fills(v, m)' # {} => u = v
    BY <1>3 DEF NodeSound
  <2>2. ASSUME NEW u \in Image, NEW k \in Fills(u, m)'
        PROVE  Built(stack[u][k].tree, m, stack[u][k].i - 1)'
    <3>1. PICK j \in Fills(u, m) : /\ stack'[u][k].tree = stack[u][j].tree
                                   /\ stack'[u][k].i = stack[u][j].i
      BY <2>2
    <3>2. PICK x, i : x = stack[u][j].tree /\ i = stack[u][j].i - 1
      OBVIOUS
    <3>3. Built(x, m, i)
      BY <1>3, <3>2 DEF NodeSound
    <3>4. Built(x, m, i)'
      BY <3>3, BuiltKeeps
    <3>5. x = stack'[u][k].tree /\ i = stack'[u][k].i - 1
      BY <3>1, <3>2
    <3> QED
      BY <3>4, <3>5, SameRows, SameTypes DEF Built
  <2>3. ASSUME \A u \in Image : Fills(u, m)' = {} PROVE \E x \in TreesOf(m)' : SaysOf(x, m)'
    <3>1. PICK x \in TreesOf(m) : SaysOf(x, m)
      BY <1>3, <2>3 DEF NodeSound
    <3> QED
      BY <1>1, <3>1, SaysKeeps
  <2> QED
    BY <2>1, <2>2, <2>3
<1> QED
  BY <1>2, <1>3 DEF NodeSound

(* Where u's worker is at the same parts of the same trees afterwards.     *)
SamePlaces(u, m) ==
    /\ Fills(u, m)' # {} <=> Fills(u, m) # {}
    /\ \A k \in Fills(u, m)' : \E j \in Fills(u, m) :
          stack'[u][k].tree = stack[u][j].tree /\ stack'[u][k].i = stack[u][j].i

(* Nothing happened to node m in a step of u's worker.                     *)
Untouched(u, m) ==
    /\ children'[m] = children[m] /\ nxt'[m] = nxt[m]
    /\ entered'[m] = entered[m] /\ (m \in isSet' <=> m \in isSet)
    /\ SamePlaces(u, m)

TypesKeep ==
    /\ types' = types
    /\ DOMAIN stack' = Image /\ DOMAIN at' = Image /\ DOMAIN entered' = Nodes
    /\ DOMAIN children' = Nodes /\ DOMAIN nxt' = Nodes /\ DOMAIN paths' = Decls
    /\ isSet \subseteq isSet' /\ isSet' \subseteq Nodes /\ variant' \subseteq isSet'

OthersKeep(u) == \A v \in Image : v # u => stack'[v] = stack[v] /\ at'[v] = at[v]

(* What is left to show of a step of u's worker that is about the nodes M. *)
LEMMA StepKeeps ==
    ASSUME DetailSound, NEW u \in Image, NEW M, TypesKeep, OthersKeep(u),
           StackSound(u)', \A v \in Image : OvertakenBy(v)', Passed(u)',
           \A m \in Nodes : m \in M => NodeSound(m)',
           \A m \in Nodes : m \notin M => Untouched(u, m),
           PathsKnown'
    PROVE  DetailSound'
<1>0. types' = types /\ isSet \subseteq isSet'
  BY DEF TypesKeep
<1>1. DetailTypes'
  <2>1. TypesSound(types)'
    BY <1>0 DEF DetailSound, DetailTypes, TypesSound, TreeSound, DeclSound
  <2> QED
    BY <1>0, <2>1, SameTypes, SMTT(30) DEF TypesKeep, DetailTypes
<1>2. ASSUME NEW v \in Image PROVE StackSound(v)' /\ OvertakenBy(v)' /\ Passed(v)'
  <2>1. CASE v = u
    BY <2>1
  <2>2. CASE v # u
    <3>1. StackSound(v) /\ Passed(v) /\ stack'[v] = stack[v] /\ at'[v] = at[v]
      BY <2>2 DEF DetailSound, OthersKeep
    <3> QED
      BY <1>0, <3>1, StackKeeps, PassedKeeps
  <2> QED
    BY <2>1, <2>2
<1>3. ASSUME NEW m \in Nodes PROVE NodeSound(m)'
  <2>1. CASE m \in M
    BY <2>1
  <2>2. CASE m \notin M
    <3>1. NodeSound(m)
      BY DEF DetailSound
    <3>2. /\ children'[m] = children[m] /\ nxt'[m] = nxt[m]
          /\ entered'[m] = entered[m] /\ (m \in isSet' <=> m \in isSet)
          /\ SamePlaces(u, m)
      BY <2>2 DEF Untouched
    <3>3. ASSUME NEW v \in Image
          PROVE  /\ Fills(v, m)' # {} <=> Fills(v, m) # {}
                 /\ \A k \in Fills(v, m)' : \E j \in Fills(v, m) :
                       stack'[v][k].tree = stack[v][j].tree /\ stack'[v][k].i = stack[v][j].i
      <4>1. CASE v = u
        BY <3>2, <4>1 DEF SamePlaces
      <4>2. CASE v # u
        <5>1. stack'[v] = stack[v]
          BY <4>2 DEF OthersKeep
        <5>2. Fills(v, m)' = Fills(v, m)
          BY <1>0, <5>1, FillsKeep
        <5> QED
          BY <5>1, <5>2
      <4> QED
        BY <4>1, <4>2
    <3> QED
      BY <1>0, <3>1, <3>2, <3>3, NodeKeeps
  <2> QED
    BY <2>1, <2>2
<1>4. Nodes' = Nodes
  BY <1>0, SameTypes
<1> QED
  BY <1>1, <1>2, <1>3, <1>4 DEF DetailSound

LEMMA PathsKeep ==
    ASSUME DetailSound, NEW u \in Image, types' = types, OthersKeep(u), paths' = paths,
           \A d \in Decls : d \in isSet' => d \in isSet \/ (d[1] = u /\ Fills(u, d)' # {}),
           \A m \in Nodes : Fills(u, m) # {} => Fills(u, m)' # {}
    PROVE  PathsKnown'
<1> SUFFICES ASSUME NEW d \in Decls, d \in isSet', Fills(d[1], d)' = {}
             PROVE  paths[d] = Paths(d)
  BY SameTypes DEF PathsKnown
<1>1. d[1] \in Image /\ d \in Nodes /\ d \in isSet
  BY PlaceFacts DEF DetailSound, DetailTypes, Nodes
<1>2. Fills(d[1], d) = {}
  <2>1. CASE d[1] = u
    BY <1>1, <2>1
  <2>2. CASE d[1] # u
    BY <1>1, <2>2, FillsKeep DEF OthersKeep
  <2> QED
    BY <2>1, <2>2
<1> QED
  BY <1>1, <1>2 DEF DetailSound, PathsKnown

(***************************************************************************)
(* The steps of a worker                                                   *)
(***************************************************************************)
LEMMA FrameIsFrame ==
    ASSUME NEW x \in Trees \cup Decls, NEW pc \in {"look", "set", "parts"}
    PROVE  /\ Frame(x, pc) \in FrameType /\ Frame(x, pc).tree = x
           /\ Frame(x, pc).pc = pc /\ Frame(x, pc).i = 1
BY DEF Frame, FrameType

LEMMA PushedLook ==
    ASSUME DetailSound, NEW u \in Image, NEW x \in Trees \cup Decls, x[1] = u,
           types' = types, isSet' = isSet, at'[u] = at[u], at[u] \in DOMAIN Objects(u),
           stack'[u] = <<Frame(x, "look")>> \o stack[u],
           stack[u] = <<>> => x = <<u, Objects(u)[at[u]]>>,
           stack[u] # <<>> => Calls(Top(u), Frame(x, "look"))
    PROVE  StackSound(u)' /\ OvertakenBy(u)' /\ \A m : SamePlaces(u, m)
<1>1. PICK s, g, t : s = stack[u] /\ g = Frame(x, "look") /\ t = <<g>> \o s
  OBVIOUS
<1>2. t = stack'[u]
  BY <1>1
<1>3. g \in FrameType /\ g.tree = x /\ g.pc = "look" /\ g.i = 1
  BY <1>1, FrameIsFrame
<1>4. PICK n \in Nat : n = Len(s)
  BY <1>1, StackFacts
<1>5. /\ s \in Seq(FrameType) /\ DOMAIN s = 1..n
      /\ t \in Seq(FrameType) /\ Len(t) = n + 1 /\ DOMAIN t = 1..(n + 1)
      /\ t[1] = g /\ \A k \in 2..(n + 1) : t[k] = s[k - 1]
  <2>1. s \in Seq(FrameType) /\ DOMAIN s = 1..n
    BY <1>1, <1>4, StackFacts
  <2> QED
    BY <1>1, <1>3, <1>4, <2>1, PushFacts
<1>6. TypesSound(types) /\ StackSound(u)
  BY DEF DetailSound, DetailTypes
<1>7. IsList(Parts(x)) /\ Len(Parts(x)) \in Nat
  BY <1>6, PartsFacts, ListFacts DEF PartsSound
<1>8. FrameSound(u, g)'
  BY <1>3, <1>7, SameTypes DEF FrameSound
<1>9. ASSUME NEW k \in 2..(n + 1)
      PROVE  /\ FrameSound(u, t[k])' /\ t[k].pc = s[k - 1].pc /\ k - 1 \in DOMAIN s
             /\ Calls(t[k], t[k - 1])'
  <2>1. k - 1 \in DOMAIN s /\ t[k] = s[k - 1]
    BY <1>5
  <2>2. FrameSound(u, s[k - 1])
    BY <1>1, <1>6, <2>1 DEF StackSound
  <2>3. FrameSound(u, s[k - 1])'
    BY <2>2, SameTypes DEF FrameSound
  <2>4. Calls(t[k], t[k - 1])
    <3>1. CASE k = 2
      <4>1. t[k] = s[1] /\ t[k - 1] = g /\ s # <<>>
        BY <1>5, <2>1, <3>1
      <4> QED
        BY <1>1, <4>1 DEF Top
    <3>2. CASE k # 2
      <4>1. PICK j \in DOMAIN s : j = k - 1 /\ j # 1
        BY <2>1, <3>2
      <4>2. t[k] = s[j] /\ t[k - 1] = s[j - 1]
        <5>1. j \in 2..(n + 1)
          BY <1>5, <4>1
        <5>2. t[j] = s[j - 1]
          BY <1>5, <5>1
        <5> QED
          BY <2>1, <4>1, <5>2
      <4>3. Calls(s[j], s[j - 1])
        BY <1>1, <1>6, <4>1 DEF StackSound
      <4> QED
        BY <4>2, <4>3
    <3> QED
      BY <3>1, <3>2
  <2>5. Calls(t[k], t[k - 1])'
    BY <2>4, SameTypes DEF Calls
  <2> QED
    BY <2>1, <2>3, <2>5
<1>10. ASSUME NEW j \in DOMAIN t, NEW k \in DOMAIN t, j < k, t[j].pc # "look"
       PROVE  NodeAt(t[j].tree)' # NodeAt(t[k].tree)'
  <2>1. j # 1
    BY <1>3, <1>5, <1>10
  <2>2. j - 1 \in DOMAIN s /\ k - 1 \in DOMAIN s /\ j - 1 < k - 1
        /\ t[j] = s[j - 1] /\ t[k] = s[k - 1]
    <3>1. j \in 2..(n + 1) /\ k \in 2..(n + 1)
      BY <1>5, <1>10, <2>1
    <3> QED
      BY <1>5, <1>10, <3>1
  <2>3. PICK a, b \in DOMAIN s : a = j - 1 /\ b = k - 1
    BY <2>2
  <2>4. NodeAt(s[a].tree) # NodeAt(s[b].tree)
    BY <1>1, <1>6, <1>10, <2>2, <2>3 DEF StackSound
  <2> QED
    BY <2>2, <2>3, <2>4, SameTypes
<1>11. t[Len(t)].tree = <<u, Objects(u)[at[u]]>>
  <2>1. CASE n = 0
    BY <1>1, <1>3, <1>4, <1>5, <2>1
  <2>2. CASE n # 0
    <3>1. t[n + 1] = s[n] /\ s # <<>>
      BY <1>4, <1>5, <2>2
    <3> QED
      BY <1>1, <1>4, <1>5, <1>6, <3>1 DEF StackSound
  <2> QED
    BY <2>1, <2>2
<1>12. StackSound(u)'
  <2>1. FrameType' = FrameType
    BY SameTypes DEF FrameType
  <2>2. \A k \in DOMAIN t : FrameSound(u, t[k])' /\ (k # 1 => Calls(t[k], t[k - 1])')
    BY <1>5, <1>8, <1>9
  <2>3. at'[u] \in 1..(Len(Objects(u)') + 1) /\ at'[u] \in DOMAIN (Objects(u)')
    BY <1>6, SameTypes DEF StackSound
  <2>4. t[Len(t)].tree = <<u, Objects(u)'[at'[u]]>>
    BY <1>11, SameTypes
  <2> QED
    BY <1>2, <1>5, <1>10, <2>1, <2>2, <2>3, <2>4 DEF StackSound
<1>13. OvertakenBy(u)'
  <2>1. \A k \in DOMAIN t : t[k].pc # "set"
    <3> TAKE k \in DOMAIN t
    <3>1. CASE k = 1
      BY <1>3, <1>5, <3>1
    <3>2. CASE k # 1
      <4>1. Calls(t[k], t[k - 1])'
        BY <1>5, <1>9, <3>2
      <4> QED
        BY <4>1 DEF Calls
    <3> QED
      BY <3>1, <3>2
  <2> QED
    BY <1>2, <2>1 DEF OvertakenBy
<1>14. ASSUME NEW m PROVE SamePlaces(u, m)
  <2>1. ASSUME NEW k \in Fills(u, m)' PROVE k - 1 \in Fills(u, m) /\ t[k] = s[k - 1]
    <3>1. k \in DOMAIN t /\ t[k].pc = "parts" /\ NodeAt(t[k].tree) = m
      BY <1>2, SameTypes DEF Fills
    <3>2. k - 1 \in DOMAIN s /\ t[k] = s[k - 1]
      BY <1>3, <1>5, <3>1
    <3> QED
      BY <1>1, <3>1, <3>2 DEF Fills
  <2>2. ASSUME NEW k \in Fills(u, m) PROVE k + 1 \in Fills(u, m)'
    <3>1. k \in DOMAIN s /\ s[k].pc = "parts" /\ NodeAt(s[k].tree) = m
      BY <1>1 DEF Fills
    <3>2. PICK j : j = k + 1
      OBVIOUS
    <3>3. j \in 2..(n + 1) /\ j - 1 = k /\ j \in 1..(n + 1)
      BY <1>5, <3>1, <3>2
    <3>4. j \in DOMAIN t /\ t[j] = s[k]
      BY <1>5, <3>3
    <3> QED
      BY <1>2, <3>1, <3>2, <3>4, SameTypes DEF Fills
  <2>3. Fills(u, m)' # {} <=> Fills(u, m) # {}
    BY <2>1, <2>2
  <2>4. \A k \in Fills(u, m)' : \E j \in Fills(u, m) :
           stack'[u][k].tree = stack[u][j].tree /\ stack'[u][k].i = stack[u][j].i
    BY <1>1, <1>2, <2>1
  <2> QED
    BY <2>3, <2>4 DEF SamePlaces
<1> QED
  BY <1>12, <1>13, <1>14

LEMMA NextObjectKeeps ==
    ASSUME DetailSound, NEW u \in Image, NextObject(u)
    PROVE  DetailSound'
<1>1. PICK x : x = <<u, Objects(u)[at[u]]>>
  OBVIOUS
<1>2. /\ TypesSound(types) /\ StackSound(u) /\ Passed(u) /\ OvertakenBy(u)
      /\ isSet \subseteq Nodes /\ variant \subseteq isSet
      /\ DOMAIN entered = Nodes /\ DOMAIN children = Nodes /\ DOMAIN nxt = Nodes
      /\ DOMAIN paths = Decls /\ DOMAIN stack = Image /\ DOMAIN at = Image
  BY DEF DetailSound, DetailTypes
<1>3. /\ stack[u] = <<>> /\ at[u] \in DOMAIN Objects(u)
      /\ types' = types /\ isSet' = isSet /\ entered' = entered /\ children' = children
      /\ nxt' = nxt /\ variant' = variant /\ paths' = paths
  BY DEF NextObject
<1>4. /\ x \in Trees \cup Decls /\ x[1] = u
      /\ Len(Objects(u)) \in Nat /\ DOMAIN Objects(u) = 1..Len(Objects(u))
  BY <1>1, <1>2, <1>3, ObjectFacts
<1>5. CASE x \in isSet \/ (IsDecl(x) /\ ~ Decl(x).body)
  <2>1. at' = [at EXCEPT ![u] = @ + 1] /\ stack' = stack
    BY <1>1, <1>5 DEF NextObject
  <2>2. at'[u] = at[u] + 1 /\ \A v \in Image : v # u => at'[v] = at[v]
    BY <1>2, <2>1
  <2>3. StackSound(u)'
    <3>1. at'[u] \in 1..(Len(Objects(u)') + 1)
      BY <1>3, <1>4, <2>2, SameTypes
    <3>2. stack'[u] = <<>> /\ DOMAIN <<>> = {} /\ <<>> \in Seq(FrameType)'
      BY <1>3, <2>1, NoneIsList
    <3> QED
      BY <3>1, <3>2 DEF StackSound
  <2>4. Passed(u)'
    <3>1. ASSUME NEW k \in DOMAIN Objects(u), k < at[u] + 1
          PROVE  LET y == <<u, Objects(u)[k]>>
                 IN y \in isSet \/ (IsDecl(y) /\ ~ Decl(y).body)
      <4>1. CASE k = at[u]
        BY <1>1, <1>5, <4>1
      <4>2. CASE k # at[u]
        <5>1. k < at[u]
          BY <1>3, <1>4, <3>1, <4>2
        <5> QED
          BY <1>2, <5>1 DEF Passed
      <4> QED
        BY <4>1, <4>2
    <3> QED
      BY <1>3, <2>2, <3>1, SameTypes DEF Passed
  <2>5. \A v \in Image : OvertakenBy(v)'
    BY <1>3, <2>1, OvertakenKeeps DEF DetailSound
  <2>6. \A m \in Nodes : SamePlaces(u, m)
    BY <1>3, <2>1, FillsKeep DEF SamePlaces
  <2>8. TypesKeep /\ OthersKeep(u)
    BY <1>2, <1>3, <2>1, <2>2 DEF TypesKeep, OthersKeep
  <2>7. PathsKnown'
    BY <1>3, <2>8, <2>6, PathsKeep DEF SamePlaces
  <2>9. \A m \in Nodes : Untouched(u, m)
    BY <1>3, <2>6 DEF Untouched
  <2>10. PICK M : M = {}
    OBVIOUS
  <2> QED
    BY <2>3, <2>4, <2>5, <2>7, <2>8, <2>9, <2>10, StepKeeps
<1>6. CASE ~ (x \in isSet \/ (IsDecl(x) /\ ~ Decl(x).body))
  <2>1. stack' = [stack EXCEPT ![u] = <<Frame(x, "look")>>] /\ at' = at
    BY <1>1, <1>6 DEF NextObject
  <2>2. stack'[u] = <<Frame(x, "look")>> \o stack[u]
    <3>1. stack'[u] = <<Frame(x, "look")>>
      BY <1>2, <2>1
    <3>2. PICK f : f = <<Frame(x, "look")>>
      OBVIOUS
    <3>3. f \in Seq({Frame(x, "look")})
      BY <3>2
    <3>4. f \o <<>> = f
      BY <3>3
    <3> QED
      BY <1>3, <3>1, <3>2, <3>4
  <2>3. \A v \in Image : v # u => stack'[v] = stack[v] /\ at'[v] = at[v]
    BY <1>2, <2>1
  <2>4. StackSound(u)' /\ OvertakenBy(u)' /\ \A m : SamePlaces(u, m)
    BY <1>1, <1>3, <1>4, <2>1, <2>2, PushedLook
  <2>5. Passed(u)'
    BY <1>2, <1>3, <2>1, PassedKeeps
  <2>6. \A v \in Image : OvertakenBy(v)'
    BY <1>3, <2>3, <2>4, OvertakenKeeps DEF DetailSound
  <2>8. TypesKeep /\ OthersKeep(u)
    BY <1>2, <1>3, <2>1, <2>3 DEF TypesKeep, OthersKeep
  <2>7. PathsKnown'
    BY <1>3, <2>4, <2>8, PathsKeep DEF SamePlaces
  <2>9. \A m \in Nodes : Untouched(u, m)
    BY <1>3, <2>4 DEF Untouched
  <2>10. PICK M : M = {}
    OBVIOUS
  <2> QED
    BY <2>4, <2>5, <2>6, <2>7, <2>8, <2>9, <2>10, StepKeeps
<1> QED
  BY <1>5, <1>6

(* The call at the top goes on: its frame is another one for its tree.     *)
LEMMA ReplacedTop ==
    ASSUME DetailSound, NEW u \in Image, stack[u] # <<>>, types' = types,
           NEW f, f \in FrameType, f.tree = Top(u).tree,
           stack' = [stack EXCEPT ![u][1] = f], at' = at, isSet \subseteq isSet',
           FrameSound(u, f)',
           Top(u).pc = "look" /\ f.pc # "look" => NodeAt(f.tree) \notin isSet
    PROVE  /\ StackSound(u)' /\ DOMAIN stack' = Image /\ DOMAIN at' = Image
           /\ OthersKeep(u) /\ Passed(u)'
           /\ (f.pc = "set" => NodeAt(f.tree) \notin isSet') => OvertakenBy(u)'
           /\ DOMAIN stack'[u] = DOMAIN stack[u] /\ stack'[u][1] = f
           /\ \A k \in DOMAIN stack[u] : k # 1 => stack'[u][k] = stack[u][k]
<1>1. PICK s : s = stack[u]
  OBVIOUS
<1>2. PICK n \in Nat : n = Len(s)
  BY <1>1, StackFacts
<1>3. s \in Seq(FrameType) /\ DOMAIN s = 1..n /\ 1 \in 1..n /\ Top(u) = s[1]
  BY <1>1, <1>2, StackFacts
<1>4. PICK t : t = [s EXCEPT ![1] = f]
  OBVIOUS
<1>5. /\ t \in Seq(FrameType) /\ Len(t) = n /\ DOMAIN t = 1..n /\ t[1] = f
      /\ \A k \in 1..n : k # 1 => t[k] = s[k]
  <2>1. s \in [1..n -> FrameType]
    BY <1>2, <1>3
  <2>2. t \in [1..n -> FrameType] /\ t[1] = f /\ \A k \in 1..n : k # 1 => t[k] = s[k]
    BY <1>3, <1>4, <2>1
  <2>3. t \in Seq(FrameType) /\ DOMAIN t = 1..n
    BY <2>2
  <2> QED
    BY <2>2, <2>3
<1>6. /\ DOMAIN stack = Image /\ DOMAIN at = Image /\ TypesSound(types) /\ StackSound(u)
  BY DEF DetailSound, DetailTypes
<1>7. stack'[u] = t /\ DOMAIN stack' = Image /\ DOMAIN at' = Image
      /\ \A v \in Image : v # u => stack'[v] = stack[v] /\ at'[v] = at[v]
  BY <1>1, <1>4, <1>6
<1>8. \A k \in 1..n : t[k].tree = s[k].tree
  BY <1>3, <1>5
<1>9. ASSUME NEW k \in 1..n PROVE FrameSound(u, t[k])' /\ (k # 1 => Calls(t[k], t[k - 1])')
  <2>1. CASE k = 1
    BY <1>5, <2>1
  <2>2. CASE k # 1
    <3>1. FrameSound(u, s[k]) /\ Calls(s[k], s[k - 1])
      BY <1>1, <1>3, <1>6, <2>2 DEF StackSound
    <3>2. FrameSound(u, s[k])'
      BY <3>1, SameTypes DEF FrameSound
    <3>3. t[k] = s[k] /\ k - 1 \in 1..n
      BY <1>5, <2>2
    <3>4. t[k - 1].tree = s[k - 1].tree
      BY <1>8, <3>3
    <3>5. Calls(t[k], t[k - 1])'
      BY <3>1, <3>3, <3>4, SameTypes DEF Calls
    <3> QED
      BY <3>2, <3>3, <3>5
  <2> QED
    BY <2>1, <2>2
<1>10. ASSUME NEW j \in 1..n, NEW k \in 1..n, j < k, t[j].pc # "look"
       PROVE  NodeAt(t[j].tree) # NodeAt(t[k].tree)
  <2>1. CASE s[j].pc # "look"
    BY <1>1, <1>3, <1>6, <1>8, <1>10, <2>1 DEF StackSound
  <2>2. CASE s[j].pc = "look"
    <3>1. j = 1
      BY <1>5, <1>10, <2>2
    <3>2. NodeAt(f.tree) \notin isSet /\ t[j] = f
      BY <1>3, <1>5, <1>10, <2>2, <3>1
    <3>3. k # 1 /\ FrameSound(u, s[k]) /\ s[k].pc = "parts"
      BY <1>1, <1>3, <1>6, <1>10, <3>1 DEF StackSound, Calls
    <3>4. NodeAt(t[k].tree) \in isSet
      BY <1>8, <3>3 DEF FrameSound
    <3> QED
      BY <3>2, <3>4
  <2> QED
    BY <2>1, <2>2
<1>11. StackSound(u)'
  <2>1. FrameType' = FrameType
    BY SameTypes DEF FrameType
  <2>2. at'[u] \in 1..(Len(Objects(u)') + 1) /\ at'[u] \in DOMAIN (Objects(u)')
    BY <1>6, SameTypes DEF StackSound
  <2>3. t[Len(t)].tree = <<u, Objects(u)'[at'[u]]>>
    <3>1. s[n].tree = <<u, Objects(u)[at[u]]>>
      BY <1>1, <1>2, <1>6 DEF StackSound
    <3>2. t[n].tree = s[n].tree
      BY <1>3, <1>8
    <3> QED
      BY <1>5, <3>1, <3>2, SameTypes
  <2>4. \A j, k \in DOMAIN t : j < k /\ t[j].pc # "look" =>
           NodeAt(t[j].tree)' # NodeAt(t[k].tree)'
    BY <1>5, <1>10, SameTypes
  <2>5. \A k \in DOMAIN t : FrameSound(u, t[k])' /\ (k # 1 => Calls(t[k], t[k - 1])')
    BY <1>5, <1>9
  <2>6. t = stack'[u] /\ t \in Seq(FrameType')
    BY <1>5, <1>7, <2>1
  <2> QED
    BY <2>2, <2>3, <2>4, <2>5, <2>6 DEF StackSound
<1>12. ASSUME f.pc = "set" => NodeAt(f.tree) \notin isSet' PROVE OvertakenBy(u)'
  <2>1. ASSUME NEW k \in 1..n, t[k].pc = "set", NodeAt(t[k].tree) \in isSet'
        PROVE  FALSE
    <3>1. CASE k = 1
      BY <1>5, <1>12, <2>1, <3>1
    <3>2. CASE k # 1
      <4>1. Calls(s[k], s[k - 1])
        BY <1>1, <1>3, <1>6, <3>2 DEF StackSound
      <4> QED
        BY <1>5, <2>1, <3>2, <4>1 DEF Calls
    <3> QED
      BY <3>1, <3>2
  <2>2. \A k \in DOMAIN stack'[u] :
           stack'[u][k].pc = "set" => NodeAt(stack'[u][k].tree) \notin isSet'
    BY <1>5, <1>7, <2>1
  <2> QED
    BY <2>2, SameTypes DEF OvertakenBy
<1>13. Passed(u)'
  BY PassedKeeps DEF DetailSound
<1> QED
  BY <1>1, <1>3, <1>4, <1>5, <1>7, <1>11, <1>12, <1>13 DEF OthersKeep

LEMMA ReplacedPlaces ==
    ASSUME DetailSound, NEW u \in Image, stack[u] # <<>>, types' = types,
           NEW f, f.tree = Top(u).tree, stack'[u][1] = f,
           DOMAIN stack'[u] = DOMAIN stack[u],
           \A k \in DOMAIN stack[u] : k # 1 => stack'[u][k] = stack[u][k],
           NEW m, NodeAt(f.tree) # m \/ (f.pc # "parts" /\ Top(u).pc # "parts")
    PROVE  Fills(u, m)' = Fills(u, m) /\ SamePlaces(u, m)
<1>1. ASSUME NEW k
      PROVE  /\ k \in Fills(u, m)' <=> k \in Fills(u, m)
             /\ k \in Fills(u, m) => stack'[u][k] = stack[u][k]
  <2>1. k \in Fills(u, m)' <=> /\ k \in DOMAIN stack[u] /\ stack'[u][k].pc = "parts"
                               /\ NodeAt(stack'[u][k].tree) = m
    BY SameTypes DEF Fills
  <2>2. CASE k = 1
    BY <2>1, <2>2 DEF Fills, Top
  <2>3. CASE k # 1
    BY <2>1, <2>3 DEF Fills
  <2> QED
    BY <2>2, <2>3
<1>2. Fills(u, m)' = Fills(u, m)
  BY <1>1
<1> QED
  BY <1>1, <1>2 DEF SamePlaces

(* A call that finds nothing done for its node goes on.                    *)
LEMMA LookGoesOn ==
    ASSUME DetailSound, NEW u \in Image, Look(u), ~ Done(NodeAt(Top(u).tree))
    PROVE  DetailSound'
<1>1. PICK x, f : x = Top(u).tree /\ f = Frame(x, "set")
  OBVIOUS
<1>2. /\ stack[u] # <<>> /\ Top(u).pc = "look"
      /\ stack' = [stack EXCEPT ![u][1] = f] /\ at' = at
      /\ types' = types /\ isSet' = isSet /\ entered' = entered /\ children' = children
      /\ nxt' = nxt /\ variant' = variant /\ paths' = paths
  BY <1>1 DEF Look, Goto
<1>3. /\ TypesSound(types) /\ StackSound(u)
      /\ isSet \subseteq Nodes /\ variant \subseteq isSet
      /\ DOMAIN entered = Nodes /\ DOMAIN children = Nodes /\ DOMAIN nxt = Nodes
      /\ DOMAIN paths = Decls /\ DOMAIN stack = Image /\ DOMAIN at = Image
  BY DEF DetailSound, DetailTypes
<1>4. /\ x \in Trees \cup Decls /\ x[1] = u /\ NodeAt(x) # None /\ NodeAt(x) \notin isSet
      /\ f \in FrameType /\ f.tree = x /\ f.pc = "set" /\ f.i = 1
  <2>1. x \in Trees \cup Decls /\ Top(u) = stack[u][1] /\ 1 \in DOMAIN stack[u]
    BY <1>1, <1>2, StackFacts
  <2> QED
    BY <1>1, <1>3, <2>1, FrameIsFrame DEF StackSound, FrameSound, Done
<1>5. FrameSound(u, f)'
  <2>1. Len(Parts(x)) \in Nat
    BY <1>3, <1>4, PartsFacts, ListFacts DEF PartsSound
  <2> QED
    BY <1>2, <1>4, <2>1, SameTypes DEF FrameSound
<1>6. /\ StackSound(u)' /\ DOMAIN stack' = Image /\ DOMAIN at' = Image
      /\ OthersKeep(u) /\ Passed(u)' /\ OvertakenBy(u)'
      /\ DOMAIN stack'[u] = DOMAIN stack[u] /\ stack'[u][1] = f
      /\ \A k \in DOMAIN stack[u] : k # 1 => stack'[u][k] = stack[u][k]
  BY <1>1, <1>2, <1>4, <1>5, ReplacedTop
<1>7. \A m : Fills(u, m)' = Fills(u, m) /\ SamePlaces(u, m)
  <2> TAKE m
  <2>1. f.tree = Top(u).tree /\ f.pc # "parts" /\ Top(u).pc # "parts"
    BY <1>1, <1>2, <1>4
  <2> QED
    BY <1>2, <1>6, <2>1, ReplacedPlaces
<1>8. TypesKeep
  BY <1>2, <1>3, <1>6 DEF TypesKeep
<1>9. \A m \in Nodes : Untouched(u, m)
  BY <1>2, <1>7 DEF Untouched
<1>10. \A v \in Image : OvertakenBy(v)'
  BY <1>2, <1>6, OvertakenKeeps DEF DetailSound, OthersKeep
<1>11. PathsKnown'
  BY <1>2, <1>6, <1>7, PathsKeep
<1>12. PICK M : M = {}
  OBVIOUS
<1> QED
  BY <1>6, <1>8, <1>9, <1>10, <1>11, <1>12, StepKeeps

(* A worker that fills in node n is at one place of its stack with it.     *)
LEMMA TopAlone ==
    ASSUME DetailSound, NEW u \in Image, stack[u] # <<>>, Top(u).pc # "look",
           NEW k \in Fills(u, NodeAt(Top(u).tree))
    PROVE  k = 1 /\ Top(u).pc = "parts"
<1>1. k \in DOMAIN stack[u] /\ NodeAt(stack[u][k].tree) = NodeAt(Top(u).tree)
      /\ stack[u][k].pc = "parts"
  BY DEF Fills
<1>2. 1 \in DOMAIN stack[u] /\ Top(u) = stack[u][1] /\ DOMAIN stack[u] = 1..Len(stack[u])
      /\ Len(stack[u]) \in Nat
  BY StackFacts
<1>3. k = 1
  <2> SUFFICES ASSUME k # 1 PROVE FALSE
    OBVIOUS
  <2>1. 1 < k
    BY <1>1, <1>2
  <2> QED
    BY <1>1, <1>2, <2>1 DEF DetailSound, StackSound
<1> QED
  BY <1>1, <1>2, <1>3

(* is_set is written: the worker comes to fill in the node, which is a     *)
(* second time only when another image's worker was there before.          *)
LEMMA SetKeeps ==
    ASSUME DetailSound, NEW u \in Image, Set(u)
    PROVE  DetailSound'
<1>1. PICK x, n, f : x = Top(u).tree /\ n = NodeAt(x) /\ f = Frame(x, "parts")
  OBVIOUS
<1>2. /\ stack[u] # <<>> /\ Top(u).pc = "set"
      /\ stack' = [stack EXCEPT ![u][1] = f] /\ at' = at
      /\ types' = types /\ isSet' = isSet \cup {n}
      /\ entered' = [entered EXCEPT ![n] = @ + 1] /\ children' = children
      /\ nxt' = nxt /\ variant' = variant /\ paths' = paths
  BY <1>1 DEF Set, Goto
<1>3. /\ TypesSound(types) /\ StackSound(u)
      /\ isSet \subseteq Nodes /\ variant \subseteq isSet
      /\ DOMAIN entered = Nodes /\ DOMAIN children = Nodes /\ DOMAIN nxt = Nodes
      /\ DOMAIN paths = Decls /\ DOMAIN stack = Image /\ DOMAIN at = Image
  BY DEF DetailSound, DetailTypes
<1>4. /\ x \in Trees \cup Decls /\ x[1] = u /\ n \in Nodes /\ x \in TreesOf(n)
      /\ f \in FrameType /\ f.tree = x /\ f.pc = "parts" /\ f.i = 1
      /\ n \in Decls => x = n
  <2>1. x \in Trees \cup Decls /\ Top(u) = stack[u][1] /\ 1 \in DOMAIN stack[u]
    BY <1>1, <1>2, StackFacts
  <2>2. x[1] = u /\ n # None
    BY <1>1, <1>2, <1>3, <2>1 DEF StackSound, FrameSound
  <2> QED
    BY <1>1, <1>3, <2>1, <2>2, FrameIsFrame, NodeAtFacts
<1>5. IsList(Parts(x)) /\ Len(Parts(x)) \in Nat /\ DOMAIN Parts(x) = 1..Len(Parts(x))
  BY <1>3, <1>4, PartsFacts, ListFacts DEF PartsSound
<1>6. FrameSound(u, f)'
  <2>1. NodeAt(f.tree)' = n /\ n # None
    BY <1>1, <1>2, <1>3, <1>4, SameTypes, NoneIsNoPlace
  <2> QED
    BY <1>2, <1>4, <1>5, <2>1, SameTypes DEF FrameSound
<1>7. /\ StackSound(u)' /\ DOMAIN stack' = Image /\ DOMAIN at' = Image
      /\ OthersKeep(u) /\ Passed(u)' /\ OvertakenBy(u)'
      /\ DOMAIN stack'[u] = DOMAIN stack[u] /\ stack'[u][1] = f
      /\ \A k \in DOMAIN stack[u] : k # 1 => stack'[u][k] = stack[u][k]
  BY <1>1, <1>2, <1>4, <1>6, ReplacedTop
<1>8. \A m : m # n => Fills(u, m)' = Fills(u, m) /\ SamePlaces(u, m)
  <2> TAKE m
  <2> HAVE m # n
  <2>1. f.tree = Top(u).tree /\ NodeAt(f.tree) # m
    BY <1>1, <1>4
  <2> QED
    BY <1>2, <1>7, <2>1, ReplacedPlaces
<1>9. Fills(u, n)' = {1}
  <2>1. 1 \in Fills(u, n)'
    <3>1. 1 \in DOMAIN stack[u]
      BY <1>2, StackFacts
    <3> QED
      BY <1>1, <1>2, <1>4, <1>7, <3>1, SameTypes DEF Fills
  <2>2. ASSUME NEW k \in Fills(u, n)', k # 1 PROVE FALSE
    <3>1. k \in Fills(u, n)
      BY <1>2, <1>7, <2>2, SameTypes DEF Fills
    <3> QED
      BY <1>1, <1>2, <2>2, <3>1, TopAlone
  <2> QED
    BY <2>1, <2>2
<1>10. TypesKeep
  BY <1>2, <1>3, <1>4, <1>7 DEF TypesKeep
<1>11. ASSUME NEW m \in Nodes, m # n PROVE Untouched(u, m)
  BY <1>2, <1>3, <1>8, <1>11 DEF Untouched
<1>12. ASSUME NEW v \in Image PROVE OvertakenBy(v)'
  <2>1. CASE v = u
    BY <1>7, <2>1
  <2>2. CASE v # u
    <3>1. stack'[v] = stack[v] /\ OvertakenBy(v)
      BY <1>7, <2>2 DEF OthersKeep, DetailSound
    <3>2. ASSUME NEW k \in DOMAIN stack[v], NEW m, m = NodeAt(stack[v][k].tree),
                 stack[v][k].pc = "set", m \in isSet'
          PROVE  \E y \in TreesOf(m) : y[1] # v
      BY <1>2, <1>4, <2>2, <3>1, <3>2 DEF OvertakenBy
    <3> QED
      BY <1>2, <3>1, <3>2, SameTypes DEF OvertakenBy
  <2> QED
    BY <2>1, <2>2
<1>13. NodeSound(n)'
  <2>1. NodeSound(n) /\ entered'[n] = entered[n] + 1 /\ entered[n] \in Nat /\ n \in isSet'
    BY <1>2, <1>3, <1>4 DEF DetailSound, NodeSound
  <2>2. CASE entered[n] = 0
    <3>1. n \notin isSet /\ children[n] = <<>> /\ entered'[n] = 1
      BY <2>1, <2>2 DEF NodeSound
    <3>2. ASSUME NEW v \in Image, v # u PROVE Fills(v, n)' = {}
      <4>1. Fills(v, n)' = Fills(v, n)
        BY <1>2, <1>7, <3>2, FillsKeep DEF OthersKeep
      <4>2. ASSUME NEW k \in Fills(v, n) PROVE FALSE
        <5>1. FrameSound(v, stack[v][k]) /\ stack[v][k].pc = "parts"
              /\ NodeAt(stack[v][k].tree) = n
          BY DEF Fills, DetailSound, StackSound
        <5> QED
          BY <3>1, <5>1 DEF FrameSound
      <4> QED
        BY <4>1, <4>2
    <3>3. Built(x, n, 0)'
      <4>1. Rows(x, 0)' = <<>>
        BY <1>2, RowsFacts, SameRows
      <4>2. \A i \in DOMAIN Parts(x)' : ~ (i <= 0)
        BY <1>2, <1>5, SameTypes
      <4> QED
        BY <1>2, <3>1, <4>1, <4>2 DEF Built
    <3>4. \A v \in Image : \A k \in Fills(v, n)' :
             Built(stack[v][k].tree, n, stack[v][k].i - 1)'
      <4> TAKE v \in Image
      <4> TAKE k \in Fills(v, n)'
      <4>1. v = u /\ k = 1
        BY <1>9, <3>2
      <4>2. stack'[v][k].tree = x /\ stack'[v][k].i - 1 = 0
        BY <1>4, <1>7, <4>1
      <4> QED
        BY <3>3, <4>2 DEF Built
    <3>5. \A a, b \in Image : Fills(a, n)' # {} /\ Fills(b, n)' # {} => a = b
      BY <3>2
    <3>6. Fills(u, n)' # {}
      BY <1>9
    <3>7. entered'[n] = 1 /\ entered'[n] \in Nat /\ n \in isSet'
      BY <2>1, <3>1
    <3> QED
      BY <3>4, <3>5, <3>6, <3>7 DEF NodeSound
  <2>3. CASE entered[n] # 0
    <3>1. n \in isSet /\ entered'[n] > 1 /\ entered'[n] \in Nat
      BY <2>1, <2>3 DEF NodeSound
    <3>2. PICK y \in TreesOf(n) : y[1] # u
      <4>1. OvertakenBy(u) /\ 1 \in DOMAIN stack[u] /\ Top(u) = stack[u][1]
        BY <1>2, StackFacts DEF DetailSound
      <4> QED
        BY <1>1, <1>2, <3>1, <4>1 DEF OvertakenBy
    <3>3. TwoImages(n)'
      BY <1>2, <1>4, <3>2, SameTypes DEF TwoImages
    <3> QED
      BY <2>1, <3>1, <3>3 DEF NodeSound
  <2> QED
    BY <2>2, <2>3
<1>14. PathsKnown'
  <2>1. \A d \in Decls : d \in isSet' => d \in isSet \/ (d[1] = u /\ Fills(u, d)' # {})
    BY <1>2, <1>4, <1>9
  <2>2. \A m \in Nodes : Fills(u, m) # {} => Fills(u, m)' # {}
    BY <1>8, <1>9
  <2> QED
    BY <1>2, <1>7, <2>1, <2>2, PathsKeep
<1>15. PICK M : M = {n}
  OBVIOUS
<1> QED
  BY <1>7, <1>10, <1>11, <1>12, <1>13, <1>14, <1>15, StepKeeps

(* One part more of the node is entered.                                   *)
LEMMA BuiltStep ==
    ASSUME NEW x, NEW n, NEW i, PartsSound(x, Parts(x)), i \in DOMAIN Parts(x),
           Built(x, n, i - 1), types' = types,
           children'[n] = IF Parts(x)[i].role \in {"child", "value"}
                          THEN Append(children[n], RowOf(x, i)) ELSE children[n],
           nxt'[n] = IF Parts(x)[i].role = "next"
                     THEN NodeOf(<<x[1], Parts(x)[i].type>>) ELSE nxt[n]
    PROVE  Built(x, n, i)'
<1>1. PICK p : p = Parts(x)
  OBVIOUS
<1>2. /\ DOMAIN p = 1..Len(p) /\ Len(p) \in Nat
      /\ \A j \in DOMAIN p : p[j].role = "next" => j = 1
  BY <1>1, ListFacts DEF PartsSound
<1>3. PICK m \in Nat : i = m + 1 /\ m = i - 1
  <2>1. i - 1 \in Nat /\ i = (i - 1) + 1
    BY <1>1, <1>2
  <2> QED
    BY <2>1
<1>4. children'[n] = Rows(x, i)'
  <2>1. children[n] = Rows(x, m)
    BY <1>3 DEF Built
  <2>2. i \in Listed(x) <=> Parts(x)[i].role \in {"child", "value"}
    BY DEF Listed
  <2>3. Rows(x, i) = IF i \in Listed(x) THEN Append(Rows(x, m), RowOf(x, i)) ELSE Rows(x, m)
    BY <1>3, RowsFacts
  <2> QED
    BY <2>1, <2>2, <2>3, SameRows
<1>5. ASSUME NEW j \in DOMAIN p, j <= i, p[j].role = "next"
      PROVE  nxt'[n] = NodeOf(<<x[1], p[j].type>>)
  <2>1. CASE j = i
    BY <1>1, <1>5, <2>1
  <2>2. CASE j # i
    <3>1. j <= m /\ p[i].role # "next"
      BY <1>1, <1>2, <1>3, <1>5, <2>2
    <3> QED
      BY <1>1, <1>3, <1>5, <3>1 DEF Built
  <2> QED
    BY <2>1, <2>2
<1>6. Parts(x)' = p
  BY <1>1, SameTypes
<1>7. \A j \in DOMAIN p : j <= i /\ p[j].role = "next" =>
         nxt'[n] = NodeOf(<<x[1], p[j].type>>)'
  BY <1>5, SameTypes
<1> QED
  BY <1>4, <1>6, <1>7 DEF Built

(* The next part: an enumerator or a mark for open arguments is entered at *)
(* once, a type is looked at first.                                        *)
LEMMA NextPartKeeps ==
    ASSUME DetailSound, NEW u \in Image, NextPart(u)
    PROVE  DetailSound'
<1>1. PICK x, n, i, p, part : /\ x = Top(u).tree /\ n = NodeAt(x) /\ i = Top(u).i
                              /\ p = Parts(x) /\ part = p[i]
  OBVIOUS
<1>2. /\ stack[u] # <<>> /\ Top(u).pc = "parts" /\ i \in DOMAIN p /\ at' = at
      /\ types' = types /\ isSet' = isSet /\ entered' = entered
      /\ nxt' = nxt /\ paths' = paths
  BY <1>1 DEF NextPart
<1>3. /\ TypesSound(types) /\ StackSound(u)
      /\ isSet \subseteq Nodes /\ variant \subseteq isSet
      /\ DOMAIN entered = Nodes /\ DOMAIN children = Nodes /\ DOMAIN nxt = Nodes
      /\ DOMAIN paths = Decls /\ DOMAIN stack = Image /\ DOMAIN at = Image
  BY DEF DetailSound, DetailTypes
<1>4. /\ Top(u) = stack[u][1] /\ 1 \in DOMAIN stack[u] /\ Top(u) \in FrameType
      /\ x \in Trees \cup Decls /\ x[1] = u /\ n \in Nodes /\ n \in isSet
      /\ at[u] \in DOMAIN Objects(u)
  <2>1. /\ x \in Trees \cup Decls /\ Top(u) = stack[u][1] /\ 1 \in DOMAIN stack[u]
        /\ Top(u) \in FrameType
    BY <1>1, <1>2, StackFacts
  <2> QED
    BY <1>1, <1>2, <1>3, <2>1, NodeAtFacts DEF StackSound, FrameSound
<1>5. PartsSound(x, p) /\ Len(p) \in Nat /\ DOMAIN p = 1..Len(p)
  BY <1>1, <1>3, <1>4, PartsFacts, ListFacts DEF PartsSound
<1>6. CASE part.role = "value"
  <2>1. PICK f : f = [Top(u) EXCEPT !.i = @ + 1]
    OBVIOUS
  <2>2. PICK e : e = [of |-> x, i |-> i, type |-> None]
    OBVIOUS
  <2>3. /\ children' = [children EXCEPT ![n] = Append(@, e)]
        /\ stack' = [stack EXCEPT ![u][1] = f] /\ variant' = variant
    BY <1>1, <1>6, <2>1, <2>2 DEF NextPart, Goto
  <2>4. f \in FrameType /\ f.tree = x /\ f.pc = "parts" /\ f.i = i + 1
    BY <1>1, <1>2, <1>4, <2>1 DEF FrameType
  <2>5. FrameSound(u, f)'
    <3>1. i + 1 <= Len(p) + 1 /\ NodeAt(x) # None /\ NodeAt(x) \in isSet
      BY <1>1, <1>2, <1>3, <1>4, <1>5, NoneIsNoPlace
    <3> QED
      BY <1>1, <1>2, <1>4, <2>4, <3>1, SameTypes DEF FrameSound
  <2>6. /\ StackSound(u)' /\ DOMAIN stack' = Image /\ DOMAIN at' = Image
        /\ OthersKeep(u) /\ Passed(u)' /\ OvertakenBy(u)'
        /\ DOMAIN stack'[u] = DOMAIN stack[u] /\ stack'[u][1] = f
        /\ \A k \in DOMAIN stack[u] : k # 1 => stack'[u][k] = stack[u][k]
    BY <1>1, <1>2, <2>3, <2>4, <2>5, ReplacedTop
  <2>7. \A m : m # n => Fills(u, m)' = Fills(u, m) /\ SamePlaces(u, m)
    <3> TAKE m
    <3> HAVE m # n
    <3>1. f.tree = Top(u).tree /\ NodeAt(f.tree) # m
      BY <1>1, <2>4
    <3> QED
      BY <1>2, <2>6, <3>1, ReplacedPlaces
  <2>8. Fills(u, n)' = {1} /\ 1 \in Fills(u, n)
    <3>1. 1 \in Fills(u, n)' /\ 1 \in Fills(u, n)
      BY <1>1, <1>2, <1>4, <2>4, <2>6, SameTypes DEF Fills
    <3>2. ASSUME NEW k \in Fills(u, n)', k # 1 PROVE FALSE
      <4>1. k \in Fills(u, n)
        BY <1>2, <2>6, <3>2, SameTypes DEF Fills
      <4> QED
        BY <1>1, <1>2, <3>2, <4>1, TopAlone
    <3> QED
      BY <3>1, <3>2
  <2>9. TypesKeep
    BY <1>2, <1>3, <2>3, <2>6 DEF TypesKeep
  <2>10. ASSUME NEW m \in Nodes, m # n PROVE Untouched(u, m)
    BY <1>2, <1>3, <2>3, <2>7, <2>10 DEF Untouched
  <2>11. \A v \in Image : OvertakenBy(v)'
    BY <1>2, <2>6, OvertakenKeeps DEF DetailSound, OthersKeep
  <2>12. NodeSound(n)'
    <3>1. NodeSound(n) /\ entered[n] \in Nat /\ entered[n] # 0
      BY <1>4 DEF DetailSound, NodeSound
    <3>2. ASSUME entered[n] = 1 PROVE NodeSound(n)'
      <4>1. ASSUME NEW v \in Image, Fills(v, n)' # {} PROVE v = u
        <5>1. CASE v = u
          BY <5>1
        <5>2. CASE v # u
          <6>1. Fills(v, n)' = Fills(v, n)
            BY <1>2, <2>6, <5>2, FillsKeep DEF OthersKeep
          <6> QED
            BY <2>8, <3>1, <3>2, <4>1, <6>1 DEF NodeSound
        <5> QED
          BY <5>1, <5>2
      <4>2. Built(x, n, i - 1)
        BY <1>1, <1>4, <2>8, <3>1, <3>2 DEF NodeSound
      <4>3. Built(x, n, i)'
        <5>1. RowOf(x, i) = e
          BY <1>1, <1>6, <2>2 DEF RowOf
        <5>2. /\ children'[n] = Append(children[n], RowOf(x, i)) /\ nxt'[n] = nxt[n]
              /\ Parts(x)[i].role = "value"
          BY <1>1, <1>2, <1>3, <1>4, <1>6, <2>3, <5>1
        <5> QED
          BY <1>1, <1>2, <1>5, <4>2, <5>2, BuiltStep
      <4>4. \A v \in Image : \A k \in Fills(v, n)' :
               Built(stack[v][k].tree, n, stack[v][k].i - 1)'
        <5> TAKE v \in Image
        <5> TAKE k \in Fills(v, n)'
        <5>1. v = u /\ k = 1
          BY <2>8, <4>1
        <5>2. stack'[v][k].tree = x /\ stack'[v][k].i - 1 = i
          BY <1>2, <1>5, <2>4, <2>6, <5>1
        <5> QED
          BY <4>3, <5>2 DEF Built
      <4>5. \A a, b \in Image : Fills(a, n)' # {} /\ Fills(b, n)' # {} => a = b
        BY <4>1
      <4>6. Fills(u, n)' # {}
        BY <2>8
      <4>7. entered'[n] = 1 /\ entered'[n] \in Nat /\ n \in isSet'
        BY <1>2, <1>4, <3>2
      <4> QED
        BY <4>4, <4>5, <4>6, <4>7 DEF NodeSound
    <3>3. ASSUME entered[n] # 1 PROVE NodeSound(n)'
      <4>1. /\ entered'[n] > 1 /\ entered'[n] # 1 /\ entered'[n] # 0
            /\ entered'[n] \in Nat /\ n \in isSet'
        BY <1>2, <1>4, <3>1, <3>3
      <4>2. TwoImages(n)'
        BY <1>2, <3>1, <4>1, SameTypes DEF TwoImages, NodeSound
      <4> QED
        BY <4>1, <4>2 DEF NodeSound
    <3> QED
      BY <3>2, <3>3
  <2>13. PathsKnown'
    <3>1. \A m \in Nodes : Fills(u, m) # {} => Fills(u, m)' # {}
      BY <2>7, <2>8
    <3> QED
      BY <1>2, <2>6, <3>1, PathsKeep
  <2>14. PICK M : M = {n}
    OBVIOUS
  <2> QED
    BY <2>6, <2>9, <2>10, <2>11, <2>12, <2>13, <2>14, StepKeeps
<1>7. CASE part.role # "value"
  <2>1. PICK y : y = <<u, part.type>>
    OBVIOUS
  <2>2. /\ stack' = [stack EXCEPT ![u] = <<Frame(y, "look")>> \o @] /\ children' = children
        /\ variant' \subseteq variant \cup {n}
    BY <1>1, <1>7, <2>1 DEF NextPart
  <2>3. y \in Trees /\ y[1] = u
    BY <1>1, <1>2, <1>4, <1>5, <1>7, <2>1 DEF PartsSound
  <2>4. stack'[u] = <<Frame(y, "look")>> \o stack[u]
        /\ \A v \in Image : v # u => stack'[v] = stack[v] /\ at'[v] = at[v]
    BY <1>2, <1>3, <2>2
  <2>5. Calls(Top(u), Frame(y, "look"))
    <3>1. Frame(y, "look").tree = y
      BY <2>3, FrameIsFrame
    <3> QED
      BY <1>1, <1>2, <1>4, <1>7, <2>1, <3>1 DEF Calls
  <2>6. StackSound(u)' /\ OvertakenBy(u)' /\ \A m : SamePlaces(u, m)
    BY <1>2, <1>4, <2>3, <2>4, <2>5, PushedLook
  <2>7. Passed(u)'
    BY <1>2, PassedKeeps DEF DetailSound
  <2>8. OthersKeep(u)
    BY <2>4 DEF OthersKeep
  <2>9. \A v \in Image : OvertakenBy(v)'
    BY <1>2, <2>4, <2>6, OvertakenKeeps DEF DetailSound
  <2>10. TypesKeep
    <3>1. DOMAIN stack' = Image /\ DOMAIN at' = Image
      BY <1>2, <1>3, <2>2
    <3> QED
      BY <1>2, <1>3, <1>4, <2>2, <3>1 DEF TypesKeep
  <2>11. PathsKnown'
    BY <1>2, <2>6, <2>8, PathsKeep DEF SamePlaces
  <2>12. \A m \in Nodes : Untouched(u, m)
    BY <1>2, <2>2, <2>6 DEF Untouched
  <2>13. PICK M : M = {}
    OBVIOUS
  <2> QED
    BY <2>6, <2>7, <2>8, <2>9, <2>10, <2>11, <2>12, <2>13, StepKeeps
<1> QED
  BY <1>6, <1>7

(* The call at the top is gone; the one below it may be a part further.    *)
Popped(u) ==
    /\ \A k \in DOMAIN stack'[u] :
          /\ k \in Nat \ {0} /\ k + 1 \in DOMAIN stack[u]
          /\ stack'[u][k].tree = stack[u][k + 1].tree
          /\ stack'[u][k].pc = "parts" /\ stack[u][k + 1].pc = "parts"
          /\ k # 1 => stack'[u][k].i = stack[u][k + 1].i
    /\ \A k \in DOMAIN stack[u] : k # 1 => k \in Nat /\ k - 1 \in DOMAIN stack'[u]
    /\ DOMAIN stack' = Image /\ DOMAIN at' = Image
    /\ OthersKeep(u) /\ OvertakenBy(u)' /\ StackSound(u)' /\ Passed(u)'

LEMMA PoppedLast ==
    ASSUME DetailSound, NEW u \in Image, Len(stack[u]) = 1, types' = types, isSet' = isSet,
           Done(NodeAt(Top(u).tree)),
           stack' = [stack EXCEPT ![u] = <<>>], at' = [at EXCEPT ![u] = @ + 1]
    PROVE  Popped(u) /\ stack'[u] = <<>>
<1>1. /\ TypesSound(types) /\ StackSound(u) /\ Passed(u)
      /\ DOMAIN stack = Image /\ DOMAIN at = Image
  BY DEF DetailSound, DetailTypes
<1>2. stack[u] # <<>> /\ DOMAIN stack[u] = 1..1 /\ Top(u) = stack[u][1]
  <2>1. DOMAIN stack[u] = 1..1
    BY StackFacts
  <2>2. 1 \in DOMAIN stack[u]
    BY <2>1
  <2>3. stack[u] # <<>>
    BY <2>2, NoneIsList
  <2> QED
    BY <2>1, <2>3 DEF Top
<1>3. /\ stack'[u] = <<>> /\ at'[u] = at[u] + 1
      /\ DOMAIN stack' = Image /\ DOMAIN at' = Image /\ OthersKeep(u)
  BY <1>1 DEF OthersKeep
<1>4. PICK x : x = <<u, Objects(u)[at[u]]>>
  OBVIOUS
<1>5. /\ at[u] \in DOMAIN Objects(u) /\ Top(u).tree = x
      /\ Len(Objects(u)) \in Nat /\ DOMAIN Objects(u) = 1..Len(Objects(u))
      /\ NodeAt(x) = x /\ x \in Nodes
  <2>1. at[u] \in DOMAIN Objects(u) /\ Top(u).tree = x
    BY <1>1, <1>2, <1>4 DEF StackSound
  <2> QED
    BY <1>1, <1>4, <2>1, ObjectFacts
<1>6. x \in isSet
  <2>1. x # None
    BY <1>1, <1>5, NoneIsNoPlace
  <2> QED
    BY <1>5, <2>1 DEF Done
<1>7. Passed(u)'
  <2>1. ASSUME NEW k \in DOMAIN Objects(u), k < at[u] + 1
        PROVE  LET y == <<u, Objects(u)[k]>>
               IN y \in isSet \/ (IsDecl(y) /\ ~ Decl(y).body)
    <3>1. CASE k = at[u]
      BY <1>4, <1>6, <3>1
    <3>2. CASE k # at[u]
      <4>1. k < at[u]
        BY <1>5, <2>1, <3>2
      <4> QED
        BY <1>1, <4>1 DEF Passed
    <3> QED
      BY <3>1, <3>2
  <2> QED
    BY <1>3, <2>1, SameTypes DEF Passed
<1>8. StackSound(u)'
  <2>1. at'[u] \in 1..(Len(Objects(u)') + 1)
    BY <1>3, <1>5, SameTypes
  <2>2. stack'[u] = <<>> /\ DOMAIN <<>> = {} /\ <<>> \in Seq(FrameType)'
    BY <1>3, NoneIsList
  <2> QED
    BY <2>1, <2>2 DEF StackSound
<1>9. OvertakenBy(u)'
  BY <1>3, NoneIsList DEF OvertakenBy
<1> QED
  BY <1>2, <1>3, <1>7, <1>8, <1>9, NoneIsList DEF Popped

LEMMA StackNext ==
    ASSUME NEW u, NEW t, t = stack'[u], t \in Seq(FrameType'),
           at'[u] \in 1..(Len(Objects(u)') + 1), at'[u] \in DOMAIN (Objects(u)'),
           t[Len(t)].tree = <<u, Objects(u)'[at'[u]]>>,
           \A k \in DOMAIN t : FrameSound(u, t[k])' /\ (k # 1 => Calls(t[k], t[k - 1])'),
           \A j, k \in DOMAIN t : j < k /\ t[j].pc # "look" =>
              NodeAt(t[j].tree)' # NodeAt(t[k].tree)'
    PROVE  StackSound(u)'
BY DEF StackSound

PopsTo(u, f) ==
    /\ f = [stack[u][2] EXCEPT !.i = @ + 1]
    /\ stack' = [stack EXCEPT ![u] = <<f>> \o SubSeq(@, 3, Len(@))]

LEMMA PoppedCall ==
    ASSUME DetailSound, NEW u \in Image, stack[u] # <<>>, Len(stack[u]) # 1,
           types' = types, isSet' = isSet, at' = at,
           NEW f, PopsTo(u, f)
    PROVE  /\ Popped(u) /\ 1 \in DOMAIN stack'[u] /\ stack'[u][1] = f
           /\ 2 \in DOMAIN stack[u] /\ stack[u][2] \in FrameType
           /\ f.tree = stack[u][2].tree /\ f.i = stack[u][2].i + 1
           /\ stack[u][2].i \in DOMAIN Parts(f.tree)
           /\ Parts(f.tree)[stack[u][2].i].role # "value"
           /\ Top(u).tree = <<u, Parts(f.tree)[stack[u][2].i].type>>
           /\ NodeAt(f.tree) \in Nodes /\ NodeAt(f.tree) \in isSet
           /\ f.tree \in Trees \cup Decls
           /\ f.tree[1] = u
<1>1. PICK s : s = stack[u]
  OBVIOUS
<1>2. PICK n \in Nat : n = Len(s)
  BY <1>1, StackFacts
<1>3. /\ s \in Seq(FrameType) /\ DOMAIN s = 1..n /\ n >= 2 /\ Top(u) = s[1]
      /\ \A k \in 1..n : s[k] \in FrameType
  <2>1. /\ s \in Seq(FrameType) /\ DOMAIN s = 1..n /\ n # 0 /\ Top(u) = s[1]
        /\ \A k \in DOMAIN s : s[k] \in FrameType
    BY <1>1, <1>2, StackFacts
  <2>2. n >= 2
    <3>1. n # 1
      BY <1>1, <1>2
    <3>2. n \in Nat /\ n # 0
      BY <2>1
    <3> HIDE <1>1, <1>2
    <3> QED
      BY <3>1, <3>2
  <2> QED
    BY <2>1, <2>2
<1>4. /\ TypesSound(types) /\ StackSound(u) /\ Passed(u)
      /\ DOMAIN stack = Image /\ DOMAIN at = Image
  BY DEF DetailSound, DetailTypes
<1>5. \A k \in 1..n : FrameSound(u, s[k]) /\ (k # 1 => Calls(s[k], s[k - 1]) /\ s[k].pc = "parts")
  BY <1>1, <1>3, <1>4 DEF StackSound, Calls
<1>6. PICK g : g = s[2]
  OBVIOUS
<1>7. /\ g \in FrameType /\ FrameSound(u, g) /\ Calls(g, s[1]) /\ g.pc = "parts"
      /\ g.tree \in Trees \cup Decls /\ g.tree[1] = u
      /\ g.i \in DOMAIN Parts(g.tree) /\ g.i \in Nat \ {0}
  <2>1. 2 \in 1..n /\ 2 # 1 /\ 2 - 1 = 1
    BY <1>3
  <2>2. g \in FrameType /\ FrameSound(u, g) /\ Calls(g, s[1]) /\ g.pc = "parts"
    BY <1>3, <1>5, <1>6, <2>1
  <2> QED
    BY <2>2 DEF FrameType, FrameSound, Calls
<1>8. /\ f \in FrameType /\ f.tree = g.tree /\ f.i = g.i + 1 /\ f.pc = "parts"
  BY <1>1, <1>6, <1>7 DEF FrameType, PopsTo
<1>9. PICK r : r = SubSeq(s, 3, n)
  OBVIOUS
<1>10. /\ r \in Seq(FrameType) /\ Len(r) = n - 2
       /\ \A k \in 1..(n - 2) : r[k] = s[k + 2]
  BY <1>3, <1>9
<1>11. PICK t : t = <<f>> \o r
  OBVIOUS
<1>12. /\ t \in Seq(FrameType) /\ Len(t) = n - 1 /\ DOMAIN t = 1..(n - 1) /\ t[1] = f
       /\ \A k \in 2..(n - 1) : t[k] = r[k - 1]
  <2>1. Len(r) + 1 = n - 1
    BY <1>3, <1>10
  <2> QED
    BY <1>8, <1>10, <1>11, <2>1, PushFacts
<1>13. \A k \in 2..(n - 1) : t[k] = s[k + 1]
  <2> TAKE k \in 2..(n - 1)
  <2>1. k - 1 \in 1..(n - 2) /\ (k - 1) + 2 = k + 1
    BY <1>3
  <2> QED
    BY <1>10, <1>12, <2>1
<1>14. /\ stack'[u] = t /\ DOMAIN stack' = Image /\ DOMAIN at' = Image /\ OthersKeep(u)
  BY <1>1, <1>2, <1>4, <1>9, <1>11 DEF OthersKeep, PopsTo
<1>15. ASSUME NEW k \in 1..(n - 1)
       PROVE  /\ k + 1 \in 1..n /\ t[k].tree = s[k + 1].tree /\ t[k].pc = "parts"
              /\ s[k + 1].pc = "parts"
              /\ k # 1 => t[k].i = s[k + 1].i
              /\ FrameSound(u, t[k])
              /\ k # 1 => k - 1 \in 1..(n - 1) /\ Calls(t[k], t[k - 1])
  <2>1. k + 1 \in 1..n /\ k + 1 # 1 /\ (k + 1) - 1 = k
    BY <1>3
  <2>2. FrameSound(u, s[k + 1]) /\ Calls(s[k + 1], s[k]) /\ s[k + 1].pc = "parts"
    BY <1>5, <2>1
  <2>3. CASE k = 1
    <3>1. t[k] = f /\ s[k + 1] = g
      BY <1>6, <1>12, <2>3
    <3>2. FrameSound(u, f)
      <4>1. PartsSound(g.tree, Parts(g.tree))
        BY <1>4, <1>7, PartsFacts
      <4>2. /\ Len(Parts(g.tree)) \in Nat /\ DOMAIN Parts(g.tree) = 1..Len(Parts(g.tree))
        BY <4>1, ListFacts DEF PartsSound
      <4>3. f.i <= Len(Parts(f.tree)) + 1
        BY <1>7, <1>8, <4>2
      <4>4. NodeAt(f.tree) # None /\ NodeAt(f.tree) \in isSet
        BY <1>7, <1>8 DEF FrameSound
      <4> QED
        BY <1>7, <1>8, <4>3, <4>4 DEF FrameSound
    <3> QED
      BY <1>7, <1>8, <2>1, <2>3, <3>1, <3>2
  <2>4. CASE k # 1
    <3>1. k \in 2..(n - 1)
      BY <2>4
    <3>2. t[k] = s[k + 1]
      BY <1>13, <3>1
    <3>3. k - 1 \in 1..(n - 1) /\ t[k - 1].tree = s[k].tree
      <4>1. CASE k = 2
        <5>1. k - 1 = 1 /\ 1 \in 1..(n - 1)
          BY <1>3, <4>1
        <5>2. t[1].tree = s[2].tree
          BY <1>6, <1>8, <1>12
        <5> QED
          BY <4>1, <5>1, <5>2
      <4>2. CASE k # 2
        <5>1. PICK j \in 2..(n - 1) : j = k - 1 /\ j + 1 = k
          BY <3>1, <4>2
        <5> QED
          BY <1>3, <1>13, <5>1
      <4> QED
        BY <4>1, <4>2
    <3>4. Calls(t[k], t[k - 1])
      BY <2>2, <3>2, <3>3 DEF Calls
    <3> QED
      BY <2>1, <2>2, <2>4, <3>2, <3>3, <3>4
  <2> QED
    BY <2>3, <2>4
<1>16. \A j, k \in 1..(n - 1) : j < k => NodeAt(t[j].tree) # NodeAt(t[k].tree)
  <2> TAKE j, k \in 1..(n - 1)
  <2> HAVE j < k
  <2>1. PICK a, b \in 1..n : a = j + 1 /\ b = k + 1 /\ a < b
    BY <1>15
  <2>2. s[a].pc # "look" /\ t[j].tree = s[a].tree /\ t[k].tree = s[b].tree
    BY <1>15, <2>1
  <2> QED
    BY <1>1, <1>3, <1>4, <2>1, <2>2 DEF StackSound
<1>17. StackSound(u)'
  <2>1. FrameType' = FrameType
    BY SameTypes DEF FrameType
  <2>2. at'[u] \in 1..(Len(Objects(u)') + 1) /\ at'[u] \in DOMAIN (Objects(u)')
    <3>1. s # <<>>
      BY <1>1
    <3> QED
      BY <1>1, <1>4, <3>1, SameTypes DEF StackSound
  <2>3. t[Len(t)].tree = <<u, Objects(u)'[at'[u]]>>
    <3>1. s[n].tree = <<u, Objects(u)[at[u]]>>
      BY <1>1, <1>2, <1>4 DEF StackSound
    <3>2. PICK m \in 1..(n - 1) : m = n - 1 /\ m + 1 = n
      BY <1>3
    <3>3. t[m].tree = s[n].tree
      BY <1>15, <3>2
    <3> QED
      BY <1>12, <3>1, <3>2, <3>3, SameTypes
  <2>4. \A j, k \in DOMAIN t : j < k /\ t[j].pc # "look" =>
           NodeAt(t[j].tree)' # NodeAt(t[k].tree)'
    BY <1>12, <1>16, SameTypes
  <2>5. \A k \in DOMAIN t : FrameSound(u, t[k])' /\ (k # 1 => Calls(t[k], t[k - 1])')
    <3> TAKE k \in DOMAIN t
    <3>1. FrameSound(u, t[k]) /\ (k # 1 => Calls(t[k], t[k - 1]))
      BY <1>12, <1>15
    <3> QED
      BY <3>1, SameTypes DEF FrameSound, Calls
  <2>6. t = stack'[u] /\ t \in Seq(FrameType')
    BY <1>12, <1>14, <2>1
  <2> QED
    BY <2>2, <2>3, <2>4, <2>5, <2>6, StackNext
<1>18. OvertakenBy(u)'
  BY <1>12, <1>14, <1>15 DEF OvertakenBy
<1>19. Passed(u)'
  BY <1>4, PassedKeeps
<1>20. Popped(u)
  <2>1. \A k \in DOMAIN stack[u] : k # 1 => k \in Nat /\ k - 1 \in DOMAIN stack'[u]
    BY <1>1, <1>3, <1>12, <1>14
  <2>2. \A k \in DOMAIN t :
          /\ k \in Nat \ {0} /\ k + 1 \in DOMAIN s
          /\ t[k].tree = s[k + 1].tree
          /\ t[k].pc = "parts" /\ s[k + 1].pc = "parts"
          /\ k # 1 => t[k].i = s[k + 1].i
    <3> TAKE k \in DOMAIN t
    <3>1. k \in 1..(n - 1) /\ k \in Nat \ {0}
      BY <1>12
    <3> QED
      BY <1>3, <1>15, <3>1
  <2>3. s = stack[u] /\ t = stack'[u]
    BY <1>1, <1>14
  <2> QED
    BY <1>14, <1>17, <1>18, <1>19, <2>1, <2>2, <2>3 DEF Popped
<1>21. 1 \in DOMAIN t /\ 2 \in DOMAIN s
  BY <1>3, <1>12
<1>22. NodeAt(g.tree) \in Nodes /\ NodeAt(g.tree) \in isSet
  BY <1>4, <1>7, NodeAtFacts DEF FrameSound
<1>23. Parts(g.tree)[g.i].role # "value" /\ s[1].tree = <<u, Parts(g.tree)[g.i].type>>
  BY <1>7 DEF Calls
<1> QED
  BY <1>1, <1>3, <1>6, <1>7, <1>8, <1>12, <1>14, <1>20, <1>21, <1>22, <1>23

LEMMA PoppedPlaces ==
    ASSUME DetailSound, NEW u \in Image, Popped(u), types' = types, NEW m
    PROVE  /\ \A k : k \in Fills(u, m)' => k \in Nat \ {0} /\ k + 1 \in Fills(u, m)
           /\ 1 \notin Fills(u, m) => (Fills(u, m)' # {} <=> Fills(u, m) # {})
           /\ 1 \notin Fills(u, m) /\ 2 \notin Fills(u, m) => SamePlaces(u, m)
<1>1. ASSUME NEW k \in Fills(u, m)'
      PROVE  /\ k \in Nat \ {0} /\ k + 1 \in Fills(u, m)
             /\ stack'[u][k].tree = stack[u][k + 1].tree
             /\ k # 1 => stack'[u][k].i = stack[u][k + 1].i
  <2>1. k \in DOMAIN stack'[u] /\ NodeAt(stack'[u][k].tree) = m
    BY SameTypes DEF Fills
  <2>2. /\ k \in Nat \ {0} /\ k + 1 \in DOMAIN stack[u]
        /\ stack'[u][k].tree = stack[u][k + 1].tree /\ stack[u][k + 1].pc = "parts"
        /\ k # 1 => stack'[u][k].i = stack[u][k + 1].i
    BY <2>1 DEF Popped
  <2> QED
    BY <2>1, <2>2 DEF Fills
<1>2. ASSUME NEW k \in Fills(u, m), k # 1 PROVE Fills(u, m)' # {}
  <2>1. k \in DOMAIN stack[u] /\ NodeAt(stack[u][k].tree) = m
    BY DEF Fills
  <2>2. PICK j : j = k - 1
    OBVIOUS
  <2>3. k \in Nat /\ j \in DOMAIN stack'[u]
    BY <1>2, <2>1, <2>2 DEF Popped
  <2>4. j \in Nat \ {0} /\ stack'[u][j].tree = stack[u][j + 1].tree /\ stack'[u][j].pc = "parts"
    BY <2>3 DEF Popped
  <2>5. j + 1 = k
    BY <2>2, <2>3
  <2>6. j \in Fills(u, m)'
    BY <2>1, <2>3, <2>4, <2>5, SameTypes DEF Fills
  <2> QED
    BY <2>6
<1>3. ASSUME 1 \notin Fills(u, m), 2 \notin Fills(u, m) PROVE SamePlaces(u, m)
  <2>1. ASSUME NEW k \in Fills(u, m)'
        PROVE  \E j \in Fills(u, m) : /\ stack'[u][k].tree = stack[u][j].tree
                                      /\ stack'[u][k].i = stack[u][j].i
    <3>1. k # 1
      BY <1>1, <1>3
    <3> QED
      BY <1>1, <3>1
  <2> QED
    BY <1>1, <1>2, <1>3, <2>1 DEF SamePlaces
<1> QED
  BY <1>1, <1>2, <1>3

(* The node whose last part was come to is what the tree says.             *)
LEMMA PoppedWhole ==
    ASSUME DetailSound, NEW u \in Image, stack[u] # <<>>, Popped(u),
           types' = types, isSet' = isSet, entered' = entered,
           NEW x, x = Top(u).tree, NEW n, n = NodeAt(x),
           Top(u).pc = "parts", Top(u).i = Len(Parts(x)) + 1,
           children'[n] = children[n], nxt'[n] = nxt[n]
    PROVE  NodeSound(n)'
<1>1. /\ TypesSound(types) /\ StackSound(u) /\ x \in Trees \cup Decls
      /\ 1 \in DOMAIN stack[u] /\ Top(u) = stack[u][1]
  BY StackFacts DEF DetailSound, DetailTypes
<1>2. n \in Nodes /\ n \in isSet /\ x \in TreesOf(n)
  BY <1>1, NodeAtFacts DEF StackSound, FrameSound
<1>3. NodeSound(n) /\ entered[n] \in Nat /\ entered[n] # 0
  BY <1>2 DEF DetailSound, NodeSound
<1>4. 1 \in Fills(u, n)
  BY <1>1 DEF Fills
<1>5. ASSUME entered[n] = 1 PROVE NodeSound(n)'
  <2>1. ASSUME NEW v \in Image PROVE Fills(v, n)' = {}
    <3>1. CASE v = u
      <4>1. ASSUME NEW k \in Fills(u, n)' PROVE FALSE
        <5>1. k \in Nat \ {0} /\ k + 1 \in Fills(u, n)
          BY PoppedPlaces
        <5>2. k + 1 = 1
          BY <5>1, TopAlone
        <5> QED
          BY <5>1, <5>2
      <4> QED
        BY <3>1, <4>1
    <3>2. CASE v # u
      <4>1. Fills(v, n)' = Fills(v, n)
        BY <3>2, FillsKeep DEF Popped, OthersKeep
      <4> QED
        BY <1>3, <1>4, <1>5, <3>2, <4>1 DEF NodeSound
    <3> QED
      BY <3>1, <3>2
  <2>2. SaysOf(x, n)
    <3>1. Built(stack[u][1].tree, n, stack[u][1].i - 1)
      BY <1>3, <1>4, <1>5 DEF NodeSound
    <3>2. Len(Parts(x)) \in Nat
      BY <1>1, PartsFacts, ListFacts DEF PartsSound
    <3>3. stack[u][1].tree = x /\ stack[u][1].i - 1 = Len(Parts(x))
      BY <1>1, <3>2
    <3> QED
      BY <3>1, <3>3 DEF SaysOf
  <2>3. SaysOf(x, n)' /\ x \in TreesOf(n)'
    BY <1>2, <2>2, SaysKeeps, SameTypes
  <2>4. entered'[n] = 1 /\ entered'[n] \in Nat /\ n \in isSet'
    BY <1>2, <1>5
  <2> QED
    BY <2>1, <2>3, <2>4 DEF NodeSound
<1>6. ASSUME entered[n] # 1 PROVE NodeSound(n)'
  <2>1. /\ entered'[n] > 1 /\ entered'[n] # 1 /\ entered'[n] # 0
        /\ entered'[n] \in Nat /\ n \in isSet'
    BY <1>2, <1>3, <1>6
  <2>2. TwoImages(n)'
    BY <1>3, <2>1, SameTypes DEF TwoImages, NodeSound
  <2> QED
    BY <2>1, <2>2 DEF NodeSound
<1> QED
  BY <1>5, <1>6

(* The node below has one part more.                                       *)
LEMMA PoppedPart ==
    ASSUME DetailSound, NEW u \in Image, Popped(u), types' = types, isSet' = isSet,
           entered' = entered, 1 \in DOMAIN stack'[u], 2 \in DOMAIN stack[u],
           NEW y, y = stack[u][2].tree, y \in Trees \cup Decls,
           NEW i, i = stack[u][2].i, i \in DOMAIN Parts(y), stack'[u][1].i = i + 1,
           NEW to, to = NodeAt(y), to \in Nodes, to \in isSet,
           children'[to] = IF Parts(y)[i].role \in {"child", "value"}
                           THEN Append(children[to], RowOf(y, i)) ELSE children[to],
           nxt'[to] = IF Parts(y)[i].role = "next"
                      THEN NodeOf(<<y[1], Parts(y)[i].type>>) ELSE nxt[to]
    PROVE  NodeSound(to)'
<1>1. TypesSound(types) /\ StackSound(u) /\ PartsSound(y, Parts(y))
  BY PartsFacts DEF DetailSound, DetailTypes
<1>2. /\ stack'[u][1].tree = y /\ stack[u][2].pc = "parts" /\ stack'[u][1].pc = "parts"
  BY DEF Popped
<1>3. NodeSound(to) /\ entered[to] \in Nat /\ entered[to] # 0
  BY DEF DetailSound, NodeSound
<1>4. 2 \in Fills(u, to) /\ 1 \in Fills(u, to)'
  BY <1>2, SameTypes DEF Fills
<1>5. ASSUME entered[to] = 1 PROVE NodeSound(to)'
  <2>1. ASSUME NEW v \in Image, Fills(v, to)' # {} PROVE v = u
    <3>1. CASE v = u
      BY <3>1
    <3>2. CASE v # u
      <4>1. Fills(v, to)' = Fills(v, to)
        BY <3>2, FillsKeep DEF Popped, OthersKeep
      <4> QED
        BY <1>3, <1>4, <1>5, <2>1, <4>1 DEF NodeSound
    <3> QED
      BY <3>1, <3>2
  <2>2. ASSUME NEW k \in Fills(u, to)' PROVE k = 1
    <3> SUFFICES ASSUME k # 1 PROVE FALSE
      OBVIOUS
    <3>1. PICK j : j = k + 1
      OBVIOUS
    <3>2. k \in Nat \ {0} /\ j \in Fills(u, to)
      BY <3>1, PoppedPlaces
    <3>3. /\ j \in DOMAIN stack[u] /\ NodeAt(stack[u][j].tree) = to /\ 2 < j
      BY <2>2, <3>1, <3>2 DEF Fills
    <3> QED
      BY <1>1, <1>2, <3>3 DEF StackSound
  <2>3. Built(y, to, i)'
    <3>1. Built(y, to, i - 1)
      BY <1>3, <1>4, <1>5, SMTT(30) DEF NodeSound
    <3> QED
      BY <1>1, <3>1, BuiltStep
  <2>4. \A v \in Image : \A k \in Fills(v, to)' :
           Built(stack[v][k].tree, to, stack[v][k].i - 1)'
    <3> TAKE v \in Image
    <3> TAKE k \in Fills(v, to)'
    <3>1. v = u /\ k = 1
      BY <2>1, <2>2
    <3>2. stack'[v][k].tree = y /\ stack'[v][k].i - 1 = i
      <4>1. i \in Nat
        BY <1>1, ListFacts DEF PartsSound
      <4> QED
        BY <1>2, <3>1, <4>1, SMTT(30)
    <3> QED
      BY <2>3, <3>2, Zenon DEF Built
  <2>5. \A a, b \in Image : Fills(a, to)' # {} /\ Fills(b, to)' # {} => a = b
    BY <2>1
  <2>6. Fills(u, to)' # {}
    BY <1>4
  <2>7. entered'[to] = 1 /\ entered'[to] \in Nat /\ to \in isSet'
    BY <1>5, SMTT(30)
  <2> QED
    BY <2>4, <2>5, <2>6, <2>7 DEF NodeSound
<1>6. ASSUME entered[to] # 1 PROVE NodeSound(to)'
  <2>1. /\ entered'[to] > 1 /\ entered'[to] # 1 /\ entered'[to] # 0
        /\ entered'[to] \in Nat /\ to \in isSet'
    BY <1>3, <1>6
  <2>2. TwoImages(to)'
    BY <1>3, <2>1, SameTypes DEF TwoImages, NodeSound
  <2> QED
    BY <2>1, <2>2 DEF NodeSound
<1> QED
  BY <1>5, <1>6

LEMMA PoppedPaths ==
    ASSUME DetailSound, NEW u \in Image, stack[u] # <<>>, Popped(u),
           types' = types, isSet' = isSet,
           \A d \in Decls : paths'[d] = IF Top(u).pc = "parts" /\ d = Top(u).tree
                                        THEN Paths(d) ELSE paths[d]
    PROVE  PathsKnown'
<1> SUFFICES ASSUME NEW d \in Decls, d \in isSet, Fills(d[1], d)' = {}
             PROVE  paths'[d] = Paths(d)
  BY SameTypes DEF PathsKnown
<1>1. d[1] \in Image /\ TypesSound(types)
  BY PlaceFacts DEF DetailSound, DetailTypes
<1>2. CASE Fills(d[1], d) = {}
  BY <1>2 DEF DetailSound, PathsKnown
<1>3. CASE Fills(d[1], d) # {}
  <2>1. d[1] = u
    BY <1>1, <1>3, FillsKeep DEF Popped, OthersKeep
  <2>2. 1 \in Fills(u, d)
    BY <1>3, <2>1, PoppedPlaces
  <2>3. Top(u) = stack[u][1] /\ Top(u).tree \in Trees \cup Decls /\ Top(u).pc = "parts"
        /\ NodeAt(Top(u).tree) = d
    BY <2>2, StackFacts DEF Fills
  <2>4. Top(u).tree = d
    BY <1>1, <2>3, NodeAtFacts
  <2> QED
    BY <2>3, <2>4
<1> QED
  BY <1>2, <1>3

(* A call returns, be it that nothing was to be done or that it is over.   *)
LEMMA ReturnKeeps ==
    ASSUME DetailSound, NEW u \in Image, stack[u] # <<>>, NEW x, x = Top(u).tree,
           NEW n, n = NodeAt(x), Done(n), Return(u, n),
           types' = types, isSet' = isSet, entered' = entered, variant' = variant,
           Top(u).pc = "look" \/ (Top(u).pc = "parts" /\ Top(u).i = Len(Parts(x)) + 1),
           DOMAIN paths' = Decls,
           \A d \in Decls : paths'[d] = IF Top(u).pc = "parts" /\ d = x
                                        THEN Paths(d) ELSE paths[d]
    PROVE  DetailSound'
<1>1. /\ TypesSound(types) /\ StackSound(u)
      /\ isSet \subseteq Nodes /\ variant \subseteq isSet
      /\ DOMAIN entered = Nodes /\ DOMAIN children = Nodes /\ DOMAIN nxt = Nodes
      /\ DOMAIN paths = Decls /\ DOMAIN stack = Image /\ DOMAIN at = Image
  BY DEF DetailSound, DetailTypes
<1>2. /\ Top(u) = stack[u][1] /\ 1 \in DOMAIN stack[u] /\ x \in Trees \cup Decls
      /\ Len(stack[u]) \in Nat /\ DOMAIN stack[u] = 1..Len(stack[u])
  BY StackFacts
<1>3. \A m : 1 \in Fills(u, m) => Top(u).pc = "parts" /\ m = n
  BY <1>2 DEF Fills
<1>4. CASE Len(stack[u]) = 1
  <2>1. /\ stack' = [stack EXCEPT ![u] = <<>>] /\ at' = [at EXCEPT ![u] = @ + 1]
        /\ children' = children /\ nxt' = nxt
    BY <1>4 DEF Return
  <2>2. Popped(u)
    BY <1>4, <2>1, PoppedLast
  <2>3. PathsKnown'
    BY <2>2, PoppedPaths
  <2>4. PICK M : M = {m \in Nodes : 1 \in Fills(u, m)}
    OBVIOUS
  <2>5. ASSUME NEW m \in Nodes, m \in M PROVE NodeSound(m)'
    <3>1. m = n /\ Top(u).pc = "parts"
      BY <1>3, <2>4, <2>5
    <3> QED
      BY <2>1, <2>2, <3>1, PoppedWhole
  <2>6. ASSUME NEW m \in Nodes, m \notin M PROVE Untouched(u, m)
    <3>1. 1 \notin Fills(u, m) /\ 2 \notin Fills(u, m)
      BY <1>2, <1>4, <2>4, <2>6 DEF Fills
    <3>2. SamePlaces(u, m)
      BY <2>2, <3>1, PoppedPlaces
    <3> QED
      BY <2>1, <3>2 DEF Untouched
  <2>7. TypesKeep
    BY <1>1, <2>1, <2>2 DEF TypesKeep, Popped
  <2>8. \A v \in Image : OvertakenBy(v)'
    BY <2>2, OvertakenKeeps DEF DetailSound, OthersKeep, Popped
  <2> QED
    BY <2>2, <2>3, <2>5, <2>6, <2>7, <2>8, StepKeeps DEF Popped
<1>5. CASE Len(stack[u]) # 1
  <2>1. PICK g, f : g = stack[u][2] /\ f = [stack[u][2] EXCEPT !.i = @ + 1]
    OBVIOUS
  <2>2. PICK y, i, part, to : y = g.tree /\ i = g.i /\ part = Parts(y)[i] /\ to = NodeAt(y)
    OBVIOUS
  <2>3. /\ PopsTo(u, f) /\ at' = at
        /\ nxt' = IF part.role = "next" THEN [nxt EXCEPT ![to] = n] ELSE nxt
        /\ children' = IF part.role = "child"
                       THEN [children EXCEPT ![to] =
                               Append(@, [of |-> y, i |-> i, type |-> n])]
                       ELSE children
    BY <1>5, <2>1, <2>2 DEF Return, PopsTo
  <2>4. /\ Popped(u) /\ 1 \in DOMAIN stack'[u] /\ stack'[u][1] = f
        /\ 2 \in DOMAIN stack[u] /\ g \in FrameType
        /\ f.tree = y /\ f.i = i + 1 /\ i \in DOMAIN Parts(y)
        /\ part.role # "value" /\ x = <<u, part.type>>
        /\ to \in Nodes /\ to \in isSet /\ y \in Trees \cup Decls /\ y[1] = u
    <3>1. f.tree = stack[u][2].tree
      BY <1>5, <2>3, PoppedCall
    <3> QED
      BY <1>5, <2>1, <2>2, <2>3, <3>1, PoppedCall
  <2>5. n = NodeOf(<<y[1], part.type>>)
    <3>1. x \in Trees
      BY <1>1, <2>2, <2>4, PartsFacts, SMTT(30) DEF PartsSound
    <3> QED
      BY <1>1, <2>4, <3>1, NodeAtFacts
  <2>6. NodeSound(to)'
    <3>1. RowOf(y, i) = [of |-> y, i |-> i, type |-> n]
      BY <2>2, <2>4, <2>5 DEF RowOf
    <3>2. children'[to] = IF Parts(y)[i].role \in {"child", "value"}
                          THEN Append(children[to], RowOf(y, i)) ELSE children[to]
      BY <1>1, <2>2, <2>3, <2>4, <3>1
    <3>3. nxt'[to] = IF Parts(y)[i].role = "next"
                     THEN NodeOf(<<y[1], Parts(y)[i].type>>) ELSE nxt[to]
      BY <1>1, <2>2, <2>3, <2>4, <2>5
    <3> QED
      BY <2>1, <2>2, <2>4, <3>2, <3>3, PoppedPart, Zenon
  <2>7. ASSUME NEW m \in Nodes, m # to
        PROVE  children'[m] = children[m] /\ nxt'[m] = nxt[m]
    BY <1>1, <2>3, <2>7
  <2>8. PathsKnown'
    BY <2>4, PoppedPaths
  <2>9. PICK M : M = {m \in Nodes : 1 \in Fills(u, m) \/ m = to}
    OBVIOUS
  <2>10. ASSUME NEW m \in Nodes, m \in M PROVE NodeSound(m)'
    <3>1. CASE m = to
      BY <2>6, <3>1
    <3>2. CASE m # to
      <4>1. m = n /\ Top(u).pc = "parts"
        BY <1>3, <2>9, <2>10, <3>2
      <4>2. children'[n] = children[n] /\ nxt'[n] = nxt[n]
        BY <2>7, <3>2, <4>1
      <4> QED
        BY <2>4, <4>1, <4>2, PoppedWhole
    <3> QED
      BY <3>1, <3>2
  <2>11. ASSUME NEW m \in Nodes, m \notin M PROVE Untouched(u, m)
    <3>1. 1 \notin Fills(u, m) /\ 2 \notin Fills(u, m) /\ m # to
      BY <2>1, <2>2, <2>9, <2>11 DEF Fills
    <3>2. SamePlaces(u, m)
      BY <2>4, <3>1, PoppedPlaces
    <3> QED
      BY <2>7, <3>1, <3>2 DEF Untouched
  <2>12. TypesKeep
    <3>1. DOMAIN children' = Nodes /\ DOMAIN nxt' = Nodes
      BY <1>1, <2>3
    <3> QED
      BY <1>1, <2>4, <3>1 DEF TypesKeep, Popped
  <2>13. \A v \in Image : OvertakenBy(v)'
    BY <2>4, OvertakenKeeps DEF DetailSound, OthersKeep, Popped
  <2> QED
    BY <2>4, <2>8, <2>10, <2>11, <2>12, <2>13, StepKeeps DEF Popped
<1> QED
  BY <1>4, <1>5

LEMMA LookKeeps ==
    ASSUME DetailSound, NEW u \in Image, Look(u)
    PROVE  DetailSound'
<1>1. CASE ~ Done(NodeAt(Top(u).tree))
  BY <1>1, LookGoesOn
<1>2. CASE Done(NodeAt(Top(u).tree))
  <2>1. PICK x, n : x = Top(u).tree /\ n = NodeAt(x)
    OBVIOUS
  <2>2. /\ stack[u] # <<>> /\ Top(u).pc = "look" /\ Return(u, n)
        /\ types' = types /\ isSet' = isSet /\ entered' = entered
        /\ variant' = variant /\ paths' = paths
    BY <1>2, <2>1 DEF Look
  <2>3. DOMAIN paths' = Decls
    BY <2>2 DEF DetailSound, DetailTypes
  <2>4. \A d \in Decls : paths'[d] = IF Top(u).pc = "parts" /\ d = x
                                     THEN Paths(d) ELSE paths[d]
    BY <2>2
  <2> QED
    BY <1>2, <2>1, <2>2, <2>3, <2>4, ReturnKeeps
<1> QED
  BY <1>1, <1>2

LEMMA EndPartsKeeps ==
    ASSUME DetailSound, NEW u \in Image, EndParts(u)
    PROVE  DetailSound'
<1>1. PICK x, n : x = Top(u).tree /\ n = NodeAt(x)
  OBVIOUS
<1>2. /\ stack[u] # <<>> /\ Top(u).pc = "parts" /\ Top(u).i \notin DOMAIN Parts(x)
      /\ types' = types /\ isSet' = isSet /\ entered' = entered /\ variant' = variant
  BY <1>1 DEF EndParts
<1>3. /\ TypesSound(types) /\ StackSound(u) /\ DOMAIN paths = Decls
      /\ Top(u) = stack[u][1] /\ 1 \in DOMAIN stack[u]
      /\ x \in Trees \cup Decls /\ Top(u) \in FrameType
  BY <1>1, <1>2, StackFacts DEF DetailSound, DetailTypes
<1>4. FrameSound(u, Top(u)) /\ Top(u).i \in Nat \ {0}
  BY <1>3 DEF StackSound, FrameType
<1>5. Top(u).i = Len(Parts(x)) + 1
  <2>1. Len(Parts(x)) \in Nat /\ DOMAIN Parts(x) = 1..Len(Parts(x))
    BY <1>3, PartsFacts, ListFacts DEF PartsSound
  <2>2. Top(u).i <= Len(Parts(x)) + 1
    BY <1>1, <1>4, SMTT(30) DEF FrameSound
  <2>3. PICK a, b \in Nat : a = Top(u).i /\ b = Len(Parts(x)) /\ a # 0
    BY <1>4, <2>1
  <2>4. a <= b + 1 /\ a \notin 1..b
    BY <1>2, <2>1, <2>2, <2>3
  <2>5. a = b + 1
    BY <2>3, <2>4
  <2> QED
    BY <2>3, <2>5
<1>6. Done(n)
  BY <1>1, <1>2, <1>4 DEF FrameSound, Done
<1>7. Return(u, n)
  <2>1. CASE IsDecl(x)
    BY <1>1, <2>1 DEF EndParts, NodeAt
  <2>2. CASE ~ IsDecl(x)
    BY <1>1, <2>2 DEF EndParts, NodeAt
  <2> QED
    BY <2>1, <2>2
<1>8. /\ DOMAIN paths' = Decls
      /\ \A d \in Decls : paths'[d] = IF d = x THEN Paths(d) ELSE paths[d]
  <2>1. CASE IsDecl(x)
    <3>1. paths' = [paths EXCEPT ![x] = Paths(x)] /\ x \in Decls
      BY <1>1, <1>3, <2>1, PlaceFacts DEF EndParts
    <3> QED
      BY <1>3, <3>1
  <2>2. CASE ~ IsDecl(x)
    <3>1. paths' = paths /\ x \notin Decls
      BY <1>1, <1>3, <2>2, PlaceFacts DEF EndParts
    <3> QED
      BY <1>3, <3>1
  <2> QED
    BY <2>1, <2>2
<1> QED
  BY <1>1, <1>2, <1>5, <1>6, <1>7, <1>8, ReturnKeeps

LEMMA DetailStepKeeps ==
    ASSUME DetailSound, NEW u \in Image, DetailStep(u)
    PROVE  DetailSound'
BY NextObjectKeeps, LookKeeps, SetKeeps, NextPartKeeps, EndPartsKeeps DEF DetailStep

LEMMA DetailStutters ==
    ASSUME DetailSound, UNCHANGED detailVars
    PROVE  DetailSound'
<1>1. /\ types' = types /\ stack' = stack /\ at' = at /\ isSet' = isSet
      /\ entered' = entered /\ children' = children /\ nxt' = nxt
      /\ variant' = variant /\ paths' = paths
  BY DEF detailVars
<1>2. DetailTypes'
  <2>1. TypesSound(types)'
    BY <1>1 DEF DetailSound, DetailTypes, TypesSound, TreeSound, DeclSound
  <2> QED
    BY <1>1, <2>1, SameTypes DEF DetailSound, DetailTypes
<1>3. \A v \in Image : StackSound(v)' /\ OvertakenBy(v)' /\ Passed(v)'
  BY <1>1, StackKeeps, OvertakenKeeps, PassedKeeps DEF DetailSound
<1>4. ASSUME NEW m \in Nodes PROVE NodeSound(m)'
  <2>1. \A v \in Image : Fills(v, m)' = Fills(v, m)
    BY <1>1, FillsKeep
  <2>2. NodeSound(m)
    BY DEF DetailSound
  <2>3. \A v \in Image : \A k \in Fills(v, m)' : \E j \in Fills(v, m) :
           stack'[v][k].tree = stack[v][j].tree /\ stack'[v][k].i = stack[v][j].i
    BY <1>1, <2>1
  <2> QED
    BY <1>1, <2>1, <2>2, <2>3, NodeKeeps
<1>5. PathsKnown'
  <2> SUFFICES ASSUME NEW d \in Decls, d \in isSet, Fills(d[1], d)' = {}
               PROVE  paths[d] = Paths(d)
    BY <1>1, SameTypes DEF PathsKnown
  <2>1. d[1] \in Image
    BY PlaceFacts DEF DetailSound, DetailTypes
  <2>2. Fills(d[1], d) = {}
    BY <1>1, <2>1, FillsKeep
  <2> QED
    BY <2>2 DEF DetailSound, PathsKnown
<1>6. Nodes' = Nodes
  BY <1>1, SameTypes
<1> QED
  BY <1>2, <1>3, <1>4, <1>5, <1>6 DEF DetailSound

LEMMA DetailStarts ==
    ASSUME Init
    PROVE  DetailInv
<1>1. /\ TypesSound(types) /\ phase = 3 /\ stack = [u \in Image |-> <<>>]
      /\ at = [u \in Image |-> 1] /\ isSet = {} /\ variant = {}
      /\ entered = [n \in Nodes |-> 0] /\ children = [n \in Nodes |-> <<>>]
      /\ nxt = [n \in Nodes |-> None] /\ paths = [d \in Decls |-> <<>>]
  BY ProgramAssumption DEF Init, InitDetail
<1>2. ASSUME NEW u \in Image
      PROVE  StackSound(u) /\ OvertakenBy(u) /\ Passed(u) /\ \A n : Fills(u, n) = {}
  <2>1. stack[u] = <<>> /\ DOMAIN <<>> = {} /\ <<>> \in Seq(FrameType) /\ at[u] = 1
    BY <1>1, NoneIsList
  <2>2. Len(Objects(u)) \in Nat /\ DOMAIN Objects(u) = 1..Len(Objects(u))
    BY <1>1, ObjectFacts
  <2>3. StackSound(u)
    <3>1. 1 \in 1..(Len(Objects(u)) + 1)
      BY <2>2
    <3> QED
      BY <2>1, <3>1 DEF StackSound
  <2>4. Passed(u)
    BY <2>1, <2>2 DEF Passed
  <2> QED
    BY <2>1, <2>3, <2>4 DEF OvertakenBy, Fills
<1>3. \A n \in Nodes : NodeSound(n)
  BY <1>1 DEF NodeSound
<1>4. DetailSound
  BY <1>1, <1>2, <1>3 DEF DetailSound, DetailTypes, PathsKnown
<1> QED
  BY <1>1, <1>4 DEF DetailInv

LEMMA DetailNext ==
    ASSUME DetailInv, [Next]_vars
    PROVE  DetailInv'
<1>1. DetailSound /\ phase \in 3..8 /\ (phase > 3 => AllDetailed)
  BY DEF DetailInv
<1>2. ASSUME NEW u \in Image, Step3(u) PROVE DetailInv'
  <2>1. DetailSound' /\ phase' = 3
    BY <1>1, <1>2, DetailStepKeeps DEF Step3
  <2> QED
    BY <2>1 DEF DetailInv
<1>3. ASSUME UNCHANGED detailVars, phase' \in 3..8, phase' > 3 => AllDetailed
      PROVE  DetailInv'
  <2>1. DetailSound'
    BY <1>1, <1>3, DetailStutters
  <2>2. AllDetailed => AllDetailed'
    <3>1. types' = types /\ stack' = stack /\ at' = at
      BY <1>3 DEF detailVars
    <3> QED
      BY <3>1, SameTypes DEF AllDetailed, DetailDone
  <2> QED
    BY <1>3, <2>1, <2>2 DEF DetailInv
<1>4. CASE \E u \in Image : MarkField(u) \/ Step456(u)
  BY <1>1, <1>3, <1>4 DEF MarkField, Step456
<1>5. CASE NextStep
  <2>1. UNCHANGED detailVars /\ phase' = phase + 1 /\ phase \in 3..6 /\ AllDetailed
    BY <1>5 DEF NextStep, StepDone
  <2> QED
    BY <1>3, <2>1
<1>6. CASE MarkEntry
  BY <1>1, <1>3, <1>6 DEF MarkEntry
<1>7. CASE MarksOver
  <2>1. UNCHANGED detailVars /\ phase' = 8 /\ phase = 7
    BY <1>7 DEF MarksOver
  <2> QED
    BY <1>1, <1>3, <2>1
<1>8. CASE UNCHANGED vars
  BY <1>1, <1>3, <1>8 DEF vars
<1> QED
  BY <1>2, <1>4, <1>5, <1>6, <1>7, <1>8 DEF Next, Main, Worker

(* The invariant of STEP3: how the workers' calls, the nodes they fill in  *)
(* and what other images' workers did before belong together.              *)
THEOREM DetailInvariant == Spec => []DetailInv
<1>1. Init => DetailInv
  BY DetailStarts
<1>2. DetailInv /\ [Next]_vars => DetailInv'
  BY DetailNext
<1> QED
  BY <1>1, <1>2, PTL DEF Spec

LEMMA DetailGivesNever ==
    ASSUME DetailInv
    PROVE  NeverInItself
<1> SUFFICES ASSUME NEW u \in Image, NEW i \in DOMAIN stack[u], NEW j \in DOMAIN stack[u],
                    i < j, stack[u][i].pc # "look", stack[u][j].pc # "look",
                    ~ IsDecl(stack[u][j].tree)
             PROVE  NodeOf(stack[u][i].tree) # NodeOf(stack[u][j].tree)
  BY DEF NeverInItself
<1>1. DetailSound /\ StackSound(u) /\ TypesSound(types)
  BY DEF DetailInv, DetailSound, DetailTypes
<1>2. NodeAt(stack[u][i].tree) # NodeAt(stack[u][j].tree)
  BY <1>1 DEF StackSound
<1>3. ~ IsDecl(stack[u][i].tree)
  <2>1. PICK n \in Nat : DOMAIN stack[u] = 1..n
    BY <1>1, StackFacts
  <2>2. PICK k \in DOMAIN stack[u] : k = i + 1 /\ k # 1 /\ k - 1 = i
    BY <2>1
  <2>3. stack[u][i].tree \in Trees
    BY <1>1, <2>2, StackFacts
  <2> QED
    BY <1>1, <2>3, PlaceFacts
<1> QED
  BY <1>2, <1>3 DEF NodeAt

(* Whatever types refer to each other, a worker does not come to fill in a *)
(* node again that it is filling in already: __get_type_detail sets is_set *)
(* before it looks at what the type is made of.                            *)
THEOREM NoTypeInItself == Spec => []NeverInItself
BY DetailInvariant, DetailGivesNever, PTL

(* What is left of the workers' state when STEP3 is over.                  *)
LEMMA AllPassed ==
    ASSUME DetailInv, AllDetailed, NEW n \in Nodes
    PROVE  /\ \A v \in Image : Fills(v, n) = {}
           /\ n \in isSet \/ (IsDecl(n) /\ ~ Decl(n).body)
<1>1. DetailSound /\ TypesSound(types)
  BY DEF DetailInv, DetailSound, DetailTypes
<1>2. \A v \in Image : Fills(v, n) = {}
  BY NoneIsList DEF AllDetailed, DetailDone, Fills
<1>3. PICK u : u = n[1]
  OBVIOUS
<1>4. u \in Image
  BY <1>1, <1>3, PlaceFacts DEF Nodes
<1>5. PICK k \in DOMAIN Objects(u) : n = <<u, Objects(u)[k]>>
  BY <1>1, <1>3, <1>4, ObjectFacts
<1>6. k < at[u]
  <2>1. PICK m \in Nat : m = Len(Objects(u)) /\ DOMAIN Objects(u) = 1..m
    BY <1>1, <1>4, ObjectFacts
  <2>2. at[u] \in 1..(m + 1) /\ at[u] \notin 1..m
    BY <1>1, <1>4, <2>1 DEF DetailSound, StackSound, AllDetailed, DetailDone
  <2> QED
    BY <1>5, <2>1, <2>2
<1>7. n \in isSet \/ (IsDecl(n) /\ ~ Decl(n).body)
  BY <1>1, <1>4, <1>5, <1>6 DEF DetailSound, Passed
<1> QED
  BY <1>2, <1>7

LEMMA DetailGivesWhole ==
    ASSUME DetailInv
    PROVE  TypesWhole
<1> SUFFICES ASSUME AllDetailed, NEW n \in Nodes
             PROVE  /\ entered[n] = 0 => IsDecl(n) /\ ~ Decl(n).body
                    /\ entered[n] = 1 => \E x \in TreesOf(n) : SaysOf(x, n)
                    /\ entered[n] > 1 => \E x, y \in TreesOf(n) : x[1] # y[1]
  BY DEF TypesWhole
<1>1. NodeSound(n)
  BY DEF DetailInv, DetailSound
<1>2. /\ \A v \in Image : Fills(v, n) = {}
      /\ n \in isSet \/ (IsDecl(n) /\ ~ Decl(n).body)
  BY AllPassed
<1> QED
  BY <1>1, <1>2 DEF NodeSound, TwoImages

(* When STEP3 is over every type is filled in, once unless two images have *)
(* a tree of it, and one that was filled in once is, part for part, what a *)
(* tree says: though is_set is checked and set with no lock held, and what *)
(* one worker has begun others take for done.                              *)
THEOREM AllTypesWhole == Spec => []TypesWhole
BY DetailInvariant, DetailGivesWhole, PTL

(***************************************************************************)
(* Code paths                                                              *)
(***************************************************************************)
LEMMA PathsWhole ==
    ASSUME DetailInv, NEW d \in Decls, phase > 3, Decl(d).body
    PROVE  paths[d] = Paths(d) /\ DeclSound(types, d[1], Decl(d))
<1>1. AllDetailed /\ d \in Nodes /\ DetailSound /\ TypesSound(types)
  BY DEF DetailInv, DetailSound, DetailTypes, Nodes
<1>2. d[1] \in Image /\ d[2] - Len(types.tree[d[1]]) \in DOMAIN types.decl[d[1]]
  BY <1>1, PlaceFacts
<1>3. Fills(d[1], d) = {} /\ d \in isSet
  BY <1>1, <1>2, AllPassed
<1> QED
  BY <1>1, <1>2, <1>3 DEF DetailSound, PathsKnown, TypesSound, Decl

LEMMA ResIsDest ==
    ASSUME NEW g, CfgSound(g), NEW b \in DOMAIN g.blocks,
           NEW e \in Range(g.blocks[b].succs)
    PROVE  Res(g, e) \in DOMAIN g.blocks /\ e \in Range(g.blocks[Res(g, e)].preds)
<1>1. Cardinality(Dests(g, e)) = 1
  BY DEF CfgSound
<1>2. Dests(g, e) # {}
  BY <1>1, FS_EmptySet
<1>3. Res(g, e) \in Dests(g, e)
  BY <1>2, SMTT(30) DEF Res
<1> QED
  BY <1>3 DEF Dests

LEMMA BranchesAreRight ==
    ASSUME NEW g, CfgSound(g)
    PROVE  BranchesRight(g, get_function_detail(g))
<1> SUFFICES ASSUME NEW n \in DOMAIN g.blocks
             PROVE  LET e == g.blocks[n].succs
                        path == get_function_detail(g)
                    IN IF g.blocks[n].cond
                       THEN \A i \in DOMAIN e :
                              e[i] \in Range(g.blocks[path[n][g.flag[e[i]]]].preds)
                       ELSE \A i \in DOMAIN e : e[i] \in Range(g.blocks[path[n][i]].preds)
  BY Zenon DEF BranchesRight
<1>1. PICK e, p : e = g.blocks[n].succs /\ p = get_function_detail(g)[n]
  OBVIOUS
<1>2. p = NextPaths(g, n)
  BY <1>1 DEF get_function_detail
<1>3. ASSUME NEW i \in DOMAIN e
      PROVE  e[i] \in Range(g.blocks[Res(g, e[i])].preds)
  <2>1. e[i] \in Range(g.blocks[n].succs)
    BY <1>1, SMTT(30) DEF Range
  <2> QED
    BY <2>1, ResIsDest
<1>4. CASE g.blocks[n].cond
  <2>1. IsList(e) /\ Len(e) = 2
    BY <1>1, <1>4 DEF CfgSound
  <2>2. DOMAIN e = 1..2
    BY <2>1, ListFacts
  <2>3. \/ g.flag[e[1]] = "true" /\ g.flag[e[2]] = "false"
        \/ g.flag[e[1]] = "false" /\ g.flag[e[2]] = "true"
    BY <1>1, <1>4 DEF CfgSound
  <2>4. \A i \in 1..2 : p[g.flag[e[i]]] = Res(g, e[i])
    <3>1. \A i \in 1..2 : i = 1 \/ i = 2
      OBVIOUS
    <3>2. CASE g.flag[e[1]] = "true" /\ g.flag[e[2]] = "false"
      <4>1. p = [true |-> Res(g, e[1]), false |-> Res(g, e[2])]
        BY <1>1, <1>2, <1>4, <3>2 DEF NextPaths
      <4> QED
        BY <3>1, <3>2, <4>1
    <3>3. CASE g.flag[e[1]] = "false" /\ g.flag[e[2]] = "true"
      <4>1. p = [true |-> Res(g, e[2]), false |-> Res(g, e[1])]
        BY <1>1, <1>2, <1>4, <3>3, SMTT(30) DEF NextPaths
      <4> QED
        BY <3>1, <3>3, <4>1
    <3> QED
      BY <2>3, <3>2, <3>3
  <2> QED
    BY <1>1, <1>3, <1>4, <2>2, <2>4, Zenon
<1>5. CASE ~ g.blocks[n].cond
  <2>1. p = [i \in DOMAIN e |-> Res(g, e[i])]
    BY <1>1, <1>2, <1>5 DEF NextPaths
  <2> QED
    BY <1>1, <1>3, <1>5, <2>1
<1> QED
  BY <1>4, <1>5, ZenonT(60)

(* Lengths(code) adds an instruction's length to where it starts.          *)
LengthAt(code, i) == IF i \in DOMAIN code THEN code[i].len ELSE 1
Lengths(code) == [p \in Nat \X Nat |-> p[2] + LengthAt(code, p[1] + 1)]

LEMMA StartIs ==
    ASSUME NEW code, CodeSound(code), NEW F \in [Nat -> Nat], F[0] = 0,
           \A n \in Nat : F[n + 1] = F[n] + LengthAt(code, n + 1),
           NEW n \in 1..(Len(code) + 1)
    PROVE  Start(code, n) = F[n - 1]
<1> DEFINE Step(f, k) == IF k = 1 THEN 0 ELSE f[k - 1] + code[k - 1].len
           G == [k \in 1..n |-> F[k - 1]]
           U == CHOOSE f : f = [k \in 1..n |-> Step(f, k)]
<1>00. PICK L \in Nat : L = Len(code)
  BY DEF CodeSound
<1>0. /\ Len(code) \in Nat /\ DOMAIN code = 1..Len(code) /\ DOMAIN code = 1..L
      /\ n \in Nat /\ n \in 1..(L + 1) /\ 1 \in 1..n
  BY <1>00 DEF CodeSound
<1>1. ASSUME NEW k \in 1..n PROVE G[k] = Step(G, k)
  <2>1. CASE k = 1
    BY <2>1
  <2>2. CASE k # 1
    <3>1. k - 1 \in 1..n /\ k - 1 \in DOMAIN code
      BY <1>0, <2>2
    <3>2. PICK m \in Nat : m = k - 2 /\ m + 1 = k - 1
      BY <1>0, <2>2
    <3>3. F[m + 1] = F[m] + LengthAt(code, m + 1)
      OBVIOUS
    <3>4. G[k] = F[m + 1] /\ G[k - 1] = F[m]
      BY <3>1, <3>2
    <3> QED
      BY <2>2, <3>1, <3>2, <3>3, <3>4 DEF LengthAt
  <2> QED
    BY <2>1, <2>2
<1>2. G = [k \in 1..n |-> Step(G, k)]
  BY <1>1
<1>3. U = [k \in 1..n |-> Step(U, k)]
  <2> HIDE DEF G, Step
  <2> QED
    BY <1>2
<1>4. Start(code, n) = U[n]
  BY DEF Start
<1> DEFINE T == {i \in Nat : i + 1 <= n => U[i + 1] = F[i]}
<1> HIDE DEF U, G
<1>5. \A k \in 1..n : U[k] = Step(U, k)
  BY <1>3
<1>6. 0 \in T
  <2>1. U[1] = 0
    BY <1>0, <1>5
  <2>2. 0 + 1 = 1
    OBVIOUS
  <2> QED
    BY <2>1, <2>2
<1>7. ASSUME NEW i \in Nat, i \in T PROVE i + 1 \in T
  <2> SUFFICES ASSUME (i + 1) + 1 <= n PROVE U[(i + 1) + 1] = F[i + 1]
    OBVIOUS
  <2>1. PICK k : k = (i + 1) + 1
    OBVIOUS
  <2>6. k \in 1..n /\ k # 1 /\ k - 1 = i + 1 /\ i + 1 <= n
    BY <1>0, <2>1
  <2>7. i + 1 \in 1..L
    BY <1>0
  <2>2. k \in 1..n /\ k # 1 /\ k - 1 = i + 1 /\ i + 1 <= n /\ i + 1 \in DOMAIN code
    BY <1>0, <2>6, <2>7
  <2>3. U[i + 1] = F[i]
    BY <1>7, <2>2
  <2>4. U[k] = U[k - 1] + code[k - 1].len
    BY <1>5, <2>2
  <2>5. F[i + 1] = F[i] + code[i + 1].len
    BY <2>2 DEF LengthAt
  <2> QED
    BY <2>1, <2>2, <2>3, <2>4, <2>5
<1>8. \A i \in Nat : i \in T
  <2> HIDE DEF T
  <2> QED
    BY <1>6, <1>7, AllNumbers
<1>9. PICK m \in Nat : m = n - 1 /\ m + 1 = n
  BY <1>0
<1>10. U[m + 1] = F[m]
  <2>1. m \in T
    <3> HIDE DEF T
    <3> QED
      BY <1>8
  <2>2. m + 1 <= n
    BY <1>0, <1>9
  <2> QED
    BY <2>1, <2>2
<1> QED
  BY <1>4, <1>9, <1>10

(* Each instruction starts behind the one before it.                       *)
LEMMA StartFacts ==
    ASSUME NEW code, CodeSound(code)
    PROVE  /\ Len(code) \in Nat /\ DOMAIN code = 1..Len(code)
           /\ Start(code, 1) = 0 /\ Size(code) \in Nat
           /\ \A i \in 1..(Len(code) + 1) : Start(code, i) \in Nat
           /\ \A i, j \in 1..(Len(code) + 1) : i < j => Start(code, i) < Start(code, j)
<1>0. Len(code) \in Nat /\ DOMAIN code = 1..Len(code)
      /\ \A i \in DOMAIN code : code[i].len \in Nat \ {0}
  <2>1. PICK S : S = [len : Nat \ {0}, jump : BOOLEAN, opcs : {1, 2},
                     nbytes : {1, 2, 4}, disp : Int, byte : Int]
    OBVIOUS
  <2>3. code \in Seq(S)
    BY <2>1 DEF CodeSound
  <2>2. Len(code) \in Nat /\ DOMAIN code = 1..Len(code) /\ \A i \in DOMAIN code : code[i] \in S
    BY <2>3
  <2> QED
    BY <2>1, <2>2
<1>1. \A i : LengthAt(code, i) \in Nat \ {0}
  BY <1>0 DEF LengthAt
<1>2. PICK F \in [Nat -> Nat] :
         F[0] = 0 /\ \A n \in Nat : F[n + 1] = F[n] + LengthAt(code, n + 1)
  <2>1. PICK st, V, a : st = Lengths(code) /\ V = Nat /\ a = 0
    OBVIOUS
  <2>2. a \in V /\ IsStep(st, V)
    BY <1>1, <2>1 DEF IsStep, Lengths
  <2>3. PICK F : Sequel(F, V, a, st)
    BY <2>2, Recursion, Zenon
  <2>4. F \in [Nat -> Nat] /\ F[0] = 0
    BY <2>1, <2>3 DEF Sequel
  <2>5. ASSUME NEW n \in Nat PROVE F[n + 1] = F[n] + LengthAt(code, n + 1)
    <3>1. F[n + 1] = Lengths(code)[<<n, F[n]>>]
      BY <2>1, <2>3 DEF Sequel
    <3> QED
      BY <2>4, <3>1 DEF Lengths
  <2> QED
    BY <2>4, <2>5
<1>3. \A i \in 1..(Len(code) + 1) : Start(code, i) = F[i - 1]
  BY <1>2, StartIs
<1>4. \A i \in Nat : F[i] < F[i + 1]
  <2> TAKE i \in Nat
  <2>1. F[i] \in Nat /\ F[i + 1] = F[i] + LengthAt(code, i + 1)
        /\ LengthAt(code, i + 1) \in Nat \ {0}
    BY <1>1, <1>2
  <2> QED
    BY <2>1
<1>5. ASSUME NEW i \in Nat PROVE \A j \in Nat : F[i] < F[(i + j) + 1]
  <2> DEFINE T == {j \in Nat : F[i] < F[(i + j) + 1]}
  <2>1. 0 \in T
    BY <1>4
  <2>2. ASSUME NEW j \in Nat, j \in T PROVE j + 1 \in T
    <3>1. PICK k \in Nat : k = (i + j) + 1
      OBVIOUS
    <3>2. F[i] < F[k] /\ F[k] < F[k + 1] /\ F[i] \in Nat /\ F[k] \in Nat /\ F[k + 1] \in Nat
      BY <1>4, <2>2, <3>1
    <3>3. (i + (j + 1)) + 1 = k + 1
      BY <3>1
    <3> QED
      BY <3>2, <3>3
  <2>3. \A j \in Nat : j \in T
    <3> HIDE DEF T
    <3> QED
      BY <2>1, <2>2, AllNumbers
  <2> QED
    BY <2>3
<1>6. ASSUME NEW i \in 1..(Len(code) + 1), NEW j \in 1..(Len(code) + 1), i < j
      PROVE Start(code, i) < Start(code, j)
  <2>1. PICK a \in Nat, b \in Nat : a = i - 1 /\ b = (j - i) - 1 /\ j - 1 = (a + b) + 1
    BY <1>0, <1>6
  <2>2. F[a] < F[(a + b) + 1]
    BY <1>5
  <2> QED
    BY <1>3, <2>1, <2>2
<1>7. \A i \in 1..(Len(code) + 1) : Start(code, i) \in Nat
  BY <1>0, <1>2, <1>3
<1>8. 1 \in 1..(Len(code) + 1) /\ Len(code) + 1 \in 1..(Len(code) + 1)
  BY <1>0
<1>9. Start(code, 1) = 0
  BY <1>2, <1>3, <1>8
<1> QED
  BY <1>0, <1>6, <1>7, <1>8, <1>9 DEF Size

Rising(r) == r \in Seq(Nat) /\ \A j, k \in 1..Len(r) : j < k => r[j] < r[k]
Within(r, q) == \A k \in 1..Len(r) : \E l \in 1..Len(q) : q[l] = r[k]

(* Rising lists that have the same numbers are the same.                   *)
LEMMA SamePlace ==
    ASSUME NEW r, NEW q, Rising(r), Rising(q), Within(r, q), Within(q, r),
           NEW k \in 1..Len(r), \A i \in 1..(k - 1) : i <= Len(q) /\ r[i] = q[i]
    PROVE  k <= Len(q) /\ r[k] = q[k]
<1>1. PICK m, n \in Nat : m = Len(r) /\ n = Len(q)
  BY DEF Rising
<1>2. /\ \A i \in 1..m : r[i] \in Nat
      /\ \A i \in 1..n : q[i] \in Nat
      /\ \A i, j \in 1..m : i < j => r[i] < r[j]
      /\ \A i, j \in 1..n : i < j => q[i] < q[j]
      /\ k \in 1..m /\ \A i \in 1..(k - 1) : i <= n /\ r[i] = q[i]
  <2>1. r \in Seq(Nat) /\ q \in Seq(Nat)
    BY DEF Rising
  <2>2. (\A i \in 1..m : r[i] \in Nat) /\ (\A i \in 1..n : q[i] \in Nat)
    BY <1>1, <2>1
  <2>3. /\ \A i, j \in 1..m : i < j => r[i] < r[j]
        /\ \A i, j \in 1..n : i < j => q[i] < q[j]
    BY <1>1 DEF Rising
  <2>4. k \in 1..m /\ \A i \in 1..(k - 1) : i <= n /\ r[i] = q[i]
    BY <1>1
  <2> QED
    BY <2>2, <2>3, <2>4
<1>3. PICK l \in 1..n : q[l] = r[k]
  BY <1>1, <1>2 DEF Within
<1>4. k <= l
  <2> SUFFICES ASSUME l < k PROVE FALSE
    BY <1>2
  <2>1. l \in 1..(k - 1) /\ l \in 1..m
    BY <1>2
  <2>2. r[l] = q[l] /\ r[l] < r[k] /\ r[l] \in Nat
    BY <1>2, <2>1
  <2> QED
    BY <1>3, <2>2
<1>5. k \in 1..n
  BY <1>2, <1>4
<1>6. PICK j \in 1..m : r[j] = q[k]
  BY <1>1, <1>5 DEF Within
<1>7. k <= j
  <2> SUFFICES ASSUME j < k PROVE FALSE
    BY <1>2
  <2>1. j \in 1..(k - 1) /\ j \in 1..n
    BY <1>2, <1>5
  <2>2. r[j] = q[j] /\ q[j] < q[k] /\ q[j] \in Nat
    BY <1>2, <1>5, <2>1
  <2> QED
    BY <1>6, <2>2
<1>8. PICK a, b \in Nat : a = r[k] /\ b = q[k]
  BY <1>2, <1>5
<1>9. a <= b
  <2>1. CASE k = j
    BY <1>6, <1>8, <2>1
  <2>2. CASE k < j
    BY <1>2, <1>6, <1>8, <2>2
  <2> QED
    BY <1>2, <1>7, <2>1, <2>2
<1>10. b <= a
  <2>1. CASE k = l
    BY <1>3, <1>8, <2>1
  <2>2. CASE k < l
    BY <1>2, <1>3, <1>5, <1>8, <2>2
  <2> QED
    BY <1>2, <1>4, <2>1, <2>2
<1>11. a = b
  BY <1>9, <1>10
<1> QED
  BY <1>1, <1>5, <1>8, <1>11

LEMMA SameList ==
    ASSUME NEW r, NEW q, Rising(r), Rising(q), Within(r, q), Within(q, r)
    PROVE  Len(r) = Len(q) /\ \A k \in 1..Len(r) : r[k] = q[k]
<1>1. PICK m, n \in Nat : m = Len(r) /\ n = Len(q)
  BY DEF Rising
<1> DEFINE T == {k \in Nat : \A i \in 1..k : i <= m \/ i <= n => i <= m /\ i <= n /\ r[i] = q[i]}
<1>2. 0 \in T
  OBVIOUS
<1>3. ASSUME NEW k \in Nat, k \in T PROVE k + 1 \in T
  <2>1. PICK l \in Nat : l = k + 1 /\ l - 1 = k /\ l # 0
    OBVIOUS
  <2>2. \A i \in 1..(l - 1) : i <= m \/ i <= n => i <= m /\ i <= n /\ r[i] = q[i]
    BY <1>3, <2>1
  <2>3. CASE l <= m
    <3>1. l \in 1..Len(r) /\ \A i \in 1..(l - 1) : i <= Len(q) /\ r[i] = q[i]
      BY <1>1, <2>1, <2>2, <2>3
    <3>2. l <= n /\ r[l] = q[l]
      BY <1>1, <3>1, SamePlace
    <3> QED
      BY <2>1, <2>2, <2>3, <3>2
  <2>4. CASE l <= n
    <3>1. l \in 1..Len(q) /\ \A i \in 1..(l - 1) : i <= Len(r) /\ q[i] = r[i]
      BY <1>1, <2>1, <2>2, <2>4
    <3>2. l <= m /\ q[l] = r[l]
      BY <1>1, <3>1, SamePlace
    <3> QED
      BY <2>1, <2>2, <2>4, <3>2
  <2>5. CASE ~ (l <= m) /\ ~ (l <= n)
    BY <2>1, <2>2, <2>5
  <2> QED
    BY <2>3, <2>4, <2>5
<1>4. m \in T /\ n \in T
  <2>1. \A k \in Nat : k \in T
    <3> HIDE DEF T
    <3> QED
      BY <1>2, <1>3, AllNumbers
  <2> HIDE DEF T
  <2> QED
    BY <2>1
<1>5. \A i \in 1..m : i <= n /\ r[i] = q[i]
  BY <1>4
<1>6. \A i \in 1..n : i <= m
  BY <1>4
<1>7. m <= n /\ n <= m
  <2>1. m = 0 \/ m \in 1..m
    OBVIOUS
  <2>2. n = 0 \/ n \in 1..n
    OBVIOUS
  <2> QED
    BY <1>5, <1>6, <2>1, <2>2
<1> QED
  BY <1>1, <1>5, <1>7

(* The instruction that the stretch of code from a to t ends with.         *)
Ends(code, a, t, i) == Start(code, i) \in a..(t - 1) /\ Start(code, i + 1) >= t

LEMMA LastIs ==
    ASSUME NEW code, CodeSound(code), NEW a \in Nat, NEW c \in DOMAIN code,
           a <= Start(code, c)
    PROVE  /\ Ends(code, a, Start(code, c + 1), c)
           /\ \A i \in DOMAIN code : Ends(code, a, Start(code, c + 1), i) => i = c
<1>1. PICK L \in Nat : L = Len(code) /\ DOMAIN code = 1..L
  BY StartFacts
<1>2. /\ \A i \in 1..(L + 1) : Start(code, i) \in Nat
      /\ \A i, j \in 1..(L + 1) : i < j => Start(code, i) < Start(code, j)
  BY <1>1, StartFacts
<1>3. \A i \in 1..L : i \in 1..(L + 1) /\ i + 1 \in 1..(L + 1) /\ i < i + 1
  OBVIOUS
<1>4. c \in 1..L
  BY <1>1
<1> DEFINE Q(i) == /\ Start(code, i) \in a..(Start(code, c + 1) - 1)
                   /\ Start(code, i + 1) >= Start(code, c + 1)
<1>0. \A i : Q(i) <=> Ends(code, a, Start(code, c + 1), i)
  BY DEF Ends
<1>5. Q(c)
  <2>1. PICK s, t \in Nat : s = Start(code, c) /\ t = Start(code, c + 1)
    BY <1>2, <1>3, <1>4
  <2>2. a <= s /\ s < t
    BY <1>2, <1>3, <1>4, <2>1
  <2>3. s \in a..(t - 1) /\ t >= t
    BY <2>2
  <2> QED
    BY <2>1, <2>3
<1>6. ASSUME NEW i \in DOMAIN code, Q(i) PROVE i = c
  <2>1. i \in 1..L
    BY <1>1
  <2>2. PICK s, t, v \in Nat :
           s = Start(code, i) /\ t = Start(code, c + 1) /\ v = Start(code, i + 1)
    BY <1>2, <1>3, <1>4, <2>1
  <2>3. s < t /\ t <= v
    BY <1>6, <2>2
  <2>4. ~ (c + 1 < i) /\ c + 1 # i
    BY <1>2, <1>3, <1>4, <2>1, <2>2, <2>3
  <2>5. ~ (i + 1 < c + 1)
    BY <1>2, <1>3, <1>4, <2>1, <2>2, <2>3
  <2> QED
    BY <1>4, <2>1, <2>4, <2>5
<1> HIDE DEF Q
<1> QED
  BY <1>0, <1>5, <1>6

(* When every path but the first begins behind a jump, and the code does   *)
(* not end with one, there is a path more than there are jumps, and each   *)
(* jump ends the path before the one that begins behind it.                *)
JumpsEnd(code, e, j) ==
    /\ e \in Seq(Nat) /\ j \in Seq(Nat) /\ Len(e) = Len(j) + 1
    /\ e[1] = 0 /\ \A k \in 1..Len(j) : e[k + 1] = Start(code, j[k] + 1)
    /\ \A k \in 1..Len(j) : /\ j[k] \in 1..(Len(code) - 1)
                            /\ Inside(code, Start(code, j[k] + 1))
                            /\ Inside(code, calc_addr_jmp(code, j[k]).jmp) =>
                                  \E l \in 1..Len(e) : e[l] = calc_addr_jmp(code, j[k]).jmp
    /\ \A k, l \in 1..Len(j) : k < l => j[k] < j[l]

LEMMA JumpsEndPaths ==
    ASSUME NEW code, CodeSound(code), JumpsDelimit(code)
    PROVE  JumpsEnd(code, Entries(code), Jumps(code))
<1>1. PICK L \in Nat : L = Len(code) /\ DOMAIN code = 1..L
  BY StartFacts
<1>2. /\ \A i \in 1..(L + 1) : Start(code, i) \in Nat
      /\ \A i, j \in 1..(L + 1) : i < j => Start(code, i) < Start(code, j)
      /\ Start(code, 1) = 0 /\ Size(code) = Start(code, L + 1) /\ Size(code) \in Nat
  BY <1>1, StartFacts DEF Size
<1>3. L # 0 /\ ~ code[L].jump
  BY <1>1 DEF JumpsDelimit, CodeSound
<1>4. PICK j, S : S = {i \in DOMAIN code : code[i].jump} /\ j = Jumps(code)
  OBVIOUS
<1>5. InOrderOf(j, L, S)
  BY <1>1, <1>4, InOrderFacts DEF Jumps
<1>6. PICK N \in Nat : N = Len(j)
  BY <1>5 DEF InOrderOf
<1>7. /\ j \in Seq(Nat) /\ \A k, l \in 1..N : k < l => j[k] < j[l]
      /\ \A k \in 1..N : j[k] \in 1..(L - 1)
  <2>1. j \in Seq(Nat) /\ (\A k, l \in 1..N : k < l => j[k] < j[l])
    BY <1>5, <1>6 DEF InOrderOf
  <2>2. ASSUME NEW k \in 1..N PROVE j[k] \in 1..(L - 1)
    <3>1. j[k] \in 1..L /\ code[j[k]].jump
      BY <1>4, <1>5, <1>6 DEF InOrderOf
    <3>2. j[k] # L
      BY <1>3, <3>1
    <3> QED
      BY <3>1, <3>2
  <2> QED
    BY <2>1, <2>2
<1> DEFINE Of(i) == {calc_addr_jmp(code, i).next, calc_addr_jmp(code, i).jmp}
<1>8. PICK I, r : /\ I = {a \in UNION {Of(i) : i \in Range(j)} : Inside(code, a)}
                  /\ r = InOrder(Size(code), I)
  OBVIOUS
<1>9. Entries(code) = <<0>> \o r
  BY <1>4, <1>8 DEF Entries
<1>10. InOrderOf(r, Size(code), I)
  BY <1>2, <1>8, InOrderFacts
<1>11. PICK e : e = <<0>> \o r
  OBVIOUS
<1>12. PICK M \in Nat : M = Len(r)
  BY <1>10 DEF InOrderOf
<1>13. /\ e \in Seq(Nat) /\ Len(e) = M + 1 /\ e[1] = 0
       /\ \A k \in 2..(M + 1) : e[k] = r[k - 1]
  <2>1. r \in Seq(Nat) /\ 0 \in Nat
    BY <1>10 DEF InOrderOf
  <2> QED
    BY <1>11, <1>12, <2>1, PushFacts
<1>14. \A l \in 1..M : l + 1 \in 1..(M + 1) /\ e[l + 1] = r[l]
  <2> TAKE l \in 1..M
  <2>1. PICK k \in 2..(M + 1) : k = l + 1 /\ k - 1 = l
    OBVIOUS
  <2> QED
    BY <1>13, <2>1
<1>15. PICK q : q = [k \in 1..N |-> Start(code, j[k] + 1)]
  OBVIOUS
<1>16. ASSUME NEW k \in 1..N
       PROVE  /\ q[k] = Start(code, j[k] + 1) /\ q[k] \in Nat /\ Inside(code, q[k])
              /\ q[k] \in I /\ q[k] \in 1..Size(code)
              /\ Inside(code, calc_addr_jmp(code, j[k]).jmp) =>
                    calc_addr_jmp(code, j[k]).jmp \in I /\ calc_addr_jmp(code, j[k]).jmp \in 1..Size(code)
  <2>1. PICK i \in 1..(L - 1) : i = j[k]
    BY <1>7
  <2>2. PICK s \in Nat, t \in Nat : s = Start(code, i + 1) /\ t = Size(code)
    BY <1>2
  <2>3. 0 < s /\ s < t
    <3>1. 1 \in 1..(L + 1) /\ i + 1 \in 1..(L + 1) /\ L + 1 \in 1..(L + 1)
          /\ 1 < i + 1 /\ i + 1 < L + 1
      OBVIOUS
    <3> QED
      BY <1>2, <2>2, <3>1
  <2>4. q[k] = s
    BY <1>15, <2>1, <2>2
  <2>5. Inside(code, s) /\ s \in 1..Size(code)
    BY <2>2, <2>3 DEF Inside
  <2>6. i \in Range(j) /\ s \in Of(i) /\ calc_addr_jmp(code, i).jmp \in Of(i)
    <3>1. k \in DOMAIN j /\ i = j[k]
      BY <1>6, <1>7, <2>1
    <3> QED
      BY <2>2, <3>1 DEF Range, calc_addr_jmp
  <2>7. s \in I
    BY <1>8, <2>5, <2>6
  <2>8. ASSUME Inside(code, calc_addr_jmp(code, i).jmp)
        PROVE  calc_addr_jmp(code, i).jmp \in I /\ calc_addr_jmp(code, i).jmp \in 1..Size(code)
    <3>1. calc_addr_jmp(code, i).jmp \in 1..Size(code)
      BY <1>2, <2>8 DEF Inside
    <3> QED
      BY <1>8, <2>6, <2>8, <3>1
  <2> QED
    BY <2>1, <2>2, <2>4, <2>5, <2>7, <2>8
<1>17. q \in Seq(Nat) /\ Len(q) = N
  <2>1. q \in [1..N -> Nat]
    BY <1>15, <1>16
  <2> QED
    BY <1>15, <2>1
<1>18. Rising(q)
  <2>1. ASSUME NEW a \in 1..N, NEW b \in 1..N, a < b PROVE q[a] < q[b]
    <3>1. PICK c, d \in 1..(L - 1) : c = j[a] /\ d = j[b]
      BY <1>7
    <3>2. c < d
      BY <1>7, <2>1, <3>1
    <3>3. c + 1 \in 1..(L + 1) /\ d + 1 \in 1..(L + 1) /\ c + 1 < d + 1
      BY <3>2
    <3>4. Start(code, c + 1) < Start(code, d + 1)
      BY <1>2, <3>3
    <3> QED
      BY <1>16, <3>1, <3>4
  <2> QED
    BY <1>17, <2>1 DEF Rising
<1>19. Rising(r)
  BY <1>10 DEF InOrderOf, Rising
<1>20. Within(q, r)
  <2>1. ASSUME NEW k \in 1..N PROVE \E l \in 1..Len(r) : r[l] = q[k]
    BY <1>10, <1>16 DEF InOrderOf
  <2> QED
    BY <1>17, <2>1 DEF Within
<1>21. Within(r, q)
  <2>1. ASSUME NEW l \in 1..M PROVE \E k \in 1..N : q[k] = r[l]
    <3>1. PICK c : c = l + 1
      OBVIOUS
    <3>2. c \in 2..Len(Entries(code)) /\ Entries(code)[c] = r[l]
      BY <1>9, <1>11, <1>13, <1>14, <3>1
    <3>3. PICK i \in Range(j) : Start(code, i + 1) = r[l]
      BY <1>4, <3>2 DEF JumpsDelimit
    <3>4. PICK k \in DOMAIN j : j[k] = i
      BY <3>3 DEF Range
    <3>5. k \in 1..N
      BY <1>6, <1>7, <3>4
    <3> QED
      BY <1>16, <3>3, <3>4, <3>5
  <2> QED
    BY <1>12, <1>17, <2>1 DEF Within
<1>22. M = N /\ \A k \in 1..N : q[k] = r[k]
  BY <1>12, <1>17, <1>18, <1>19, <1>20, <1>21, SameList
<1>23. \A k \in 1..N : e[k + 1] = Start(code, j[k] + 1)
  BY <1>14, <1>16, <1>22
<1>24. ASSUME NEW k \in 1..N, Inside(code, calc_addr_jmp(code, j[k]).jmp)
       PROVE  \E l \in 1..Len(e) : e[l] = calc_addr_jmp(code, j[k]).jmp
  <2>1. PICK l \in 1..M : r[l] = calc_addr_jmp(code, j[k]).jmp
    BY <1>10, <1>12, <1>16, <1>24 DEF InOrderOf
  <2> QED
    BY <1>13, <1>14, <2>1
<1>25. \A k \in 1..N : Inside(code, Start(code, j[k] + 1))
  BY <1>16
<1>26. e = Entries(code) /\ j = Jumps(code) /\ Len(e) = Len(j) + 1
  BY <1>4, <1>6, <1>9, <1>11, <1>13, <1>22
<1>27. JumpsEnd(code, e, j)
  BY <1>1, <1>6, <1>7, <1>13, <1>23, <1>24, <1>25, <1>26 DEF JumpsEnd
<1> QED
  BY <1>26, <1>27

LEMMA AsmPathsRight ==
    ASSUME NEW code, CodeSound(code), JumpsDelimit(code)
    PROVE  /\ ~ WritesPast(code)
           /\ \A k \in DOMAIN get_func_detail(code) :
                 PathRight(code, get_func_detail(code), k)
<1>1. PICK e, j, P : e = Entries(code) /\ j = Jumps(code) /\ P = get_func_detail(code)
  OBVIOUS
<1>2. JumpsEnd(code, e, j)
  BY <1>1, JumpsEndPaths
<1>3. PICK N \in Nat, L \in Nat : N = Len(j) /\ L = Len(code) /\ DOMAIN code = 1..L
  BY <1>2, StartFacts DEF JumpsEnd
<1>4. /\ e \in Seq(Nat) /\ Len(e) = N + 1 /\ DOMAIN e = 1..(N + 1)
      /\ e[1] = 0 /\ \A k \in 1..N : e[k + 1] = Start(code, j[k] + 1)
      /\ \A k \in 1..N : /\ j[k] \in 1..(L - 1)
                         /\ Inside(code, Start(code, j[k] + 1))
                         /\ Inside(code, calc_addr_jmp(code, j[k]).jmp) =>
                               \E l \in 1..(N + 1) : e[l] = calc_addr_jmp(code, j[k]).jmp
      /\ \A k, l \in 1..N : k < l => j[k] < j[l]
  BY <1>2, <1>3 DEF JumpsEnd
<1>5. /\ \A i \in 1..(L + 1) : Start(code, i) \in Nat
      /\ \A i, l \in 1..(L + 1) : i < l => Start(code, i) < Start(code, l)
      /\ Start(code, 1) = 0 /\ Size(code) = Start(code, L + 1)
  BY <1>3, StartFacts DEF Size
<1>6. L \in 1..L /\ ~ code[L].jump
  BY <1>3 DEF JumpsDelimit, CodeSound
<1>7. ~ WritesPast(code)
  BY <1>1, <1>3, <1>4 DEF WritesPast
<1> DEFINE Path(a) == IF \E k \in DOMAIN e : e[k] = a
                      THEN CHOOSE k \in DOMAIN e : e[k] = a ELSE NoPath
           At(i) == calc_addr_jmp(code, i)
<1>8. P = [k \in DOMAIN e |->
            [cp |-> e[k],
             cond |-> IF k <= N THEN Start(code, j[k])
                      ELSE IF k = N + 1 THEN Start(code, Len(code)) ELSE -1,
             false |-> IF k <= N /\ Inside(code, At(j[k]).next) THEN k + 1 ELSE NoPath,
             true |-> IF k <= N /\ Inside(code, At(j[k]).jmp)
                      THEN Path(At(j[k]).jmp) ELSE NoPath]]
  BY <1>1, <1>3 DEF get_func_detail
<1>9. DOMAIN P = 1..(N + 1) /\ \A k \in 1..(N + 1) : P[k].cp = e[k]
  BY <1>4, <1>8
<1>10. [k \in DOMAIN P |-> P[k].cp] = e
  BY <1>4, <1>9
<1> DEFINE c(k) == IF k = N + 1 THEN L ELSE j[k]
<1>11. ASSUME NEW k \in 1..(N + 1)
       PROVE  /\ c(k) = LastOf(code, e, k) /\ c(k) \in 1..L
              /\ P[k].cond = Start(code, c(k))
  <2>1. PICK i \in 1..L : i = c(k)
    <3>1. CASE k = N + 1
      BY <1>6, <3>1
    <3>2. CASE k # N + 1
      <4>1. k \in 1..N
        BY <3>2
      <4>2. j[k] \in 1..L
        BY <1>4, <4>1
      <4> QED
        BY <3>2, <4>2
    <3> QED
      BY <3>1, <3>2
  <2>2. (IF k = Len(e) THEN Size(code) ELSE e[k + 1]) = Start(code, i + 1)
    BY <1>4, <1>5, <2>1
  <2>3. e[k] \in Nat /\ e[k] <= Start(code, i)
    <3>1. CASE k = 1
      <4>1. i \in 1..(L + 1)
        OBVIOUS
      <4>2. Start(code, i) \in Nat
        BY <1>5, <4>1
      <4> QED
        BY <1>4, <3>1, <4>2
    <3>2. CASE k # 1
      <4>1. PICK m \in 1..N : m + 1 = k
        <5>1. k - 1 \in 1..N /\ (k - 1) + 1 = k
          BY <3>2
        <5> QED
          BY <5>1
      <4>2. PICK b \in 1..(L - 1) : b = j[m]
        BY <1>4
      <4>3. b < i
        <5>1. CASE k = N + 1
          BY <2>1, <5>1
        <5>2. CASE k # N + 1
          <6>1. k \in 1..N /\ m < k
            BY <4>1, <5>2
          <6> QED
            BY <1>4, <2>1, <4>2, <5>2, <6>1
        <5> QED
          BY <5>1, <5>2
      <4>4. e[k] = Start(code, b + 1)
        BY <1>4, <4>1, <4>2
      <4>5. b + 1 \in 1..(L + 1) /\ i \in 1..(L + 1) /\ (b + 1 = i \/ b + 1 < i)
        BY <4>3
      <4>6. Start(code, b + 1) \in Nat /\ Start(code, i) \in Nat
        BY <1>5, <4>5
      <4>7. Start(code, b + 1) = Start(code, i) \/ Start(code, b + 1) < Start(code, i)
        BY <1>5, <4>5
      <4> QED
        BY <4>4, <4>6, <4>7
    <3> QED
      BY <3>1, <3>2
  <2>4. PICK a \in Nat : a = e[k]
    BY <2>3
  <2>5. i = LastOf(code, e, k)
    <3>1. PICK t : t = Start(code, i + 1)
      OBVIOUS
    <3>2. Ends(code, a, t, i) /\ \A n \in DOMAIN code : Ends(code, a, t, n) => n = i
      BY <1>3, <2>3, <2>4, <3>1, LastIs
    <3>3. LastOf(code, e, k) \in DOMAIN code /\ Ends(code, a, t, LastOf(code, e, k))
      BY <1>3, <2>2, <2>4, <3>1, <3>2 DEF LastOf, Ends
    <3> QED
      BY <3>2, <3>3
  <2>6. P[k].cond = Start(code, i)
    <3>1. CASE k = N + 1
      <4>1. ~ (k <= N)
        BY <3>1
      <4> QED
        BY <1>3, <1>4, <1>8, <2>1, <3>1, <4>1
    <3>2. CASE k # N + 1
      <4>1. k <= N
        BY <3>2
      <4> QED
        BY <1>4, <1>8, <2>1, <3>2, <4>1
    <3> QED
      BY <3>1, <3>2
  <2> QED
    BY <2>1, <2>5, <2>6
<1> HIDE DEF c
<1>12. ASSUME NEW k \in 1..(N + 1), code[c(k)].jump
       PROVE  /\ k \in 1..N
              /\ IF Inside(code, calc_addr_jmp(code, c(k)).jmp)
                 THEN P[k].true \in DOMAIN e /\ e[P[k].true] = calc_addr_jmp(code, c(k)).jmp
                 ELSE P[k].true = NoPath
              /\ P[k].false \in DOMAIN e /\ e[P[k].false] = Start(code, c(k) + 1)
              /\ Inside(code, Start(code, c(k) + 1))
  <2>1. k \in 1..N /\ c(k) = j[k]
    BY <1>6, <1>12 DEF c
  <2>2. PICK i : i = j[k]
    OBVIOUS
  <2>3. Inside(code, Start(code, i + 1)) /\ e[k + 1] = Start(code, i + 1)
    BY <1>4, <2>1, <2>2
  <2>4. At(i).next = Start(code, i + 1) /\ At(i).jmp = calc_addr_jmp(code, i).jmp
    BY DEF calc_addr_jmp
  <2>5. k <= N /\ k \in DOMAIN e /\ k + 1 \in DOMAIN e
    BY <1>4, <2>1
  <2>6. P[k].false = k + 1
    BY <1>8, <2>2, <2>3, <2>4, <2>5
  <2>7. P[k].true = IF Inside(code, calc_addr_jmp(code, i).jmp) THEN Path(calc_addr_jmp(code, i).jmp) ELSE NoPath
    <3> HIDE DEF Path, At
    <3> QED
      BY <1>8, <2>2, <2>4, <2>5
  <2>8. ASSUME Inside(code, calc_addr_jmp(code, i).jmp)
        PROVE  Path(calc_addr_jmp(code, i).jmp) \in DOMAIN e /\ e[Path(calc_addr_jmp(code, i).jmp)] = calc_addr_jmp(code, i).jmp
    <3>1. \E l \in DOMAIN e : e[l] = calc_addr_jmp(code, i).jmp
      BY <1>4, <2>1, <2>2, <2>8
    <3>2. Path(calc_addr_jmp(code, i).jmp) = CHOOSE l \in DOMAIN e : e[l] = calc_addr_jmp(code, i).jmp
      BY <3>1
    <3> QED
      BY <3>1, <3>2
  <2> HIDE DEF Path, At
  <2> QED
    BY <2>1, <2>2, <2>3, <2>5, <2>6, <2>7, <2>8
<1>13. ASSUME NEW k \in 1..(N + 1) PROVE PathRight(code, P, k)
  <2>1. PICK i : i = LastOf(code, e, k)
    OBVIOUS
  <2>2. i = c(k) /\ P[k].cond = Start(code, i)
    BY <1>11, <2>1
  <2>3. [n \in DOMAIN P |-> P[n].cp] = e
    BY <1>10
  <2>4. code[i].jump =>
           /\ IF Inside(code, calc_addr_jmp(code, i).jmp)
              THEN P[k].true \in DOMAIN e /\ e[P[k].true] = calc_addr_jmp(code, i).jmp
              ELSE P[k].true = NoPath
           /\ IF Inside(code, Start(code, i + 1))
              THEN P[k].false \in DOMAIN e /\ e[P[k].false] = Start(code, i + 1)
              ELSE P[k].false = NoPath
    BY <1>12, <2>2
  <2>5. code[i].jump /\ ReadRight(code, i) =>
           IF Inside(code, Target(code, i))
           THEN P[k].true \in DOMAIN e /\ e[P[k].true] = Target(code, i)
           ELSE P[k].true = NoPath
    BY <2>4 DEF ReadRight
  <2> QED
    BY <2>1, <2>2, <2>3, <2>4, <2>5 DEF PathRight
<1> QED
  BY <1>1, <1>7, <1>9, <1>13

LEMMA DetailGivesPaths ==
    ASSUME DetailInv
    PROVE  PathsRight
<1>1. ASSUME NEW d \in Filled("func") PROVE BranchesRight(Decl(d).cfg, paths[d])
  <2>1. d \in Decls /\ phase > 3 /\ Decl(d).kind = "func" /\ Decl(d).body
    BY DEF Filled
  <2>2. paths[d] = get_function_detail(Decl(d).cfg) /\ CfgSound(Decl(d).cfg)
    BY <2>1, PathsWhole DEF Paths, DeclSound
  <2> QED
    BY <2>2, BranchesAreRight
<1>2. ASSUME NEW d \in Filled("asm"), JumpsDelimit(Decl(d).cfg)
      PROVE  /\ ~ WritesPast(Decl(d).cfg)
             /\ \A k \in DOMAIN paths[d] : PathRight(Decl(d).cfg, paths[d], k)
  <2>1. d \in Decls /\ phase > 3 /\ Decl(d).kind = "asm" /\ Decl(d).body
    BY DEF Filled
  <2>2. paths[d] = get_func_detail(Decl(d).cfg) /\ CodeSound(Decl(d).cfg)
    BY <2>1, PathsWhole DEF Paths, DeclSound
  <2> QED
    BY <1>2, <2>2, AsmPathsRight
<1> QED
  BY <1>1, <1>2 DEF PathsRight

(* The code paths lead where the code goes, once STEP3 is over: a gcc      *)
(* condition's paths whatever the order of the edges is, as the assertions *)
(* of get_function_detail leave it; an assembly path in listings that do   *)
(* not end with a jump and in which every path but the first begins behind *)
(* one, as get_func_detail takes for granted when it has the k-th jump end *)
(* the k-th path.  A jump's true path is right whenever its operand is     *)
(* read for what it is and it does not go back to the function's start.    *)
THEOREM CodePathsRight == Spec => []PathsRight
BY DetailInvariant, DetailGivesPaths, PTL

=============================================================================
