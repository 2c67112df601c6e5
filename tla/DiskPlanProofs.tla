---------------------------- MODULE DiskPlanProofs ----------------------------
(***************************************************************************)
(* Proofs about DiskPlan, for any disks, sizes and length of a plan.       *)
(*                                                                         *)
(* What the lists of a plan and the worker's table have in common is kept  *)
(* by every operation in the same way: a region gives way to others, and   *)
(* free neighbours are joined.  So the sizes add up, the other partitions  *)
(* stay, and what an operation says of one of them is all that changes.    *)
(* Recursion is by functions here, and induction by the lemma Induction.   *)
(***************************************************************************)
EXTENDS DiskPlan, SequenceTheorems, FiniteSetTheorems, WellFoundedInduction, TLAPS

-----------------------------------------------------------------------------
(* Induction, and functions defined by it *)

\* The order of the natural numbers, written out, is well-founded.
LEMMA NatWellFounded == IsWellFoundedOn({ss \in Nat \X Nat : ss[1] < ss[2]}, Nat)
<1>1. IsWellFoundedOn(OpToRel(<,Nat), Nat)
  BY NatLessThanWellFounded
<1> QED
  BY <1>1 DEF OpToRel

\* A set of numbers that is not empty has a least one.
LEMMA LeastNumber ==
  ASSUME NEW T, T \subseteq Nat, T # {}
  PROVE  \E x \in T : \A y \in T : x <= y
<1> DEFINE R == {ss \in Nat \X Nat : ss[1] < ss[2]}
<1>1. IsWellFoundedOn(R, Nat)
  BY NatWellFounded
<1>2. \A x, y \in Nat : x < y => <<x, y>> \in R
  OBVIOUS
<1> HIDE DEF R
<1>3. PICK x \in T : \A y \in T : ~ (<<y, x>> \in R)
  BY <1>1, WFMin
<1>4. \A y \in T : ~(y < x)
  BY <1>2, <1>3
<1>5. \A y \in T : x \in Nat /\ y \in Nat
  OBVIOUS
<1> QED
  BY <1>4, <1>5

\* Induction, with a set for the predicate: the provers can instantiate it.
LEMMA Induction ==
  ASSUME NEW P, 0 \in P, \A n \in Nat : n \in P => n + 1 \in P
  PROVE  \A n \in Nat : n \in P
<1> DEFINE T == Nat \ P
<1>1. CASE T = {}
  BY <1>1
<1>2. CASE T # {}
  <2>1. PICK x \in T : \A y \in T : x <= y
    BY <1>2, LeastNumber
  <2>2. x \in Nat /\ x # 0
    BY <2>1
  <2>3. x - 1 \in Nat /\ x - 1 \notin T
    BY <2>1, <2>2
  <2> QED
    BY <2>1, <2>2, <2>3
<1> QED
  BY <1>1, <1>2

\* What a start and a step give, number by number.
Iterate(g, S, a, D) ==
  g \in [Nat -> S] /\ g[0] = a /\ \A n \in Nat : g[n + 1] = D[n + 1][g[n]]

\* A start and a step define a function on the numbers.
LEMMA Iterates ==
  ASSUME NEW S, NEW a \in S, NEW D \in [Nat -> [S -> S]]
  PROVE  \E g : Iterate(g, S, a, D)
<1> DEFINE Runs(n) == {g \in [0 .. n -> S] : g[0] = a /\ \A i \in 0 .. (n - 1) : g[i + 1] = D[i + 1][g[i]]}
           P == {n \in Nat : Runs(n) # {}}
<1>1. \A n \in Nat : n \in P
  <2>1. 0 \in P
    <3>1. [i \in 0 .. 0 |-> a] \in Runs(0)
      OBVIOUS
    <3> QED
      BY <3>1
  <2>2. ASSUME NEW n \in Nat, n \in P PROVE n + 1 \in P
    <3>1. PICK g \in Runs(n) : TRUE
      BY <2>2
    <3> DEFINE h == [i \in 0 .. (n + 1) |-> IF i = n + 1 THEN D[n + 1][g[n]] ELSE g[i]]
    <3>2. D[n + 1][g[n]] \in S
      BY <3>1
    <3>3. h \in [0 .. (n + 1) -> S]
      BY <3>1, <3>2
    <3>4. h[0] = a
      BY <3>1
    <3>5. \A i \in 0 .. n : h[i] = g[i]
      OBVIOUS
    <3>6. h[n + 1] = D[n + 1][g[n]]
      OBVIOUS
    <3> HIDE DEF h
    <3>7. ASSUME NEW i \in 0 .. n PROVE h[i + 1] = D[i + 1][h[i]]
      <4>1. CASE i = n
        BY <3>5, <3>6, <4>1
      <4>2. CASE i # n
        BY <3>1, <3>5, <4>2
      <4> QED
        BY <4>1, <4>2
    <3>8. h \in Runs(n + 1)
      BY <3>3, <3>4, <3>7
    <3> QED
      BY <3>8
  <2> HIDE DEF P
  <2> QED
    BY <2>1, <2>2, Induction
<1> DEFINE c == [n \in Nat |-> CHOOSE g \in Runs(n) : TRUE]
<1>2. \A n \in Nat : c[n] \in Runs(n)
  BY <1>1
<1> HIDE DEF c
<1>3. ASSUME NEW n \in Nat PROVE \A i \in Nat : i <= n => c[n + 1][i] = c[n][i]
  <2> DEFINE Q == {i \in Nat : i <= n => c[n + 1][i] = c[n][i]}
  <2>1. c[n] \in Runs(n) /\ c[n + 1] \in Runs(n + 1)
    BY <1>2
  <2>2. 0 \in Q
    BY <2>1
  <2>3. ASSUME NEW i \in Nat, i \in Q PROVE i + 1 \in Q
    <3> SUFFICES ASSUME i + 1 <= n PROVE c[n + 1][i + 1] = c[n][i + 1]
      OBVIOUS
    <3>1. i \in 0 .. (n - 1) /\ i \in 0 .. n /\ c[n + 1][i] = c[n][i]
      BY <2>3
    <3>2. c[n][i + 1] = D[i + 1][c[n][i]] /\ c[n + 1][i + 1] = D[i + 1][c[n + 1][i]]
      BY <2>1, <3>1
    <3> QED
      BY <3>1, <3>2
  <2> HIDE DEF Q
  <2>4. \A i \in Nat : i \in Q
    BY <2>2, <2>3, Induction
  <2> QED
    BY <2>4 DEF Q
<1> DEFINE g == [n \in Nat |-> c[n][n]]
<1>4. g \in [Nat -> S]
  <2>1. \A n \in Nat : c[n] \in [0 .. n -> S] /\ n \in 0 .. n
    BY <1>2
  <2>2. \A n \in Nat : c[n][n] \in S
    BY <2>1
  <2> QED
    BY <2>2
<1>5. g[0] = a
  BY <1>2
<1>6. ASSUME NEW n \in Nat PROVE g[n + 1] = D[n + 1][g[n]]
  <2>1. c[n + 1] \in Runs(n + 1) /\ n \in 0 .. ((n + 1) - 1)
    BY <1>2
  <2>2. c[n + 1][n + 1] = D[n + 1][c[n + 1][n]]
    BY <2>1
  <2>3. c[n + 1][n] = c[n][n]
    BY <1>3
  <2> QED
    BY <2>2, <2>3
<1> HIDE DEF g
<1>7. Iterate(g, S, a, D)
  BY <1>4, <1>5, <1>6 DEF Iterate
<1> QED
  BY <1>7

\* The elements of a sequence are in its set.
LEMMA Elements ==
  ASSUME NEW S, NEW q \in Seq(S)
  PROVE  \A i \in DOMAIN q : i \in Nat /\ q[i] \in S
OBVIOUS

\* What Append adds, and what it leaves.
LEMMA Appended ==
  ASSUME NEW S, NEW q \in Seq(S), NEW m \in S, NEW r, r = Append(q, m)
  PROVE  /\ r \in Seq(S) /\ Len(q) \in Nat /\ Len(q) + 1 \notin DOMAIN q
         /\ DOMAIN r = DOMAIN q \cup {Len(q) + 1} /\ r[Len(q) + 1] = m
         /\ \A i \in DOMAIN q : i \in Nat /\ i < Len(q) + 1 /\ r[i] = q[i] /\ q[i] \in S
<1>1. r \in Seq(S) /\ Len(q) \in Nat /\ Len(r) = Len(q) + 1
  OBVIOUS
<1>2. DOMAIN q = 1..Len(q) /\ DOMAIN r = 1..(Len(q) + 1)
  BY <1>1
<1>3. \A i \in 1..Len(q) : r[i] = q[i] /\ q[i] \in S
  OBVIOUS
<1>4. r[Len(q) + 1] = m
  OBVIOUS
<1> QED
  BY <1>1, <1>2, <1>3, <1>4

-----------------------------------------------------------------------------
(* Recursive functions, and the sums of sizes *)

\* The turns of a recursive function on 0 .. L.
Turned(h, S, a, D, L) ==
  /\ h \in [0 .. L -> S] /\ h[0] = a
  /\ \A n \in 0 .. L : n # 0 => n - 1 \in 0 .. L /\ h[n] = D[n][h[n - 1]]

\* A recursion over the first L numbers has a function that follows it.
LEMMA Turns ==
  ASSUME NEW S, NEW a \in S, NEW L \in Nat, NEW D \in [Nat -> [S -> S]]
  PROVE  \E h : Turned(h, S, a, D, L)
<1>1. PICK g : Iterate(g, S, a, D)
  BY Iterates
<1>2. g \in [Nat -> S] /\ g[0] = a /\ \A n \in Nat : g[n + 1] = D[n + 1][g[n]]
  BY <1>1 DEF Iterate
<1> DEFINE h == [n \in 0 .. L |-> g[n]]
<1>3. h \in [0 .. L -> S] /\ h[0] = a
  BY <1>2
<1>4. ASSUME NEW n \in 0 .. L, n # 0 PROVE n - 1 \in 0 .. L /\ h[n] = D[n][h[n - 1]]
  <2>1. n - 1 \in Nat /\ n - 1 \in 0 .. L /\ (n - 1) + 1 = n
    BY <1>4
  <2>2. h[n - 1] = g[n - 1] /\ h[n] = g[n]
    BY <2>1
  <2> QED
    BY <1>2, <2>1, <2>2
<1> HIDE DEF h
<1>5. Turned(h, S, a, D, L)
  BY <1>3, <1>4 DEF Turned
<1> QED
  BY <1>5
-----------------------------------------------------------------------------
Names == [kind : Texts, n : Nat]
Entries == [id : Names, fs : Texts, size : Nat, mount : Texts, inner : BOOLEAN]

\* What has a size, which can be changed.
Sizable(S) ==
  \A r \in S : /\ r.size \in Nat
               /\ \A z \in Nat : /\ WithSize(r, z) \in S /\ WithSize(r, z).size = z
                                 /\ WithSize(r, z).fs = r.fs

\* An entry with another size keeps the rest.
LEMMA EntrySized ==
  ASSUME NEW r \in Entries, NEW z \in Nat
  PROVE  /\ r.size \in Nat /\ WithSize(r, z) \in Entries /\ WithSize(r, z).size = z
         /\ WithSize(r, z).fs = r.fs /\ WithSize(r, z).id = r.id /\ WithSize(r, z).mount = r.mount
  BY DEF Entries, WithSize

\* Entries have sizes that can be changed.
LEMMA EntriesSizable == Sizable(Entries)
  BY EntrySized DEF Sizable

\* A region with another size keeps the rest.
LEMMA RegionSized ==
  ASSUME NEW r \in Regions, NEW z \in Nat
  PROVE  /\ r.size \in Nat /\ WithSize(r, z) \in Regions /\ WithSize(r, z).size = z
         /\ WithSize(r, z).fs = r.fs /\ WithSize(r, z).num = r.num
         /\ WithSize(r, z).was = r.was
<1>1. /\ r \in [num : Nat, fs : Texts, size : Nat, mount : Texts, was : Nat, inner : BOOLEAN]
      /\ (r.num = 0 <=> IsFree(r))
  BY DEF Regions
<1> DEFINE w == WithSize(r, z)
<1>2. w \in [num : Nat, fs : Texts, size : Nat, mount : Texts, was : Nat, inner : BOOLEAN]
  BY <1>1 DEF WithSize
<1>3. w.size = z /\ w.fs = r.fs /\ w.num = r.num /\ r.size \in Nat
  BY <1>1 DEF WithSize
<1>4. w.was = r.was
  BY <1>1 DEF WithSize
<1> HIDE DEF w
<1>5. w \in Regions
  BY <1>1, <1>2, <1>3 DEF Regions, IsFree
<1> QED
  BY <1>3, <1>4, <1>5 DEF w

\* Regions have sizes that can be changed.
LEMMA RegionsSizable == Sizable(Regions)
  BY RegionSized DEF Sizable

\* Total adds up the sizes one by one.
Sums(s) == CHOOSE sum : sum = [n \in 0 .. Len(s) |-> IF n = 0 THEN 0 ELSE sum[n - 1] + s[n].size]

\* Total, one step of its recursion at a time.
LEMMA SumTurns ==
  ASSUME NEW S, Sizable(S), NEW s \in Seq(S)
  PROVE  /\ Total(s) = Sums(s)[Len(s)] /\ Sums(s)[0] = 0
         /\ \A n \in 1 .. Len(s) : Sums(s)[n] = Sums(s)[n - 1] + s[n].size
         /\ \A n \in 0 .. Len(s) : Sums(s)[n] \in Nat
<1> DEFINE L == Len(s)
           D == [n \in Nat |-> [v \in Nat |-> IF n \in 1 .. L THEN v + s[n].size ELSE v]]
<1>0. L \in Nat /\ 0 \in Nat /\ \A n \in 1 .. L : s[n].size \in Nat
  BY DEF Sizable
<1>1. D \in [Nat -> [Nat -> Nat]]
  BY <1>0
<1>2. \A n \in 1 .. L, v \in Nat : D[n][v] = v + s[n].size
  BY <1>0
<1> HIDE DEF D
<1>3. PICK h : Turned(h, Nat, 0, D, L)
  BY <1>0, <1>1, Turns
<1>4. h \in [0 .. L -> Nat] /\ h[0] = 0
      /\ \A n \in 0 .. L : n # 0 => n - 1 \in 0 .. L /\ h[n] = D[n][h[n - 1]]
  BY <1>3 DEF Turned
<1>5. ASSUME NEW n \in 0 .. L, n # 0 PROVE h[n] = h[n - 1] + s[n].size
  <2>1. n \in 1 .. L /\ n - 1 \in 0 .. L /\ h[n] = D[n][h[n - 1]]
    BY <1>0, <1>4, <1>5
  <2>2. h[n - 1] \in Nat
    BY <1>4, <2>1
  <2> QED
    BY <1>2, <2>1, <2>2
<1>6. h = [n \in 0 .. L |-> IF n = 0 THEN 0 ELSE h[n - 1] + s[n].size]
  BY <1>4, <1>5
<1>7. Sums(s) = [n \in 0 .. L |-> IF n = 0 THEN 0 ELSE Sums(s)[n - 1] + s[n].size]
  <2>1. \E f : f = [n \in 0 .. L |-> IF n = 0 THEN 0 ELSE f[n - 1] + s[n].size]
    BY <1>6
  <2> QED
    BY <2>1 DEF Sums
<1>8. Total(s) = Sums(s)[L]
  BY DEF Total, Sums
<1>9. /\ Sums(s)[0] = 0
      /\ \A n \in 1 .. L : Sums(s)[n] = Sums(s)[n - 1] + s[n].size
  BY <1>0, <1>7
<1> DEFINE P == {n \in Nat : n <= L => Sums(s)[n] \in Nat}
<1>10. 0 \in P
  BY <1>9
<1>11. ASSUME NEW n \in Nat, n \in P PROVE n + 1 \in P
  <2> SUFFICES ASSUME n + 1 <= L PROVE Sums(s)[n + 1] \in Nat
    OBVIOUS
  <2>1. n + 1 \in 1 .. L /\ (n + 1) - 1 = n /\ n <= L
    BY <1>0
  <2>2. Sums(s)[n] \in Nat /\ Sums(s)[n + 1] = Sums(s)[n] + s[n + 1].size
    BY <1>9, <1>11, <2>1
  <2> QED
    BY <1>0, <2>1, <2>2
<1> HIDE DEF P
<1>12. \A n \in Nat : n \in P
  BY <1>10, <1>11, Induction
<1> QED
  BY <1>0, <1>8, <1>9, <1>12 DEF P

\* Sequences that agree on the sizes of a prefix agree on their sums.
LEMMA SumsAgree ==
  ASSUME NEW S, Sizable(S), NEW s \in Seq(S), NEW t \in Seq(S), NEW L \in Nat,
         L <= Len(s), L <= Len(t), \A i \in 1 .. L : s[i].size = t[i].size
  PROVE  Sums(s)[L] = Sums(t)[L]
<1> DEFINE P == {n \in Nat : n <= L => Sums(s)[n] = Sums(t)[n]}
<1>1. 0 \in P
  BY SumTurns
<1>2. ASSUME NEW n \in Nat, n \in P PROVE n + 1 \in P
  <2> SUFFICES ASSUME n + 1 <= L PROVE Sums(s)[n + 1] = Sums(t)[n + 1]
    OBVIOUS
  <2>1. n + 1 \in 1 .. Len(s) /\ n + 1 \in 1 .. Len(t) /\ n + 1 \in 1 .. L /\ (n + 1) - 1 = n /\ n <= L
    OBVIOUS
  <2>2. Sums(s)[n + 1] = Sums(s)[n] + s[n + 1].size
    BY <2>1, SumTurns
  <2>3. Sums(t)[n + 1] = Sums(t)[n] + t[n + 1].size
    BY <2>1, SumTurns
  <2> QED
    BY <1>2, <2>1, <2>2, <2>3
<1> HIDE DEF P
<1>3. \A n \in Nat : n \in P
  BY <1>1, <1>2, Induction
<1> QED
  BY <1>3 DEF P

\* Lists with the same sizes have the same total.
LEMMA TotalSame ==
  ASSUME NEW S, Sizable(S), NEW s \in Seq(S), NEW t \in Seq(S), Len(s) = Len(t),
         \A i \in 1 .. Len(s) : s[i].size = t[i].size
  PROVE  Total(s) = Total(t)
<1>1. Sums(s)[Len(s)] = Sums(t)[Len(s)]
  BY SumsAgree
<1> QED
  BY <1>1, SumTurns

\* A total is a natural number.
LEMMA TotalNat == ASSUME NEW S, Sizable(S), NEW s \in Seq(S) PROVE Total(s) \in Nat
<1>1. Len(s) \in 0 .. Len(s)
  OBVIOUS
<1> QED
  BY <1>1, SumTurns

\* An element more adds its size.
LEMMA TotalAppend ==
  ASSUME NEW S, Sizable(S), NEW s \in Seq(S), NEW r \in S
  PROVE  Total(Append(s, r)) = Total(s) + r.size
<1> DEFINE t == Append(s, r)
<1>1. t \in Seq(S) /\ Len(s) \in Nat /\ Len(t) = Len(s) + 1 /\ t[Len(s) + 1] = r
      /\ \A i \in 1 .. Len(s) : t[i] = s[i]
  OBVIOUS
<1> HIDE DEF t
<1>2. Sums(s)[Len(s)] = Sums(t)[Len(s)]
  BY <1>1, SumsAgree
<1>3. Len(t) \in 1 .. Len(t) /\ Len(t) - 1 = Len(s)
  BY <1>1
<1>4. Sums(t)[Len(t)] = Sums(t)[Len(s)] + r.size
  BY <1>1, <1>3, SumTurns
<1>5. Total(t) = Sums(t)[Len(t)] /\ Total(s) = Sums(s)[Len(s)]
  BY <1>1, SumTurns
<1> QED
  BY <1>2, <1>4, <1>5 DEF t

\* Nothing has no size.
LEMMA TotalEmpty == ASSUME NEW S, Sizable(S) PROVE Total(<< >>) = 0
<1>1. << >> \in Seq(S) /\ Len(<< >>) = 0
  OBVIOUS
<1> QED
  BY <1>1, SumTurns

\* One element has its size.
LEMMA TotalOne == ASSUME NEW S, Sizable(S), NEW r \in S PROVE << r >> \in Seq(S) /\ Total(<< r >>) = r.size
<1>1. << >> \in Seq(S) /\ Append(<< >>, r) = << r >> /\ << r >> \in Seq(S)
  OBVIOUS
<1>2. r.size \in Nat
  BY DEF Sizable
<1>3. Total(Append(<< >>, r)) = Total(<< >>) + r.size
  BY <1>1, TotalAppend
<1> QED
  BY <1>1, <1>2, <1>3, TotalEmpty

\* The total of two lists in a row is the sum of theirs.
LEMMA TotalCat ==
  ASSUME NEW S, Sizable(S), NEW s \in Seq(S), NEW t \in Seq(S)
  PROVE  s \o t \in Seq(S) /\ Total(s \o t) = Total(s) + Total(t)
<1> DEFINE u == s \o t
<1>1. /\ u \in Seq(S) /\ Len(u) = Len(s) + Len(t) /\ Len(s) \in Nat /\ Len(t) \in Nat
      /\ \A i \in 1 .. Len(s) : u[i] = s[i]
      /\ \A i \in 1 .. Len(t) : u[Len(s) + i] = t[i]
  OBVIOUS
<1> HIDE DEF u
<1>2. Sums(u)[Len(s)] = Sums(s)[Len(s)]
  <2>1. Len(s) <= Len(u) /\ Len(s) <= Len(s)
    BY <1>1
  <2>2. \A i \in 1 .. Len(s) : u[i].size = s[i].size
    BY <1>1
  <2> QED
    BY <1>1, <2>1, <2>2, SumsAgree
<1>3. Total(s) \in Nat
  BY TotalNat
<1> DEFINE P == {n \in Nat : n <= Len(t) => Sums(u)[Len(s) + n] = Total(s) + Sums(t)[n]}
<1>4. 0 \in P
  BY <1>1, <1>2, <1>3, SumTurns
<1>5. ASSUME NEW n \in Nat, n \in P PROVE n + 1 \in P
  <2> SUFFICES ASSUME n + 1 <= Len(t) PROVE Sums(u)[Len(s) + (n + 1)] = Total(s) + Sums(t)[n + 1]
    OBVIOUS
  <2> DEFINE m == Len(s) + (n + 1)
  <2>1. m \in 1 .. Len(u) /\ m - 1 = Len(s) + n /\ n + 1 \in 1 .. Len(t) /\ (n + 1) - 1 = n
        /\ n \in 0 .. Len(t) /\ n <= Len(t)
    BY <1>1
  <2>2. u[m] = t[n + 1]
    BY <1>1, <2>1
  <2> HIDE DEF m
  <2>3. Sums(u)[m] = Sums(u)[m - 1] + u[m].size
    BY <1>1, <2>1, SumTurns
  <2>4. Sums(t)[n + 1] = Sums(t)[n] + t[n + 1].size /\ Sums(t)[n] \in Nat
    BY <2>1, SumTurns
  <2>5. t[n + 1].size \in Nat
    BY <2>1 DEF Sizable
  <2>6. Sums(u)[m] = Total(s) + Sums(t)[n + 1]
    BY <1>3, <1>5, <2>1, <2>2, <2>3, <2>4, <2>5
  <2> QED
    BY <2>6 DEF m
<1> HIDE DEF P
<1>6. Sums(u)[Len(s) + Len(t)] = Total(s) + Sums(t)[Len(t)]
  <2>1. Len(t) \in P
    BY <1>1, <1>4, <1>5, Induction
  <2> QED
    BY <1>1, <2>1 DEF P
<1>7. Total(u) = Sums(u)[Len(u)] /\ Total(t) = Sums(t)[Len(t)]
  BY <1>1, SumTurns
<1> QED
  BY <1>1, <1>6, <1>7 DEF u

-----------------------------------------------------------------------------
(* Adjacent free entries joined *)

\* An element that is joined adds its size, whether it is merged or appended.
LEMMA JoinedIs ==
  ASSUME NEW S, Sizable(S), NEW acc \in Seq(S), NEW r \in S
  PROVE  Joined(acc, r) \in Seq(S) /\ Total(Joined(acc, r)) = Total(acc) + r.size
<1>1. CASE acc # << >> /\ IsFree(Last(acc)) /\ IsFree(r) /\ Last(acc).inner = r.inner
  <2> DEFINE l == Last(acc)
             w == WithSize(l, l.size + r.size)
  <2>1. acc \in Seq(S) /\ Len(acc) \in Nat /\ Len(acc) # 0 /\ l = acc[Len(acc)] /\ l \in S
    BY <1>1 DEF Last
  <2>2. Front(acc) \in Seq(S) /\ acc = Append(Front(acc), l)
    BY <2>1 DEF Front, Last
  <2>3. l.size \in Nat /\ r.size \in Nat
    BY <2>1 DEF Sizable
  <2>10. l.size + r.size \in Nat
    BY <2>3
  <2>9. w \in S /\ w.size = l.size + r.size
    BY <2>1, <2>10 DEF Sizable
  <2>4. Joined(acc, r) = Append(Front(acc), w)
    BY <1>1 DEF Joined
  <2> HIDE DEF l, w
  <2>5. Total(acc) = Total(Front(acc)) + l.size
    BY <2>1, <2>2, TotalAppend
  <2>6. Total(Append(Front(acc), w)) = Total(Front(acc)) + w.size
    BY <2>2, <2>9, TotalAppend
  <2>7. Total(Front(acc)) \in Nat
    BY <2>2, TotalNat
  <2>8. Append(Front(acc), w) \in Seq(S)
    BY <2>2, <2>9
  <2> QED
    BY <2>3, <2>4, <2>5, <2>6, <2>7, <2>8, <2>9
<1>2. CASE ~(acc # << >> /\ IsFree(Last(acc)) /\ IsFree(r) /\ Last(acc).inner = r.inner)
  <2>1. Joined(acc, r) = Append(acc, r)
    BY <1>2 DEF Joined
  <2>2. Append(acc, r) \in Seq(S)
    OBVIOUS
  <2> QED
    BY <2>1, <2>2, TotalAppend
<1> QED
  BY <1>1, <1>2

Joins(s) ==
  CHOOSE joined : joined = [n \in 0 .. Len(s) |-> IF n = 0 THEN <<>> ELSE Joined(joined[n - 1], s[n])]

\* Coalesced, one step of its recursion at a time.
LEMMA JoinTurns ==
  ASSUME NEW S, Sizable(S), NEW s \in Seq(S)
  PROVE  /\ Coalesced(s) = Joins(s)[Len(s)] /\ Joins(s)[0] = << >>
         /\ \A n \in 1 .. Len(s) : Joins(s)[n] = Joined(Joins(s)[n - 1], s[n])
         /\ \A n \in 0 .. Len(s) : Joins(s)[n] \in Seq(S)
<1> DEFINE L == Len(s)
           T == Seq(S)
           D == [n \in Nat |-> [acc \in T |-> IF n \in 1 .. L THEN Joined(acc, s[n]) ELSE acc]]
<1>0. L \in Nat /\ << >> \in T /\ \A n \in 1 .. L : s[n] \in S
  OBVIOUS
<1>1. \A n \in 1 .. L, acc \in T : Joined(acc, s[n]) \in T
  BY <1>0, JoinedIs
<1> HIDE DEF T
<1>2. D \in [Nat -> [T -> T]]
  BY <1>1
<1>3. \A n \in 1 .. L, acc \in T : D[n][acc] = Joined(acc, s[n])
  BY <1>0
<1> HIDE DEF D
<1>4. PICK h : Turned(h, T, << >>, D, L)
  BY <1>0, <1>2, Turns
<1>5. h \in [0 .. L -> T] /\ h[0] = << >>
      /\ \A n \in 0 .. L : n # 0 => n - 1 \in 0 .. L /\ h[n] = D[n][h[n - 1]]
  BY <1>4 DEF Turned
<1>6. ASSUME NEW n \in 0 .. L, n # 0 PROVE h[n] = Joined(h[n - 1], s[n])
  <2>1. n \in 1 .. L /\ n - 1 \in 0 .. L /\ h[n] = D[n][h[n - 1]]
    BY <1>0, <1>5, <1>6
  <2>2. h[n - 1] \in T
    BY <1>5, <2>1
  <2> QED
    BY <1>3, <2>1, <2>2
<1>7. h = [n \in 0 .. L |-> IF n = 0 THEN << >> ELSE Joined(h[n - 1], s[n])]
  BY <1>5, <1>6
<1>8. Joins(s) = [n \in 0 .. L |-> IF n = 0 THEN << >> ELSE Joined(Joins(s)[n - 1], s[n])]
  <2>1. \E f : f = [n \in 0 .. L |-> IF n = 0 THEN << >> ELSE Joined(f[n - 1], s[n])]
    BY <1>7
  <2> QED
    BY <2>1 DEF Joins
<1>9. Coalesced(s) = Joins(s)[L]
  BY DEF Coalesced, Joins
<1>10. /\ Joins(s)[0] = << >>
       /\ \A n \in 1 .. L : Joins(s)[n] = Joined(Joins(s)[n - 1], s[n])
  BY <1>0, <1>8
<1> DEFINE P == {n \in Nat : n <= L => Joins(s)[n] \in T}
<1>11. 0 \in P
  BY <1>0, <1>10
<1>12. ASSUME NEW n \in Nat, n \in P PROVE n + 1 \in P
  <2> SUFFICES ASSUME n + 1 <= L PROVE Joins(s)[n + 1] \in T
    OBVIOUS
  <2>1. n + 1 \in 1 .. L /\ (n + 1) - 1 = n /\ n <= L
    BY <1>0
  <2>2. Joins(s)[n] \in T /\ Joins(s)[n + 1] = Joined(Joins(s)[n], s[n + 1])
    BY <1>10, <1>12, <2>1
  <2> QED
    BY <1>1, <2>1, <2>2
<1> HIDE DEF P
<1>13. \A n \in Nat : n \in P
  BY <1>11, <1>12, Induction
<1> QED
  BY <1>0, <1>9, <1>10, <1>13 DEF P, T

\* Joining free regions loses no sectors.
LEMMA CoalescedAddsUp ==
  ASSUME NEW S, Sizable(S), NEW s \in Seq(S)
  PROVE  Coalesced(s) \in Seq(S) /\ Total(Coalesced(s)) = Total(s)
<1> DEFINE L == Len(s)
           P == {n \in Nat : n <= L => Total(Joins(s)[n]) = Sums(s)[n]}
<1>0. L \in Nat
  OBVIOUS
<1>1. 0 \in P
  BY JoinTurns, SumTurns, TotalEmpty
<1>2. ASSUME NEW n \in Nat, n \in P PROVE n + 1 \in P
  <2> SUFFICES ASSUME n + 1 <= L PROVE Total(Joins(s)[n + 1]) = Sums(s)[n + 1]
    OBVIOUS
  <2>1. n + 1 \in 1 .. L /\ n \in 0 .. L /\ (n + 1) - 1 = n /\ n <= L /\ s[n + 1] \in S
    BY <1>0
  <2>2. Joins(s)[n] \in Seq(S) /\ Joins(s)[n + 1] = Joined(Joins(s)[n], s[n + 1])
    BY <2>1, JoinTurns
  <2>3. Total(Joins(s)[n + 1]) = Total(Joins(s)[n]) + s[n + 1].size
    BY <2>1, <2>2, JoinedIs
  <2>4. Sums(s)[n + 1] = Sums(s)[n] + s[n + 1].size
    BY <2>1, SumTurns
  <2> QED
    BY <1>2, <2>1, <2>3, <2>4
<1> HIDE DEF P
<1>3. L \in P
  BY <1>0, <1>1, <1>2, Induction
<1>4. L \in 0 .. L
  BY <1>0
<1> QED
  BY <1>0, <1>3, <1>4, JoinTurns, SumTurns DEF P

-----------------------------------------------------------------------------
(* Regions that give way to others *)

\* The parts of a sequence before, from and after the n positions from i on.
LEMMA Pieces ==
  ASSUME NEW S, NEW s \in Seq(S), NEW i \in Nat, NEW n \in Nat, i >= 1, i + n - 1 <= Len(s)
  PROVE  /\ SubSeq(s, 1, i - 1) \in Seq(S) /\ SubSeq(s, i, i + n - 1) \in Seq(S)
         /\ SubSeq(s, i + n, Len(s)) \in Seq(S)
         /\ Len(SubSeq(s, 1, i - 1)) = i - 1 /\ Len(SubSeq(s, i, i + n - 1)) = n
         /\ Len(SubSeq(s, i + n, Len(s))) = Len(s) - n - (i - 1)
         /\ \A k \in 1 .. (i - 1) : SubSeq(s, 1, i - 1)[k] = s[k]
         /\ \A k \in 1 .. n : SubSeq(s, i, i + n - 1)[k] = s[k + (i - 1)]
         /\ \A k \in 1 .. Len(s) - n - (i - 1) : SubSeq(s, i + n, Len(s))[k] = s[k + n + (i - 1)]
<1>1. Len(s) \in Nat /\ \A k \in 1 .. Len(s) : s[k] \in S
  OBVIOUS
<1>2. SubSeq(s, 1, i - 1) \in Seq(S) /\ Len(SubSeq(s, 1, i - 1)) = i - 1
      /\ \A k \in 1 .. (i - 1) : SubSeq(s, 1, i - 1)[k] = s[k]
  BY <1>1
<1>3. SubSeq(s, i, i + n - 1) \in Seq(S) /\ Len(SubSeq(s, i, i + n - 1)) = n
      /\ \A k \in 1 .. n : SubSeq(s, i, i + n - 1)[k] = s[k + (i - 1)]
  BY <1>1
<1>4. SubSeq(s, i + n, Len(s)) \in Seq(S) /\ Len(SubSeq(s, i + n, Len(s))) = Len(s) - n - (i - 1)
  BY <1>1
<1>5. \A k \in 1 .. Len(s) - n - (i - 1) : SubSeq(s, i + n, Len(s))[k] = s[k + n + (i - 1)]
  BY <1>1
<1> QED
  BY <1>2, <1>3, <1>4, <1>5

\* The elements of two lists in a row.
LEMMA Joint ==
  ASSUME NEW S, NEW s \in Seq(S), NEW t \in Seq(S), NEW u, u = s \o t
  PROVE  /\ u \in Seq(S) /\ Len(u) = Len(s) + Len(t) /\ Len(s) \in Nat /\ Len(t) \in Nat
         /\ \A k \in 1 .. Len(s) : u[k] = s[k]
         /\ \A k \in 1 .. Len(t) : u[Len(s) + k] = t[k]
<1>1. u \in Seq(S) /\ Len(u) = Len(s) + Len(t) /\ Len(s) \in Nat /\ Len(t) \in Nat
  OBVIOUS
<1>2. \A k \in 1 .. Len(s) : u[k] = s[k]
  OBVIOUS
<1>3. \A k \in 1 .. Len(t) : u[Len(s) + k] = t[k]
  OBVIOUS
<1> QED
  BY <1>1, <1>2, <1>3

\* The regions that take the place of others have their size.
LEMMA SplicedAddsUp ==
  ASSUME NEW S, Sizable(S), NEW s \in Seq(S), NEW new \in Seq(S),
         NEW i \in Nat, NEW n \in Nat, i >= 1, i + n - 1 <= Len(s),
         Total(new) = Total(SubSeq(s, i, i + n - 1))
  PROVE  Spliced(s, i, n, new) \in Seq(S) /\ Total(Spliced(s, i, n, new)) = Total(s)
<1> DEFINE a == SubSeq(s, 1, i - 1)
           m == SubSeq(s, i, i + n - 1)
           b == SubSeq(s, i + n, Len(s))
<1>1. /\ a \in Seq(S) /\ m \in Seq(S) /\ b \in Seq(S)
      /\ Len(a) = i - 1 /\ Len(m) = n /\ Len(b) = Len(s) - n - (i - 1)
      /\ \A k \in 1 .. (i - 1) : a[k] = s[k]
      /\ \A k \in 1 .. n : m[k] = s[k + (i - 1)]
      /\ \A k \in 1 .. Len(s) - n - (i - 1) : b[k] = s[k + n + (i - 1)]
  BY Pieces
<1>2. Spliced(s, i, n, new) = Coalesced(a \o new \o b) /\ Total(new) = Total(m)
  BY DEF Spliced
<1>3. Len(s) \in Nat
  OBVIOUS
<1> HIDE DEF a, m, b
<1>4. Total(s) = Total(a) + Total(m) + Total(b)
  <2> DEFINE am == a \o m
             w == am \o b
  <2>1. /\ am \in Seq(S) /\ Len(am) = i - 1 + n /\ Total(am) = Total(a) + Total(m)
        /\ \A k \in 1 .. (i - 1) : am[k] = a[k]
        /\ \A k \in 1 .. n : am[i - 1 + k] = m[k]
    <3>1. am \in Seq(S) /\ Total(am) = Total(a) + Total(m)
      BY <1>1, TotalCat
    <3>2. /\ Len(am) = Len(a) + Len(m)
          /\ \A k \in 1 .. Len(a) : am[k] = a[k]
          /\ \A k \in 1 .. Len(m) : am[Len(a) + k] = m[k]
      <4> HIDE DEF am
      <4> QED
        BY <1>1, Joint DEF am
    <3> HIDE DEF am
    <3> QED
      BY <1>1, <3>1, <3>2
  <2> HIDE DEF am
  <2>2. /\ w \in Seq(S) /\ Len(w) = i - 1 + n + Len(b) /\ Total(w) = Total(am) + Total(b)
        /\ \A k \in 1 .. (i - 1 + n) : w[k] = am[k]
        /\ \A k \in 1 .. Len(b) : w[i - 1 + n + k] = b[k]
    <3>1. w \in Seq(S) /\ Total(w) = Total(am) + Total(b)
      BY <1>1, <2>1, TotalCat
    <3>2. /\ Len(w) = Len(am) + Len(b)
          /\ \A k \in 1 .. Len(am) : w[k] = am[k]
          /\ \A k \in 1 .. Len(b) : w[Len(am) + k] = b[k]
      <4> HIDE DEF w
      <4> QED
        <5>1. am \in Seq(S) /\ b \in Seq(S) /\ w = am \o b
          BY <1>1, <2>1 DEF w
        <5> QED
          BY <5>1, Joint
    <3> HIDE DEF w
    <3> QED
      BY <1>1, <2>1, <3>1, <3>2
  <2> HIDE DEF w
  <2>3. Len(w) = Len(s)
    BY <1>1, <1>3, <2>2
  <2>4. ASSUME NEW k \in 1 .. Len(s) PROVE w[k] = s[k]
    <3>1. CASE k <= i - 1
      <4>1. k \in 1 .. (i - 1) /\ k \in 1 .. (i - 1 + n)
        BY <1>3, <3>1
      <4> QED
        BY <1>1, <2>1, <2>2, <4>1
    <3>2. CASE k > i - 1 /\ k <= i - 1 + n
      <4>1. k - (i - 1) \in 1 .. n /\ k \in 1 .. (i - 1 + n) /\ k = i - 1 + (k - (i - 1))
            /\ k = (k - (i - 1)) + (i - 1)
        BY <1>3, <3>2
      <4>2. w[k] = am[k] /\ am[k] = m[k - (i - 1)]
        BY <2>1, <2>2, <4>1
      <4> QED
        BY <1>1, <4>1, <4>2
    <3>3. CASE k > i - 1 + n
      <4> DEFINE j == k - (i - 1 + n)
      <4>1. j \in 1 .. Len(s) - n - (i - 1) /\ k = i - 1 + n + j /\ j + n + (i - 1) = k
        BY <1>3, <3>3
      <4> HIDE DEF j
      <4>2. w[k] = b[j]
        BY <1>1, <2>2, <4>1
      <4> QED
        BY <1>1, <4>1, <4>2
    <3> QED
      BY <3>1, <3>2, <3>3
  <2>5. Total(w) = Total(s)
    BY <2>2, <2>3, <2>4, TotalSame
  <2> QED
    BY <2>1, <2>2, <2>5
<1>5. a \o new \in Seq(S) /\ Total(a \o new) = Total(a) + Total(new)
  BY <1>1, TotalCat
<1>6. (a \o new) \o b \in Seq(S) /\ Total((a \o new) \o b) = Total(a \o new) + Total(b)
  BY <1>1, <1>5, TotalCat
<1> QED
  BY <1>2, <1>4, <1>5, <1>6, CoalescedAddsUp

\* One region gives way, or two do.
LEMMA OneAddsUp ==
  ASSUME NEW S, Sizable(S), NEW s \in Seq(S), NEW new \in Seq(S), NEW i \in 1 .. Len(s),
         Total(new) = s[i].size
  PROVE  Spliced(s, i, 1, new) \in Seq(S) /\ Total(Spliced(s, i, 1, new)) = Total(s)
<1>1. i \in Nat /\ 1 \in Nat /\ i >= 1 /\ i + 1 - 1 <= Len(s) /\ s[i] \in S
  OBVIOUS
<1> DEFINE m == SubSeq(s, i, i + 1 - 1)
<1>2. m \in Seq(S) /\ Len(m) = 1 /\ m[1] = s[1 + (i - 1)] /\ 1 + (i - 1) = i
  BY <1>1, Pieces
<1> HIDE DEF m
<1>3. << s[i] >> \in Seq(S) /\ Len(<< s[i] >>) = 1 /\ << s[i] >>[1] = s[i]
  BY <1>1
<1>4. \A k \in 1 .. Len(m) : m[k].size = << s[i] >>[k].size
  BY <1>2, <1>3
<1>5. Total(m) = Total(<< s[i] >>)
  BY <1>2, <1>3, <1>4, TotalSame
<1>6. Total(SubSeq(s, i, i + 1 - 1)) = s[i].size
  BY <1>1, <1>5, TotalOne DEF m
<1> QED
  BY <1>1, <1>6, SplicedAddsUp

\* Two elements have the sum of their sizes.
LEMMA TotalTwo ==
  ASSUME NEW S, Sizable(S), NEW q \in S, NEW r \in S
  PROVE  << q, r >> \in Seq(S) /\ Total(<< q, r >>) = q.size + r.size
<1>1. << q >> \in Seq(S) /\ Total(<< q >>) = q.size
  BY TotalOne
<1>2. << q, r >> = Append(<< q >>, r) /\ << q, r >> \in Seq(S)
  OBVIOUS
<1> QED
  BY <1>1, <1>2, TotalAppend

\* Two elements that give way to others of their size leave the total.
LEMMA TwoAddUp ==
  ASSUME NEW S, Sizable(S), NEW s \in Seq(S), NEW new \in Seq(S), NEW i \in 1 .. Len(s),
         i < Len(s), Total(new) = s[i].size + s[i + 1].size
  PROVE  Spliced(s, i, 2, new) \in Seq(S) /\ Total(Spliced(s, i, 2, new)) = Total(s)
<1>1. i \in Nat /\ 2 \in Nat /\ i >= 1 /\ i + 2 - 1 <= Len(s) /\ s[i] \in S /\ s[i + 1] \in S
  OBVIOUS
<1> DEFINE m == SubSeq(s, i, i + 2 - 1)
           p == << s[i], s[i + 1] >>
<1>2. m \in Seq(S) /\ Len(m) = 2 /\ m[1] = s[1 + (i - 1)] /\ m[2] = s[2 + (i - 1)]
      /\ 1 + (i - 1) = i /\ 2 + (i - 1) = i + 1
  BY <1>1, Pieces
<1> HIDE DEF m
<1>3. p \in Seq(S) /\ Len(p) = 2 /\ p[1] = s[i] /\ p[2] = s[i + 1]
  BY <1>1
<1> HIDE DEF p
<1>4. \A k \in 1 .. Len(m) : m[k].size = p[k].size
  BY <1>2, <1>3
<1>5. Total(m) = Total(p)
  BY <1>2, <1>3, <1>4, TotalSame
<1>6. Total(SubSeq(s, i, i + 2 - 1)) = s[i].size + s[i + 1].size
  BY <1>1, <1>5, TotalTwo DEF m, p
<1> QED
  BY <1>1, <1>6, SplicedAddsUp

\* What is left of a region, with what was taken.
LEMMA RestAddsUp ==
  ASSUME NEW S, Sizable(S), NEW q \in S, NEW r \in S, NEW z \in Nat, z <= r.size
  PROVE  << q >> \o Rest(r, z) \in Seq(S) /\ Total(<< q >> \o Rest(r, z)) = q.size + (r.size - z)
<1>0. q.size \in Nat /\ r.size \in Nat
  BY DEF Sizable
<1>1. q.size \in Nat /\ r.size \in Nat /\ r.size - z \in Nat
  BY <1>0
<1>2. CASE z = r.size
  <2>1. Rest(r, z) = << >> /\ << q >> \o << >> = << q >>
    BY <1>2 DEF Rest
  <2>2. << q >> \in Seq(S) /\ Total(<< q >>) = q.size
    BY TotalOne
  <2> QED
    BY <1>1, <1>2, <2>1, <2>2
<1>3. CASE z # r.size
  <2> DEFINE w == WithSize(r, r.size - z)
  <2>1. w \in S /\ w.size = r.size - z
    BY <1>1 DEF Sizable
  <2>2. Rest(r, z) = << w >>
    BY <1>3 DEF Rest
  <2> HIDE DEF w
  <2>3. << q >> \in Seq(S) /\ << w >> \in Seq(S) /\ Total(<< q >>) = q.size /\ Total(<< w >>) = w.size
    BY <2>1, TotalOne
  <2>4. << q >> \o << w >> \in Seq(S) /\ Total(<< q >> \o << w >>) = q.size + w.size
    BY <2>3, TotalCat
  <2> QED
    BY <2>1, <2>2, <2>4
<1> QED
  BY <1>2, <1>3

-----------------------------------------------------------------------------
(* The disks, the lists and the shapes *)

Ops == {op \in [type : Texts, id : Names, size : Nat, remaining : BOOLEAN, fs : Texts, mount : Texts] :
          op.type = "create" => op.fs # ""}

\* A partition is named by its number, and a free region as such.
LEMMA NameIs ==
  ASSUME NEW s \in Seq(Regions), NEW i \in 1 .. Len(s), NEW counted, counted \subseteq DOMAIN s
  PROVE  /\ Name(s, i, counted) \in Names
         /\ ~IsFree(s[i]) => Name(s, i, counted) = Part(s[i].num)
         /\ IsFree(s[i]) => Name(s, i, counted).kind = "free"
<1>1. s[i] \in Regions /\ Len(s) \in Nat /\ DOMAIN s = 1 .. Len(s)
  OBVIOUS
<1> DEFINE F == {j \in counted : j <= i /\ IsFree(s[j])}
<1>2. Cardinality(F) \in Nat
  <2>1. F \in SUBSET (1 .. Len(s))
    BY <1>1
  <2> HIDE DEF F
  <2>2. IsFiniteSet(1 .. Len(s))
    BY <1>1, FS_Interval
  <2>3. IsFiniteSet(F)
    BY <2>1, <2>2, FS_Subset
  <2> QED
    BY <2>3, FS_CardinalityType
<1>3. IsFree(s[i]) => Name(s, i, counted) = [kind |-> "free", n |-> Cardinality(F)]
  BY DEF Name, Free
<1>4. ~IsFree(s[i]) => Name(s, i, counted) = [kind |-> "part", n |-> s[i].num] /\ s[i].num \in Nat
  BY <1>1 DEF Name, Part, Regions
<1> HIDE DEF F
<1> DEFINE name == Name(s, i, counted)
<1> HIDE DEF name
<1>5. CASE IsFree(s[i])
  <2>1. name = [kind |-> "free", n |-> Cardinality(F)]
    BY <1>3, <1>5 DEF name
  <2>2. name \in Names /\ name.kind = "free"
    BY <1>2, <2>1 DEF Names, Texts
  <2> QED
    BY <1>5, <2>2 DEF name
<1>6. CASE ~IsFree(s[i])
  <2>1. name = [kind |-> "part", n |-> s[i].num] /\ s[i].num \in Nat
    BY <1>4, <1>6 DEF name
  <2>2. name \in Names /\ name = Part(s[i].num)
    BY <2>1 DEF Names, Texts, Part
  <2> QED
    BY <1>6, <2>2 DEF name
<1> QED
  BY <1>5, <1>6

\* What is shown of a region.
LEMMA ShownIs ==
  ASSUME NEW s \in Seq(Regions), NEW i \in 1 .. Len(s)
  PROVE  /\ Shown(s, i) \in Entries
         /\ Shown(s, i).fs = s[i].fs /\ Shown(s, i).mount = s[i].mount
         /\ ~IsFree(s[i]) => Shown(s, i).id = Part(s[i].num)
         /\ IsFree(s[i]) => Shown(s, i).id.kind = "free"
<1>1. s[i] \in Regions
  OBVIOUS
<1>2. s[i].fs \in Texts /\ s[i].mount \in Texts /\ s[i].size \in Nat
  BY <1>1 DEF Regions
<1>3. MiB(s[i].size) \in Nat
  BY <1>2 DEF MiB, SectorsPerMiB
<1>4. /\ Name(s, i, DOMAIN s) \in Names
      /\ ~IsFree(s[i]) => Name(s, i, DOMAIN s) = Part(s[i].num)
      /\ IsFree(s[i]) => Name(s, i, DOMAIN s).kind = "free"
  BY NameIs
<1>5. Shown(s, i) = [id |-> Name(s, i, DOMAIN s), fs |-> s[i].fs, size |-> MiB(s[i].size), mount |-> s[i].mount,
                    inner |-> FALSE]
  BY DEF Shown, Entry
<1> QED
  BY <1>2, <1>3, <1>4, <1>5 DEF Entries

\* The list shown, region by region.
Lists(s) ==
  CHOOSE list : list = [n \in 0 .. Len(s) |->
        IF n = 0 THEN <<>>
        ELSE IF Hidden(s[n]) THEN list[n - 1] ELSE Append(list[n - 1], Shown(s, n))]

\* Listed, one step of its recursion at a time.
LEMMA ListTurns ==
  ASSUME NEW s \in Seq(Regions)
  PROVE  /\ Listed(s) = Lists(s)[Len(s)] /\ Lists(s)[0] = << >>
         /\ \A n \in 1 .. Len(s) : Lists(s)[n] = IF Hidden(s[n]) THEN Lists(s)[n - 1]
                                                 ELSE Append(Lists(s)[n - 1], Shown(s, n))
         /\ \A n \in 0 .. Len(s) : Lists(s)[n] \in Seq(Entries)
<1> DEFINE L == Len(s)
           T == Seq(Entries)
           Add(acc, n) == IF Hidden(s[n]) THEN acc ELSE Append(acc, Shown(s, n))
           D == [n \in Nat |-> [acc \in T |-> IF n \in 1 .. L THEN Add(acc, n) ELSE acc]]
<1>0. L \in Nat /\ << >> \in T
  OBVIOUS
<1>1. \A n \in 1 .. L, acc \in T : Add(acc, n) \in T
  BY <1>0, ShownIs
<1> HIDE DEF T, Add
<1>2. D \in [Nat -> [T -> T]]
  BY <1>1
<1>3. \A n \in 1 .. L, acc \in T : D[n][acc] = Add(acc, n)
  BY <1>0
<1> HIDE DEF D
<1>4. PICK h : Turned(h, T, << >>, D, L)
  BY <1>0, <1>2, Turns
<1>5. h \in [0 .. L -> T] /\ h[0] = << >>
      /\ \A n \in 0 .. L : n # 0 => n - 1 \in 0 .. L /\ h[n] = D[n][h[n - 1]]
  BY <1>4 DEF Turned
<1>6. ASSUME NEW n \in 0 .. L, n # 0 PROVE h[n] = Add(h[n - 1], n)
  <2>1. n \in 1 .. L /\ n - 1 \in 0 .. L /\ h[n] = D[n][h[n - 1]]
    BY <1>0, <1>5, <1>6
  <2>2. h[n - 1] \in T
    BY <1>5, <2>1
  <2> QED
    BY <1>3, <2>1, <2>2
<1>7. h = [n \in 0 .. L |-> IF n = 0 THEN << >> ELSE Add(h[n - 1], n)]
  BY <1>5, <1>6
<1>8. Lists(s) = [n \in 0 .. L |-> IF n = 0 THEN << >> ELSE Add(Lists(s)[n - 1], n)]
  <2>1. \E f : f = [n \in 0 .. L |-> IF n = 0 THEN << >> ELSE Add(f[n - 1], n)]
    BY <1>7
  <2> QED
    BY <2>1 DEF Lists, Add
<1>9. Listed(s) = Lists(s)[L]
  BY DEF Listed, Lists
<1>10. /\ Lists(s)[0] = << >>
       /\ \A n \in 1 .. L : Lists(s)[n] = Add(Lists(s)[n - 1], n)
  BY <1>0, <1>8
<1> DEFINE P == {n \in Nat : n <= L => Lists(s)[n] \in T}
<1>11. 0 \in P
  BY <1>0, <1>10
<1>12. ASSUME NEW n \in Nat, n \in P PROVE n + 1 \in P
  <2> SUFFICES ASSUME n + 1 <= L PROVE Lists(s)[n + 1] \in T
    OBVIOUS
  <2>1. n + 1 \in 1 .. L /\ (n + 1) - 1 = n /\ n <= L
    BY <1>0
  <2>2. Lists(s)[n] \in T /\ Lists(s)[n + 1] = Add(Lists(s)[n], n + 1)
    BY <1>10, <1>12, <2>1
  <2> QED
    BY <1>1, <2>1, <2>2
<1> HIDE DEF P
<1>13. \A n \in Nat : n \in P
  BY <1>11, <1>12, Induction
<1>14. \A n \in 0 .. L : Lists(s)[n] \in T
  BY <1>0, <1>13 DEF P
<1> QED
  BY <1>0, <1>9, <1>10, <1>14 DEF Add, T

\* libparted finds a number that is free, and below 5 when there are logical partitions.
LEMMA NextNumberIs ==
  ASSUME table \in Seq(Regions), FreeNumbers # {}
  PROVE  /\ NextNumber \in Nat /\ NextNumber # 0 /\ (extended # 0 => NextNumber <= 4)
         /\ \A i \in 1 .. Len(table) : table[i].num # NextNumber
<1>1. Len(table) \in Nat /\ DOMAIN table = 1 .. Len(table)
  OBVIOUS
<1>2. FreeNumbers \subseteq Nat
  BY <1>1 DEF FreeNumbers
<1>3. \E n \in FreeNumbers : \A m \in FreeNumbers : n <= m
  BY <1>2, LeastNumber
<1>4. NextNumber \in FreeNumbers
  BY <1>3 DEF NextNumber
<1> QED
  BY <1>1, <1>4 DEF FreeNumbers

-----------------------------------------------------------------------------
(* Planning keeps the shapes and the sum *)

\* A new entry is an entry as asked for.
LEMMA NewIs ==
  ASSUME NEW fs \in Texts, NEW size \in Nat, NEW mount \in Texts
  PROVE  /\ New(fs, size, mount) \in Entries
         /\ New(fs, size, mount).size = size /\ New(fs, size, mount).fs = fs
         /\ New(fs, size, mount).mount = mount /\ New(fs, size, mount).id = Unnamed
<1>1. Unnamed \in Names
  BY DEF Unnamed, Names, Texts
<1>2. New(fs, size, mount) = [id |-> Unnamed, fs |-> fs, size |-> size, mount |-> mount, inner |-> FALSE]
  BY DEF New, Entry
<1> QED
  BY <1>1, <1>2 DEF Entries

\* A new free entry is one.
LEMMA NewFree ==
  ASSUME NEW size \in Nat
  PROVE  /\ New("", size, "") \in Entries /\ New("", size, "").size = size
         /\ IsFree(New("", size, "")) /\ New("", size, "").id = Unnamed
<1> DEFINE none == ""
<1>1. none \in Texts
  BY DEF Texts
<1>2. \A fs \in Texts, mount \in Texts :
        /\ New(fs, size, mount) \in Entries /\ New(fs, size, mount).size = size
        /\ New(fs, size, mount).fs = fs /\ New(fs, size, mount).id = Unnamed
  BY NewIs
<1> HIDE DEF none
<1>3. /\ New(none, size, none) \in Entries /\ New(none, size, none).size = size
      /\ New(none, size, none).fs = none /\ New(none, size, none).id = Unnamed
  BY <1>1, <1>2
<1> QED
  BY <1>3 DEF none, IsFree

\* A gap is a free region that was not there before.
LEMMA GapIs ==
  ASSUME NEW r \in Regions, NEW size \in Nat
  PROVE  /\ Gap(r, size) \in Regions /\ Gap(r, size).size = size /\ IsFree(Gap(r, size))
         /\ Gap(r, size).num = 0 /\ Gap(r, size).was = 0
<1>0. r.inner \in BOOLEAN
  BY DEF Regions
<1>8. "" \in Texts
  BY DEF Texts
<1>1. "" \in Texts /\ 0 \in Nat
  BY <1>8
<1>2. Gap(r, size) = [num |-> 0, fs |-> "", size |-> size, mount |-> "", was |-> 0, inner |-> r.inner]
  <2> DEFINE q == Region(0, "", size, "")
  <2>1. q = [num |-> 0, fs |-> "", size |-> size, mount |-> "", was |-> 0, inner |-> FALSE]
    BY DEF Region
  <2>2. Gap(r, size) = [q EXCEPT !.inner = r.inner]
    BY DEF Gap
  <2> HIDE DEF q
  <2> QED
    BY <2>1, <2>2
<1> DEFINE gap == Gap(r, size)
<1> HIDE DEF gap
<1>3. gap = [num |-> 0, fs |-> "", size |-> size, mount |-> "", was |-> 0, inner |-> r.inner]
  BY <1>2 DEF gap
<1>4. gap.size = size /\ gap.fs = "" /\ gap.num = 0 /\ gap.was = 0
  BY <1>3
<1> DEFINE all == [num : Nat, fs : Texts, size : Nat, mount : Texts, was : Nat, inner : BOOLEAN]
<1>5. gap \in all
  BY <1>0, <1>1, <1>3
<1>6. gap.num = 0 <=> gap.fs = ""
  BY <1>4
<1> HIDE DEF all
<1>7. gap \in Regions
  BY <1>5, <1>6 DEF Regions, IsFree, all
<1> QED
  BY <1>4, <1>7 DEF IsFree, gap

\* The free region after the i-th.
LEMMA FreeAfterIs ==
  ASSUME NEW S, Sizable(S), NEW s \in Seq(S), NEW i \in 1 .. Len(s)
  PROVE  /\ FreeAfter(s, i) \in Nat
         /\ FreeAfter(s, i) # 0 => /\ i < Len(s) /\ i + 1 \in 1 .. Len(s) /\ IsFree(s[i + 1])
                                   /\ s[i + 1] \in S /\ s[i + 1].size = FreeAfter(s, i)
<1>1. CASE i < Len(s) /\ IsFree(s[i + 1])
  <2>1. i + 1 \in 1 .. Len(s) /\ s[i + 1] \in S
    BY <1>1
  <2>2. FreeAfter(s, i) = s[i + 1].size
    BY <1>1 DEF FreeAfter
  <2> QED
    BY <1>1, <2>1, <2>2 DEF Sizable
<1>2. CASE ~(i < Len(s) /\ IsFree(s[i + 1]))
  BY <1>2 DEF FreeAfter
<1> QED
  BY <1>1, <1>2

\* A region becomes one of another size, and what it takes or leaves is free.
LEMMA ShrunkAddsUp ==
  ASSUME NEW S, Sizable(S), NEW s \in Seq(S), NEW i \in 1 .. Len(s),
         NEW size \in Nat, size < s[i].size, NEW gap \in S, gap.size = s[i].size - size
  PROVE  LET c == Spliced(s, i, 1, << WithSize(s[i], size), gap >>)
         IN  c \in Seq(S) /\ Total(c) = Total(s)
<1> DEFINE w == WithSize(s[i], size)
<1>1. s[i] \in S
  OBVIOUS
<1>2. w \in S /\ w.size = size /\ s[i].size \in Nat
  BY <1>1 DEF Sizable
<1> HIDE DEF w
<1>3. << w, gap >> \in Seq(S) /\ Total(<< w, gap >>) = size + gap.size
  BY <1>2, TotalTwo
<1>4. size + gap.size = s[i].size
  BY <1>2
<1> QED
  BY <1>3, <1>4, OneAddsUp DEF w

\* An element replaced by one of its size leaves the total.
LEMMA SameAddsUp ==
  ASSUME NEW S, Sizable(S), NEW s \in Seq(S), NEW i \in 1 .. Len(s), NEW r \in S, r.size = s[i].size
  PROVE  Spliced(s, i, 1, << r >>) \in Seq(S) /\ Total(Spliced(s, i, 1, << r >>)) = Total(s)
<1>1. << r >> \in Seq(S) /\ Total(<< r >>) = r.size
  BY TotalOne
<1> QED
  BY <1>1, OneAddsUp

\* What an element grows by is taken from the next.
LEMMA GrownAddsUp ==
  ASSUME NEW S, Sizable(S), NEW s \in Seq(S), NEW i \in 1 .. Len(s), i < Len(s),
         NEW size \in Nat, size >= s[i].size, size - s[i].size <= s[i + 1].size
  PROVE  LET c == Spliced(s, i, 2, << WithSize(s[i], size) >> \o Rest(s[i + 1], size - s[i].size))
         IN  c \in Seq(S) /\ Total(c) = Total(s)
<1> DEFINE w == WithSize(s[i], size)
           z == size - s[i].size
           new == << w >> \o Rest(s[i + 1], z)
<1>1. s[i] \in S /\ s[i + 1] \in S
  OBVIOUS
<1>2. w \in S /\ w.size = size /\ s[i].size \in Nat /\ s[i + 1].size \in Nat
  BY <1>1 DEF Sizable
<1>3. z \in Nat /\ z <= s[i + 1].size
  BY <1>2
<1>4. size + (s[i + 1].size - z) = s[i].size + s[i + 1].size
  BY <1>2
<1> HIDE DEF w, z
<1>5. new \in Seq(S) /\ Total(new) = w.size + (s[i + 1].size - z)
  BY <1>1, <1>2, <1>3, RestAddsUp
<1> HIDE DEF new
<1>6. Spliced(s, i, 2, new) \in Seq(S) /\ Total(Spliced(s, i, 2, new)) = Total(s)
  BY <1>2, <1>4, <1>5, TwoAddUp
<1> QED
  BY <1>6 DEF new, w, z

\* What an element leaves of another stays behind it.
LEMMA FilledAddsUp ==
  ASSUME NEW S, Sizable(S), NEW s \in Seq(S), NEW i \in 1 .. Len(s), NEW r \in S, r.size <= s[i].size
  PROVE  LET c == Spliced(s, i, 1, << r >> \o Rest(s[i], r.size))
         IN  c \in Seq(S) /\ Total(c) = Total(s)
<1>1. s[i] \in S
  OBVIOUS
<1>2. r.size \in Nat /\ s[i].size \in Nat
  BY <1>1 DEF Sizable
<1> DEFINE new == << r >> \o Rest(s[i], r.size)
<1>3. new \in Seq(S) /\ Total(new) = r.size + (s[i].size - r.size)
  BY <1>1, <1>2, RestAddsUp
<1> HIDE DEF new
<1>4. Total(new) = s[i].size
  BY <1>2, <1>3
<1> QED
  BY <1>3, <1>4, OneAddsUp DEF new
-----------------------------------------------------------------------------
\* The list and the table of a plan that is carried out are sequences of entries
\* and regions.
Shapes ==
  /\ parts \in Seq(Entries) /\ listed \in Seq(Entries) /\ plan \in Seq(Ops) /\ done \in Nat
  /\ mode = "manual" => DOMAIN parts = DOMAIN listed
  /\ phase \in {"planning", "partitioning"} => disk \in Seq(Regions)
  /\ phase = "partitioning" => table \in Seq(Regions)

\* A creation on the simulated list leaves the total.
LEMMA CreatedAddsUp ==
  ASSUME parts \in Seq(Entries), NEW i \in DOMAIN parts, NEW size \in Nat, size <= parts[i].size,
         NEW fs \in Texts, NEW mount \in Texts
  PROVE  Created(i, size, fs, mount) \in Seq(Entries) /\ Total(Created(i, size, fs, mount)) = Total(parts)
<1>1. i \in 1 .. Len(parts)
  OBVIOUS
<1> DEFINE r == New(fs, size, mount)
<1>2. r \in Entries /\ r.size = size
  BY NewIs
<1>3. Created(i, size, fs, mount) = Spliced(parts, i, 1, << r >> \o Rest(parts[i], r.size))
  BY <1>2 DEF Created
<1> HIDE DEF r
<1> QED
  BY <1>1, <1>2, <1>3, EntriesSizable, FilledAddsUp

\* A resize on the simulated list leaves the total.
LEMMA ResizedAddsUp ==
  ASSUME parts \in Seq(Entries), NEW i \in DOMAIN parts, NEW size \in Nat,
         size <= parts[i].size + FreeAfter(parts, i)
  PROVE  Resized(i, size) \in Seq(Entries) /\ Total(Resized(i, size)) = Total(parts)
<1> DEFINE r == WithSize(parts[i], size)
           free == FreeAfter(parts, i)
<1>1. i \in 1 .. Len(parts) /\ parts[i] \in Entries
  OBVIOUS
<1>2. r \in Entries /\ r.size = size /\ parts[i].size \in Nat
  BY <1>1, EntriesSizable DEF Sizable
<1>3. /\ free \in Nat
      /\ free # 0 => /\ i < Len(parts) /\ parts[i + 1].size = free
  BY <1>1, EntriesSizable, FreeAfterIs
<1>4. CASE size < parts[i].size
  <2> DEFINE gap == New("", parts[i].size - size, "")
  <2>1. parts[i].size - size \in Nat
    BY <1>2, <1>4
  <2>2. gap \in Entries /\ gap.size = parts[i].size - size
    BY <2>1, NewFree
  <2>3. Resized(i, size) = Spliced(parts, i, 1, << WithSize(parts[i], size), gap >>)
    BY <1>4 DEF Resized
  <2> HIDE DEF gap
  <2> QED
    BY <1>1, <1>4, <2>2, <2>3, EntriesSizable, ShrunkAddsUp
<1>5. CASE ~(size < parts[i].size) /\ free = 0
  <2>1. Resized(i, size) = Spliced(parts, i, 1, << r >>)
    BY <1>5 DEF Resized
  <2>2. size = parts[i].size
    BY <1>2, <1>5
  <2> QED
    BY <1>1, <1>2, <2>1, <2>2, EntriesSizable, SameAddsUp
<1>6. CASE ~(size < parts[i].size) /\ free # 0
  <2>1. Resized(i, size)
          = Spliced(parts, i, 2, << WithSize(parts[i], size) >> \o Rest(parts[i + 1], size - parts[i].size))
    BY <1>6 DEF Resized
  <2>2. i < Len(parts) /\ size >= parts[i].size /\ size - parts[i].size <= parts[i + 1].size
    BY <1>2, <1>3, <1>6
  <2> QED
    BY <1>1, <2>1, <2>2, EntriesSizable, GrownAddsUp
<1> QED
  BY <1>4, <1>5, <1>6

\* A removal on the simulated list leaves the total.
LEMMA RemovedAddsUp ==
  ASSUME parts \in Seq(Entries), NEW i \in DOMAIN parts
  PROVE  LET c == Spliced(parts, i, 1, << New("", parts[i].size, "") >>)
         IN  c \in Seq(Entries) /\ Total(c) = Total(parts)
<1>1. i \in 1 .. Len(parts) /\ parts[i] \in Entries
  OBVIOUS
<1>2. parts[i].size \in Nat
  BY <1>1, EntriesSizable DEF Sizable
<1>3. New("", parts[i].size, "") \in Entries /\ New("", parts[i].size, "").size = parts[i].size
  BY <1>2, NewFree
<1> QED
  BY <1>1, <1>3, EntriesSizable, SameAddsUp

\* A new mount or filesystem of an entry.
LEMMA RelabelledAddsUp ==
  ASSUME parts \in Seq(Entries), NEW i \in DOMAIN parts, NEW v \in Texts
  PROVE  /\ [parts EXCEPT ![i].mount = v] \in Seq(Entries)
         /\ Total([parts EXCEPT ![i].mount = v]) = Total(parts)
         /\ [parts EXCEPT ![i].fs = v] \in Seq(Entries)
         /\ Total([parts EXCEPT ![i].fs = v]) = Total(parts)
<1>1. i \in 1 .. Len(parts) /\ parts[i] \in Entries /\ DOMAIN parts = 1 .. Len(parts)
  OBVIOUS
<1>2. /\ [parts[i] EXCEPT !.mount = v] \in Entries
      /\ [parts[i] EXCEPT !.mount = v].size = parts[i].size
      /\ [parts[i] EXCEPT !.fs = v] \in Entries
      /\ [parts[i] EXCEPT !.fs = v].size = parts[i].size
  BY <1>1 DEF Entries
<1>3. ASSUME NEW e \in Entries, e.size = parts[i].size
      PROVE  [parts EXCEPT ![i] = e] \in Seq(Entries) /\ Total([parts EXCEPT ![i] = e]) = Total(parts)
  <2> DEFINE c == [parts EXCEPT ![i] = e]
  <2>1. c \in Seq(Entries) /\ Len(c) = Len(parts)
    BY <1>1
  <2>2. \A k \in 1 .. Len(c) : c[k].size = parts[k].size
    BY <1>1, <1>3
  <2> HIDE DEF c
  <2> QED
    BY <2>1, <2>2, EntriesSizable, TotalSame DEF c
<1>4. /\ [parts EXCEPT ![i].mount = v] = [parts EXCEPT ![i] = [parts[i] EXCEPT !.mount = v]]
      /\ [parts EXCEPT ![i].fs = v] = [parts EXCEPT ![i] = [parts[i] EXCEPT !.fs = v]]
  BY <1>1
<1> QED
  BY <1>2, <1>3, <1>4

-----------------------------------------------------------------------------
(* The operations keep them too *)

\* The operation at hand is one of the plan.
LEMMA OpIs ==
  ASSUME plan \in Seq(Ops), done \in Nat, done < Len(plan)
  PROVE  /\ todo \in Ops /\ todo.size \in Nat /\ (todo.type = "create" => todo.fs # "") /\ Sectors(todo.size) \in Nat
         /\ todo.fs \in Texts /\ todo.mount \in Texts /\ todo.id \in Names /\ done + 1 \in DOMAIN plan
<1>1. todo \in Ops /\ done + 1 \in DOMAIN plan
  BY DEF todo
<1>2. todo.size \in Nat /\ todo.fs \in Texts /\ todo.mount \in Texts /\ todo.id \in Names
  BY <1>1 DEF Ops
<1>4. todo.type = "create" => todo.fs # ""
  BY <1>1 DEF Ops
<1>3. Sectors(todo.size) \in Nat
  BY <1>2 DEF Sectors, SectorsPerMiB
<1> QED
  BY <1>1, <1>2, <1>3, <1>4

\* The region that Create makes.
Fresh(size) == Region(NextNumber, todo.fs, size, "")

\* The region that an operation creates.
LEMMA FreshIs ==
  ASSUME table \in Seq(Regions), FreeNumbers # {}, todo \in Ops, todo.type = "create", NEW size \in Nat
  PROVE  /\ Fresh(size) \in Regions /\ ~IsFree(Fresh(size)) /\ Fresh(size).size = size /\ Fresh(size).num = NextNumber
         /\ Fresh(size).fs = todo.fs /\ Fresh(size).was = 0
<1>1. NextNumber \in Nat /\ NextNumber # 0
  BY NextNumberIs
<1>2. todo.fs \in Texts /\ todo.fs # "" /\ "" \in Texts
  BY DEF Ops, Texts
<1> DEFINE r == Fresh(size)
<1>3. r = [num |-> NextNumber, fs |-> todo.fs, size |-> size, mount |-> "", was |-> 0, inner |-> FALSE]
  BY DEF Fresh, Region
<1> HIDE DEF r
<1>4. r.size = size /\ r.fs = todo.fs /\ r.num = NextNumber /\ r.was = 0
  BY <1>3
<1>5. r \in Regions /\ ~IsFree(r)
  BY <1>1, <1>2, <1>3, <1>4 DEF Regions, IsFree
<1> QED
  BY <1>4, <1>5 DEF r

\* A creation on the table leaves the total.
LEMMA NewTableAddsUp ==
  ASSUME table \in Seq(Regions), NEW i \in DOMAIN table, todo \in Ops, Sectors(todo.size) \in Nat,
         todo.type = "create", NewTable(i) # << >>
  PROVE  NewTable(i) \in Seq(Regions) /\ Total(NewTable(i)) = Total(table)
<1>1. i \in 1 .. Len(table) /\ table[i] \in Regions
  OBVIOUS
<1>2. table[i].size \in Nat
  BY <1>1, RegionsSizable DEF Sizable
<1> DEFINE size == IF todo.remaining THEN table[i].size ELSE Sectors(todo.size)
           r == Fresh(size)
<1>3. NewTable(i) = IF size > table[i].size \/ table[i].inner \/ FreeNumbers = {} THEN <<>>
                    ELSE Spliced(table, i, 1, << r >> \o Rest(table[i], size))
  BY DEF NewTable, Fresh
<1>4. size \in Nat
  BY <1>2
<1> HIDE DEF size
<1>5. r \in Regions /\ r.size = size
  BY <1>3, <1>4, FreshIs
<1> HIDE DEF r
<1>6. size <= table[i].size /\ NewTable(i) = Spliced(table, i, 1, << r >> \o Rest(table[i], size))
  BY <1>2, <1>3, <1>4
<1> QED
  BY <1>1, <1>5, <1>6, RegionsSizable, FilledAddsUp

\* A resize on the table leaves the total.
LEMMA ResizedTableAddsUp ==
  ASSUME table \in Seq(Regions), NEW i \in DOMAIN table, todo \in Ops, Sectors(todo.size) \in Nat,
         ResizedTable(i) # << >>
  PROVE  ResizedTable(i) \in Seq(Regions) /\ Total(ResizedTable(i)) = Total(table)
<1>1. i \in 1 .. Len(table) /\ table[i] \in Regions
  OBVIOUS
<1> DEFINE r == table[i]
           after == After(i)
           asked == IF todo.remaining THEN r.size + after ELSE Sectors(todo.size)
           size == IF asked > r.size /\ after # 0 /\ table[i + 1].inner # r.inner THEN r.size ELSE asked
           used == IF size > r.size THEN size - r.size ELSE 0
           freed == IF size < r.size THEN << Gap(r, r.size - size) >> ELSE <<>>
<1>2. /\ r.size \in Nat /\ after \in Nat
      /\ after # 0 => i < Len(table) /\ table[i + 1].size = after
  <2>1. r.size \in Nat
    BY <1>1, RegionsSizable DEF Sizable
  <2>2. /\ FreeAfter(table, i) \in Nat
        /\ FreeAfter(table, i) # 0 => i < Len(table) /\ table[i + 1].size = FreeAfter(table, i)
    BY <1>1, RegionsSizable, FreeAfterIs
  <2> QED
    BY <2>1, <2>2 DEF After
<1>3. ResizedTable(i) =
        IF asked > r.size + after THEN <<>>
        ELSE IF used = 0 THEN Spliced(table, i, 1, << WithSize(r, size) >> \o freed)
        ELSE Spliced(table, i, 2, << WithSize(r, size) >> \o Rest(table[i + 1], used))
  BY DEF ResizedTable
<1> HIDE DEF after
<1>10. asked \in Nat
  BY <1>2
<1> HIDE DEF asked
<1>4. size \in Nat
  BY <1>2, <1>10
<1>5. size <= r.size + after
  BY <1>2, <1>3, <1>4, <1>10
<1>11. ~(asked > r.size + after)
  BY <1>3
<1> HIDE DEF size
<1>6. WithSize(r, size) \in Regions /\ WithSize(r, size).size = size
  BY <1>1, <1>4, RegionsSizable DEF Sizable
<1>7. CASE size < r.size
  <2> DEFINE gap == Gap(r, r.size - size)
             w == WithSize(r, size)
  <2>1. used = 0 /\ freed = << gap >>
    BY <1>2, <1>4, <1>7
  <2>2. r.size - size \in Nat
    BY <1>2, <1>4, <1>7
  <2>3. gap \in Regions /\ gap.size = r.size - size
    BY <1>1, <2>2, GapIs
  <2> HIDE DEF gap, w, used, freed
  <2>4. ResizedTable(i) = Spliced(table, i, 1, << w >> \o << gap >>)
    BY <1>2, <1>3, <1>4, <1>5, <1>11, <2>1 DEF w
  <2>5. << w >> \in Seq(Regions) /\ << gap >> \in Seq(Regions)
        /\ Total(<< w >>) = size /\ Total(<< gap >>) = r.size - size
    BY <1>6, <2>3, RegionsSizable, TotalOne DEF w
  <2>6. << w >> \o << gap >> \in Seq(Regions) /\ Total(<< w >> \o << gap >>) = size + (r.size - size)
    BY <2>5, RegionsSizable, TotalCat
  <2>7. size + (r.size - size) = r.size
    BY <1>2, <1>4
  <2> DEFINE new == << w >> \o << gap >>
  <2>8. new \in Seq(Regions) /\ Total(new) = table[i].size /\ ResizedTable(i) = Spliced(table, i, 1, new)
    BY <2>4, <2>6, <2>7
  <2> HIDE DEF new
  <2> QED
    BY <1>1, <2>8, RegionsSizable, OneAddsUp
<1>8. CASE size = r.size
  <2> DEFINE w == WithSize(r, size)
  <2>1. used = 0 /\ freed = << >>
    BY <1>2, <1>8
  <2>2. << w >> \o << >> = << w >>
    OBVIOUS
  <2>3. ResizedTable(i) = Spliced(table, i, 1, << w >>)
    BY <1>2, <1>3, <1>4, <1>5, <1>11, <2>1, <2>2
  <2> HIDE DEF w
  <2>4. w \in Regions /\ w.size = table[i].size
    BY <1>6, <1>8 DEF w
  <2> QED
    BY <1>1, <2>3, <2>4, RegionsSizable, SameAddsUp
<1>9. CASE size > r.size
  <2>1. used = size - r.size /\ used # 0 /\ after # 0
    BY <1>2, <1>4, <1>5, <1>9
  <2>2. ResizedTable(i) = Spliced(table, i, 2, << WithSize(r, size) >> \o Rest(table[i + 1], size - r.size))
    BY <1>2, <1>3, <1>4, <1>5, <1>11, <2>1
  <2>3. i < Len(table) /\ size >= table[i].size /\ size - table[i].size <= table[i + 1].size
    BY <1>2, <1>4, <1>5, <1>9, <2>1
  <2> QED
    BY <1>1, <1>4, <2>2, <2>3, RegionsSizable, GrownAddsUp
<1> QED
  BY <1>2, <1>4, <1>7, <1>8, <1>9

\* A removal on the table leaves the total.
LEMMA RemovedTableAddsUp ==
  ASSUME table \in Seq(Regions), NEW i \in DOMAIN table
  PROVE  Removed(i) \in Seq(Regions) /\ Total(Removed(i)) = Total(table)
<1>1. i \in 1 .. Len(table) /\ table[i] \in Regions
  OBVIOUS
<1>2. table[i].size \in Nat
  BY <1>1, RegionsSizable DEF Sizable
<1>3. Gap(table[i], table[i].size) \in Regions /\ Gap(table[i], table[i].size).size = table[i].size
  BY <1>1, <1>2, GapIs
<1> QED
  BY <1>1, <1>3, RegionsSizable, SameAddsUp DEF Removed

\* Regions with other numbers.
Shifted(c, s, n) ==
  /\ DOMAIN c = DOMAIN s
  /\ \A i \in DOMAIN s :
       /\ c[i].fs = s[i].fs /\ c[i].was = s[i].was /\ s[i].num \in Nat /\ s[i].was \in Nat
       /\ c[i].num = IF Logical(n) /\ s[i].num > n THEN s[i].num - 1 ELSE s[i].num

\* Numbering regions anew changes their numbers only.
LEMMA RenumberedIs ==
  ASSUME NEW s \in Seq(Regions), NEW n \in Nat
  PROVE  Renumbered(s, n) \in Seq(Regions) /\ Total(Renumbered(s, n)) = Total(s) /\ Shifted(Renumbered(s, n), s, n)
<1> DEFINE c == Renumbered(s, n)
<1>6. c = Renumbered(s, n)
  OBVIOUS
<1> HIDE DEF c
<1>1. ASSUME NEW i \in DOMAIN s, Logical(n), s[i].num > n
      PROVE  LET q == Numbered(s[i], s[i].num - 1)
             IN  q \in Regions /\ q.fs = s[i].fs /\ q.was = s[i].was /\ q.size = s[i].size /\ q.num = s[i].num - 1
  <2>1. /\ s[i] \in [num : Nat, fs : Texts, size : Nat, mount : Texts, was : Nat, inner : BOOLEAN]
        /\ s[i].num = 0 <=> IsFree(s[i])
    BY <1>1 DEF Regions
  <2>2. n > 4
    BY <1>1 DEF Logical
  <2>3. s[i].num - 1 \in Nat /\ s[i].num - 1 # 0 /\ s[i].num # 0
    BY <1>1, <2>1, <2>2
  <2> DEFINE q == Numbered(s[i], s[i].num - 1)
             all == [num : Nat, fs : Texts, size : Nat, mount : Texts, was : Nat, inner : BOOLEAN]
  <2>4. q \in all /\ q.fs = s[i].fs /\ q.was = s[i].was /\ q.size = s[i].size /\ q.num = s[i].num - 1
    BY <2>1, <2>3 DEF Numbered
  <2> HIDE DEF q, all
  <2>5. q \in Regions
    BY <2>1, <2>3, <2>4 DEF Regions, IsFree, all
  <2> QED
    BY <2>4, <2>5 DEF q
<1>2. \A i \in DOMAIN s : s[i] \in Regions /\ s[i].num \in Nat /\ s[i].was \in Nat
  BY DEF Regions
<1>3. Len(s) \in Nat /\ DOMAIN s = 1 .. Len(s)
  OBVIOUS
<1> SUFFICES c \in Seq(Regions) /\ Total(c) = Total(s) /\ Shifted(c, s, n)
  BY DEF c
<1>4. CASE ~Logical(n)
  <2>1. c = s
    BY <1>4, <1>6 DEF Renumbered
  <2> QED
    BY <1>2, <1>4, <2>1 DEF Shifted
<1>5. CASE Logical(n)
  <2>1. c = [i \in DOMAIN s |-> IF s[i].num > n THEN Numbered(s[i], s[i].num - 1) ELSE s[i]]
    BY <1>5, <1>6 DEF Renumbered
  <2>2. ASSUME NEW i \in DOMAIN s
        PROVE  /\ c[i] \in Regions /\ c[i].fs = s[i].fs /\ c[i].was = s[i].was /\ c[i].size = s[i].size
               /\ c[i].num = IF Logical(n) /\ s[i].num > n THEN s[i].num - 1 ELSE s[i].num
    <3>1. CASE s[i].num > n
      <4>1. c[i] = Numbered(s[i], s[i].num - 1)
        BY <2>1, <3>1
      <4> QED
        BY <1>1, <1>5, <3>1, <4>1
    <3>2. CASE ~(s[i].num > n)
      <4>1. c[i] = s[i]
        BY <2>1, <3>2
      <4> QED
        BY <1>2, <3>2, <4>1
    <3> QED
      BY <3>1, <3>2
  <2>3. DOMAIN c = 1 .. Len(s) /\ c = [i \in 1 .. Len(s) |-> c[i]]
    BY <1>3, <2>1
  <2>4. c \in Seq(Regions) /\ Len(c) = Len(s)
    BY <1>3, <2>2, <2>3
  <2>5. Total(c) = Total(s)
    <3>1. \A i \in 1 .. Len(c) : c[i].size = s[i].size
      BY <1>3, <2>2, <2>4
    <3> QED
      BY <2>4, <3>1, RegionsSizable, TotalSame
  <2> QED
    BY <1>2, <1>3, <2>2, <2>3, <2>4, <2>5 DEF Shifted
<1> QED
  BY <1>4, <1>5

-----------------------------------------------------------------------------
(* The sizes add up *)

SizesInv == Shapes /\ SizesAddUp

\* At first nothing was changed.
LEMMA SizesInit == DisksAre /\ Init => SizesInv
<1> SUFFICES ASSUME DisksAre, Init PROVE SizesInv
  OBVIOUS
<1>1. disk \in Disks /\ disk \in Seq(Regions)
  BY DEF DisksAre, Init, StorageDevices
<1>2. Listed(disk) \in Seq(Entries)
  <2>1. Len(disk) \in 0 .. Len(disk)
    BY <1>1
  <2> QED
    BY <1>1, <2>1, ListTurns
<1>3. listed \in Seq(Entries) /\ parts = listed /\ plan = << >> /\ done = 0 /\ phase = "planning"
  BY <1>2 DEF Init
<1>4. plan \in Seq(Ops)
  BY <1>3
<1> QED
  BY <1>1, <1>3, <1>4 DEF SizesInv, Shapes, SizesAddUp

\* An operation that is planned and simulated.
LEMMA SimulateAddsUp ==
  ASSUME SizesInv, NEW op \in Ops, NEW i \in DOMAIN parts, NEW s \in Seq(Entries), Total(s) = Total(parts),
         Simulate(op, i, s)
  PROVE  SizesInv'
<1>0. parts[i] \in Entries
  BY DEF SizesInv, Shapes
<1>1. parts[i].id \in Names
  BY <1>0 DEF Entries
<1> DEFINE new == [op EXCEPT !.id = parts[i].id]
<1>2. new \in Ops
  BY <1>1 DEF Ops
<1>3. plan' = Append(plan, new) /\ parts' = s /\ mode = "custom" /\ UNCHANGED <<listed, mode, phase, work>>
  BY DEF Simulate
<1> HIDE DEF new
<1>4. plan' \in Seq(Ops)
  BY <1>2, <1>3 DEF SizesInv, Shapes
<1> QED
  BY <1>3, <1>4 DEF SizesInv, Shapes, SizesAddUp, work

\* What the client may ask for makes operations.
LEMMA PlanningOps ==
  ASSUME ParametersAre
  PROVE  /\ \A z \in Sized : z.size \in Nat /\ z.remaining \in BOOLEAN
         /\ \A fs \in Filesystems : fs \in Texts /\ fs # ""
         /\ \A m \in Mounts : m \in Texts
         /\ \A type \in {"resize", "remove", "mount", "filesystem"} :
              type \in Texts /\ Op(type, Unnamed) \in Ops
<1>1. ASSUME NEW z \in Sized PROVE z.size \in Nat /\ z.remaining \in BOOLEAN
  <2>1. CASE z \in {[size |-> y, remaining |-> FALSE] : y \in Sizes \ {0}}
    <3>1. PICK y \in Sizes : z = [size |-> y, remaining |-> FALSE]
      BY <2>1
    <3> QED
      BY <3>1 DEF ParametersAre
  <2>2. CASE z \in {[size |-> 0, remaining |-> TRUE]}
    <3>1. z = [size |-> 0, remaining |-> TRUE]
      BY <2>2
    <3> QED
      BY <3>1
  <2> QED
    BY <2>1, <2>2 DEF Sized
<1>2. /\ \A fs \in Filesystems : fs \in Texts /\ fs # ""
      /\ \A m \in Mounts : m \in Texts
  BY DEF Filesystems, Mounts, Texts
<1>3. ASSUME NEW type \in {"resize", "remove", "mount", "filesystem"}
      PROVE  type \in Texts /\ Op(type, Unnamed) \in Ops
  <2>1. type \in Texts /\ "" \in Texts /\ Unnamed \in Names
    BY DEF Texts, Unnamed, Names
  <2> DEFINE op == Op(type, Unnamed)
  <2>2. op = [type |-> type, id |-> Unnamed, size |-> 0, remaining |-> FALSE, fs |-> "", mount |-> ""]
    BY DEF Op
  <2> HIDE DEF op
  <2>3. op \in Ops
    BY <2>1, <2>2 DEF Ops
  <2> QED
    BY <2>1, <2>3 DEF op
<1> QED
  BY <1>1, <1>2, <1>3

\* The client asks for a creation.
LEMMA PlanCreateAddsUp ==
  ASSUME SizesInv, ParametersAre, NEW i \in DOMAIN parts, NEW z \in Sized, NEW fs \in Filesystems,
         NEW mount \in Mounts, PlanCreate(i, z, fs, mount)
  PROVE  SizesInv'
<1> DEFINE size == IF z.remaining THEN parts[i].size ELSE z.size
           op == [type |-> "create", id |-> Unnamed, size |-> z.size, remaining |-> z.remaining,
                  fs |-> fs, mount |-> mount]
<1>1. size <= parts[i].size /\ Simulate(op, i, Created(i, size, fs, mount))
  BY DEF PlanCreate
<1>2. parts \in Seq(Entries) /\ parts[i] \in Entries
  BY DEF SizesInv, Shapes
<1>3. parts[i].size \in Nat
  BY <1>2 DEF Entries
<1>4. z.size \in Nat /\ z.remaining \in BOOLEAN /\ fs \in Texts /\ fs # "" /\ mount \in Texts
  BY PlanningOps
<1>5. "create" \in Texts /\ Unnamed \in Names
  BY DEF Texts, Unnamed, Names
<1>6. op \in Ops
  BY <1>4, <1>5 DEF Ops
<1>7. size \in Nat
  BY <1>3, <1>4
<1> HIDE DEF size, op
<1>8. Created(i, size, fs, mount) \in Seq(Entries) /\ Total(Created(i, size, fs, mount)) = Total(parts)
  BY <1>1, <1>2, <1>4, <1>7, CreatedAddsUp
<1> QED
  BY <1>1, <1>6, <1>8, SimulateAddsUp

\* The client asks for a resize.
LEMMA PlanResizeAddsUp ==
  ASSUME SizesInv, ParametersAre, NEW i \in DOMAIN parts, NEW z \in Sized, PlanResize(i, z)
  PROVE  SizesInv'
<1> DEFINE size == IF z.remaining THEN parts[i].size + FreeAfter(parts, i) ELSE z.size
           base == Op("resize", Unnamed)
           op == [base EXCEPT !.size = z.size, !.remaining = z.remaining]
<1>1. size <= parts[i].size + FreeAfter(parts, i) /\ Simulate(op, i, Resized(i, size))
  BY DEF PlanResize
<1>2. parts \in Seq(Entries) /\ parts[i] \in Entries /\ i \in 1 .. Len(parts)
  BY DEF SizesInv, Shapes
<1>3. parts[i].size \in Nat /\ FreeAfter(parts, i) \in Nat
  BY <1>2, EntriesSizable, FreeAfterIs DEF Sizable
<1>4. z.size \in Nat /\ z.remaining \in BOOLEAN /\ base \in Ops
  BY PlanningOps
<1>5. size \in Nat
  BY <1>3, <1>4
<1> HIDE DEF size, base
<1>6. op \in Ops
  BY <1>4 DEF Ops
<1> HIDE DEF op
<1>7. Resized(i, size) \in Seq(Entries) /\ Total(Resized(i, size)) = Total(parts)
  BY <1>1, <1>2, <1>5, ResizedAddsUp
<1> QED
  BY <1>1, <1>6, <1>7, SimulateAddsUp

\* Whatever the client asks for, the sizes add up.
LEMMA PlanningAddsUp ==
  ASSUME SizesInv, ParametersAre, Planning
  PROVE  SizesInv'
<1>0. parts \in Seq(Entries)
  BY DEF SizesInv, Shapes
<1>1. PICK i \in DOMAIN parts :
        \/ \E z \in Sized, fs \in Filesystems, mount \in Mounts : PlanCreate(i, z, fs, mount)
        \/ \E z \in Sized : PlanResize(i, z)
        \/ PlanRemove(i)
        \/ \E mount \in Mounts : PlanMountpoint(i, mount) \/ PlanMount(i, mount)
        \/ \E fs \in Filesystems : PlanFilesystem(i, fs)
  BY DEF Planning
<1>2. CASE \E z \in Sized, fs \in Filesystems, mount \in Mounts : PlanCreate(i, z, fs, mount)
  BY <1>2, PlanCreateAddsUp
<1>3. CASE \E z \in Sized : PlanResize(i, z)
  BY <1>3, PlanResizeAddsUp
<1>4. CASE PlanRemove(i)
  <2> DEFINE op == Op("remove", Unnamed)
             s == Spliced(parts, i, 1, << New("", parts[i].size, "") >>)
  <2>1. op \in Ops
    BY PlanningOps
  <2>2. s \in Seq(Entries) /\ Total(s) = Total(parts)
    BY <1>0, RemovedAddsUp
  <2>3. Simulate(op, i, s)
    BY <1>4 DEF PlanRemove
  <2> HIDE DEF op, s
  <2> QED
    BY <2>1, <2>2, <2>3, SimulateAddsUp
<1>5. ASSUME NEW mount \in Mounts, PlanMountpoint(i, mount) PROVE SizesInv'
  <2> DEFINE base == Op("mount", Unnamed)
             op == [base EXCEPT !.mount = mount]
             s == [parts EXCEPT ![i].mount = mount]
  <2>1. base \in Ops /\ mount \in Texts
    BY PlanningOps
  <2>2. s \in Seq(Entries) /\ Total(s) = Total(parts)
    BY <1>0, <2>1, RelabelledAddsUp
  <2>3. Simulate(op, i, s)
    BY <1>5 DEF PlanMountpoint
  <2> HIDE DEF base, s
  <2>4. op \in Ops
    BY <2>1 DEF Ops
  <2> HIDE DEF op
  <2> QED
    BY <2>2, <2>3, <2>4, SimulateAddsUp
<1>6. ASSUME NEW mount \in Mounts, PlanMount(i, mount) PROVE SizesInv'
  <2> DEFINE base == Op("mount", listed[i].id)
             op == [base EXCEPT !.mount = mount]
             s == [parts EXCEPT ![i].mount = mount]
  <2>1. mount \in Texts
    BY PlanningOps
  <2>2. s \in Seq(Entries) /\ Total(s) = Total(parts)
    BY <1>0, <2>1, RelabelledAddsUp
  <2>3. plan' = Append(plan, op) /\ parts' = s /\ UNCHANGED <<listed, mode, phase, work>>
    BY <1>6 DEF PlanMount
  <2>4. op \in Ops
    <3>1. listed[i].id \in Names
      <4>1. listed \in Seq(Entries) /\ i \in DOMAIN listed
        BY <1>6 DEF PlanMount, SizesInv, Shapes
      <4>2. listed[i] \in Entries
        BY <4>1
      <4> QED
        BY <4>2 DEF Entries
    <3>2. "mount" \in Texts /\ "" \in Texts
      BY DEF Texts
    <3>3. base = [type |-> "mount", id |-> listed[i].id, size |-> 0, remaining |-> FALSE,
                  fs |-> "", mount |-> ""]
      BY DEF Op
    <3> HIDE DEF base
    <3>4. base \in Ops
      BY <3>1, <3>2, <3>3 DEF Ops
    <3> QED
      BY <2>1, <3>4 DEF Ops
  <2>5. DOMAIN s = DOMAIN parts
    OBVIOUS
  <2> HIDE DEF op, s
  <2>6. plan' \in Seq(Ops)
    BY <2>3, <2>4 DEF SizesInv, Shapes
  <2> QED
    BY <2>2, <2>3, <2>5, <2>6 DEF SizesInv, Shapes, SizesAddUp, work
<1>7. ASSUME NEW fs \in Filesystems, PlanFilesystem(i, fs) PROVE SizesInv'
  <2> DEFINE base == Op("filesystem", Unnamed)
             op == [base EXCEPT !.fs = fs]
             s == [parts EXCEPT ![i].fs = fs]
  <2>1. base \in Ops /\ fs \in Texts /\ fs # ""
    BY PlanningOps
  <2>2. s \in Seq(Entries) /\ Total(s) = Total(parts)
    BY <1>0, <2>1, RelabelledAddsUp
  <2>3. Simulate(op, i, s)
    BY <1>7 DEF PlanFilesystem
  <2> HIDE DEF base, s
  <2>4. op \in Ops
    BY <2>1 DEF Ops
  <2> HIDE DEF op
  <2> QED
    BY <2>2, <2>3, <2>4, SimulateAddsUp
<1> QED
  BY <1>1, <1>2, <1>3, <1>4, <1>5, <1>6, <1>7

\* An operation on the table that keeps it full.
Fills(new) ==
  \A i \in DOMAIN table : new[i] # << >> => new[i] \in Seq(Regions) /\ Total(new[i]) = Total(table)

\* An operation whose new tables fill the disk keeps the sizes.
LEMMA OperateAddsUp ==
  ASSUME SizesInv, NEW type, NEW kind, NEW new, NEW k, Operate(type, kind, new, k), Fills(new)
  PROVE  SizesInv'
<1>1. PICK i \in DOMAIN table : new[i] # << >> /\ table' = new[i]
  BY DEF Operate, Positions, Visible
<1>2. phase = "partitioning" /\ done' = done + 1 /\ UNCHANGED <<request, phase, disk, targets, made>>
  BY DEF Operate
<1>3. table' \in Seq(Regions) /\ Total(table') = Total(table)
  BY <1>1 DEF Fills
<1> QED
  BY <1>2, <1>3 DEF SizesInv, Shapes, SizesAddUp, request

\* Each of the worker's operations is such a one.
LEMMA OperationAddsUp ==
  ASSUME SizesInv, Create \/ Resize \/ RemovePartition \/ SetMountpoint \/ SetFilesystem
  PROVE  SizesInv'
<1>1. phase = "partitioning" /\ done < Len(plan)
  BY DEF Create, Resize, RemovePartition, SetMountpoint, SetFilesystem, Operate
<1>2. table \in Seq(Regions) /\ todo \in Ops /\ Sectors(todo.size) \in Nat
  BY <1>1, OpIs DEF SizesInv, Shapes
<1>3. CASE Create
  <2> DEFINE new == [i \in DOMAIN table |-> NewTable(i)]
             k == [mount |-> With(keys.mount, NextNumber, todo.mount),
                   fs |-> With(keys.fs, NextNumber, todo.fs),
                   format |-> keys.format \cup {NextNumber}]
  <2>1. Operate("create", "free", new, k)
    BY <1>3 DEF Create
  <2>2. todo.type = "create"
    BY <2>1 DEF Operate
  <2>3. Fills(new)
    BY <1>2, <2>2, NewTableAddsUp DEF Fills
  <2> HIDE DEF new, k
  <2> QED
    BY <2>1, <2>3, OperateAddsUp
<1>4. CASE Resize
  <2> DEFINE new == [i \in DOMAIN table |-> ResizedTable(i)]
  <2>1. Operate("resize", "part", new, keys)
    BY <1>4 DEF Resize
  <2>2. Fills(new)
    BY <1>2, ResizedTableAddsUp DEF Fills
  <2> HIDE DEF new
  <2> QED
    BY <2>1, <2>2, OperateAddsUp
<1>5. CASE RemovePartition
  <2> DEFINE new == [i \in DOMAIN table |-> Renumbered(Removed(i), table[i].num)]
             k == [mount |-> Minus(keys.mount, todo.id.n), fs |-> Minus(keys.fs, todo.id.n),
                   format |-> keys.format \ {todo.id.n}]
  <2>1. Operate("remove", "part", new, k)
    BY <1>5 DEF RemovePartition
  <2>2. Fills(new)
    <3> SUFFICES ASSUME NEW i \in DOMAIN table
                 PROVE  LET c == Renumbered(Removed(i), table[i].num)
                        IN  c \in Seq(Regions) /\ Total(c) = Total(table)
      BY DEF Fills
    <3>1. Removed(i) \in Seq(Regions) /\ Total(Removed(i)) = Total(table)
      BY <1>2, RemovedTableAddsUp
    <3>2. table[i].num \in Nat
      BY <1>2 DEF Regions
    <3> QED
      BY <3>1, <3>2, RenumberedIs
  <2> HIDE DEF new, k
  <2> QED
    BY <2>1, <2>2, OperateAddsUp
<1>6. CASE SetMountpoint \/ SetFilesystem
  <2> DEFINE new == [i \in DOMAIN table |-> table]
  <2>1. \E type, k : Operate(type, "part", new, k)
    BY <1>6 DEF SetMountpoint, SetFilesystem
  <2>2. Fills(new)
    BY <1>2 DEF Fills
  <2> HIDE DEF new
  <2> QED
    BY <2>1, <2>2, OperateAddsUp
<1> QED
  BY <1>3, <1>4, <1>5, <1>6

\* The sizes add up after every step.
LEMMA SizesStep == ParametersAre /\ SizesInv /\ [Next]_vars => SizesInv'
<1> SUFFICES ASSUME ParametersAre, SizesInv, [Next]_vars PROVE SizesInv'
  OBVIOUS
<1>1. CASE Planning
  BY <1>1, PlanningAddsUp
<1>2. CASE ValidateInstallStorageData
  BY <1>2 DEF ValidateInstallStorageData, SizesInv, Shapes, SizesAddUp, request
<1>3. CASE Create \/ Resize \/ RemovePartition \/ SetMountpoint \/ SetFilesystem
  BY <1>3, OperationAddsUp
<1>4. CASE Commit
  <2>1. phase' \in {"formatting", "failed"} /\ UNCHANGED <<request, table, done, keys, made>>
    BY <1>4 DEF Commit
  <2> QED
    BY <2>1 DEF SizesInv, Shapes, SizesAddUp, request
<1>5. CASE Erase
  <2>1. phase' = "formatting" /\ UNCHANGED <<request, done, keys, made>>
    BY <1>5 DEF Erase
  <2> QED
    BY <2>1 DEF SizesInv, Shapes, SizesAddUp, request
<1>6. CASE Format
  <2>1. phase = "formatting" /\ UNCHANGED <<request, phase, table, done, keys, targets>>
    BY <1>6 DEF Format
  <2> QED
    BY <2>1 DEF SizesInv, Shapes, SizesAddUp, request
<1>7. CASE Formatted \/ Fail
  BY <1>7 DEF Formatted, Fail, SizesInv, Shapes, SizesAddUp, request, work
<1>8. CASE UNCHANGED vars
  BY <1>8 DEF vars, SizesInv, Shapes, SizesAddUp, request, work
<1> QED
  BY <1>1, <1>2, <1>3, <1>4, <1>5, <1>6, <1>7, <1>8 DEF Next

-----------------------------------------------------------------------------
(* A list that keeps the partitions of another *)

\* The partitions of a list, which are not free.
Solid(s) == {i \in DOMAIN s : ~IsFree(s[i])}

\* The partitions of c are the first n of s, one by one.
Embeds(f, c, s, n) ==
  /\ f \in [Solid(c) -> 1 .. n]
  /\ \A k \in Solid(c) : c[k] = s[f[k]]
  /\ \A k, l \in Solid(c) : f[k] = f[l] => k = l
  /\ \A j \in 1 .. n : ~IsFree(s[j]) => \E k \in Solid(c) : f[k] = j

\* Joining one more element keeps the partitions one by one.
LEMMA JoinEmbeds ==
  ASSUME NEW S, Sizable(S), NEW s \in Seq(S), NEW acc \in Seq(S), NEW n \in Nat, n + 1 <= Len(s),
         NEW f, Embeds(f, acc, s, n)
  PROVE  \E g : Embeds(g, Joined(acc, s[n + 1]), s, n + 1)
<1> DEFINE r == s[n + 1]
           c == Joined(acc, r)
<1>0. r \in S
  OBVIOUS
<1>1. /\ f \in [Solid(acc) -> 1 .. n]
      /\ \A k \in Solid(acc) : acc[k] = s[f[k]]
      /\ \A k, l \in Solid(acc) : f[k] = f[l] => k = l
      /\ \A j \in 1 .. n : ~IsFree(s[j]) => \E k \in Solid(acc) : f[k] = j
  BY DEF Embeds
<1> DEFINE L == Len(acc)
<1>2. L \in Nat /\ DOMAIN acc = 1 .. L
  OBVIOUS
<1>3. CASE IsFree(r)
  <2>1. Solid(c) = Solid(acc) /\ \A k \in Solid(acc) : c[k] = acc[k]
    <3>1. CASE acc # << >> /\ IsFree(Last(acc)) /\ Last(acc).inner = r.inner
      <4> DEFINE l == acc[L]
                 z == l.size + r.size
                 w == WithSize(l, z)
                 front == Front(acc)
      <4>1. L # 0 /\ Last(acc) = l /\ l \in S
        BY <1>2, <3>1 DEF Last
      <4>2. l.size \in Nat /\ r.size \in Nat
        BY <1>0, <4>1 DEF Sizable
      <4>3. z \in Nat
        BY <4>2
      <4>6. c = Append(front, w)
        BY <1>3, <3>1, <4>1 DEF Joined
      <4>7. front \in Seq(S) /\ Len(front) = L - 1 /\ \A k \in 1 .. (L - 1) : front[k] = acc[k]
        BY <1>2, <4>1 DEF Front
      <4> HIDE DEF front, z
      <4>4. w \in S /\ w.fs = l.fs
        BY <4>1, <4>3 DEF Sizable
      <4>5. IsFree(w) /\ IsFree(acc[L])
        BY <3>1, <4>1, <4>4 DEF IsFree
      <4> HIDE DEF w, c, l
      <4>12. /\ DOMAIN front = 1 .. (L - 1) /\ L - 1 + 1 = L
        <5> HIDE DEF L
        <5> QED
          BY <1>2, <4>1, <4>7
      <4>13. /\ DOMAIN c = DOMAIN front \cup {Len(front) + 1} /\ c[Len(front) + 1] = w
             /\ \A k \in DOMAIN front : c[k] = front[k]
        BY <4>4, <4>6, <4>7, Appended
      <4>10. \A k \in 1 .. L : k = L \/ k \in 1 .. (L - 1)
        <5> HIDE DEF L
        <5> QED
          BY <1>2, <4>1
      <4>8. DOMAIN c = 1 .. L /\ c[L] = w
        <5> HIDE DEF L
        <5> QED
          BY <1>2, <4>1, <4>7, <4>10, <4>12, <4>13
      <4>9. \A k \in 1 .. (L - 1) : c[k] = acc[k]
        BY <4>7, <4>12, <4>13
      <4>11. \A k \in 1 .. L : ~IsFree(c[k]) \/ ~IsFree(acc[k]) => c[k] = acc[k]
        BY <4>5, <4>8, <4>9, <4>10
      <4> QED
        BY <1>2, <4>8, <4>11 DEF Solid
    <3>2. CASE ~(acc # << >> /\ IsFree(Last(acc)) /\ Last(acc).inner = r.inner)
      <4>1. c = Append(acc, r)
        BY <3>2 DEF Joined
      <4> HIDE DEF c
      <4>2. DOMAIN c = 1 .. (L + 1) /\ c[L + 1] = r /\ \A k \in 1 .. L : c[k] = acc[k]
        BY <1>0, <1>2, <4>1
      <4> QED
        BY <1>2, <1>3, <4>2 DEF Solid
    <3> QED
      BY <3>1, <3>2
  <2> HIDE DEF c
  <2>2. f \in [Solid(c) -> 1 .. (n + 1)]
    BY <1>1, <2>1
  <2>3. \A j \in 1 .. (n + 1) : ~IsFree(s[j]) => \E k \in Solid(c) : f[k] = j
    BY <1>1, <1>3, <2>1
  <2>4. Embeds(f, c, s, n + 1)
    BY <1>1, <2>1, <2>2, <2>3 DEF Embeds
  <2> QED
    BY <2>4 DEF c
<1>4. CASE ~IsFree(r)
  <2>1. c = Append(acc, r)
    BY <1>4 DEF Joined
  <2> HIDE DEF c
  <2>2. DOMAIN c = 1 .. (L + 1) /\ c[L + 1] = r /\ \A k \in 1 .. L : c[k] = acc[k]
    BY <1>0, <1>2, <2>1
  <2>3. Solid(c) = Solid(acc) \cup {L + 1} /\ L + 1 \notin Solid(acc) /\ \A k \in Solid(acc) : c[k] = acc[k]
    BY <1>2, <1>4, <2>2 DEF Solid
  <2> DEFINE g == [k \in Solid(c) |-> IF k = L + 1 THEN n + 1 ELSE f[k]]
  <2>4. /\ g[L + 1] = n + 1 /\ \A k \in Solid(acc) : g[k] = f[k] /\ f[k] \in 1 .. n
        /\ g \in [Solid(c) -> 1 .. (n + 1)]
    BY <1>1, <2>3
  <2> HIDE DEF g
  <2>5. \A k \in Solid(c) : c[k] = s[g[k]]
    BY <1>1, <2>2, <2>3, <2>4
  <2>6. \A k, l \in Solid(c) : g[k] = g[l] => k = l
    BY <1>1, <2>3, <2>4
  <2>7. \A j \in 1 .. (n + 1) : ~IsFree(s[j]) => \E k \in Solid(c) : g[k] = j
    BY <1>1, <2>3, <2>4
  <2>8. Embeds(g, c, s, n + 1)
    BY <2>4, <2>5, <2>6, <2>7 DEF Embeds
  <2> QED
    BY <2>8 DEF c
<1> QED
  BY <1>3, <1>4

\* Coalescing keeps the partitions one by one.
LEMMA CoalescedEmbeds ==
  ASSUME NEW S, Sizable(S), NEW s \in Seq(S)
  PROVE  \E f : Embeds(f, Coalesced(s), s, Len(s))
<1> DEFINE L == Len(s)
           P == {n \in Nat : n <= L => \E f : Embeds(f, Joins(s)[n], s, n)}
<1>0. L \in Nat
  OBVIOUS
<1>1. 0 \in P
  <2>1. Joins(s)[0] = << >> /\ Solid(<< >>) = {}
    BY JoinTurns DEF Solid
  <2> DEFINE f == [k \in {} |-> 0]
  <2>2. Embeds(f, << >>, s, 0)
    BY <2>1 DEF Embeds
  <2> HIDE DEF f
  <2> QED
    BY <2>1, <2>2
<1>2. ASSUME NEW n \in Nat, n \in P PROVE n + 1 \in P
  <2> SUFFICES ASSUME n + 1 <= L PROVE \E f : Embeds(f, Joins(s)[n + 1], s, n + 1)
    OBVIOUS
  <2>1. n + 1 \in 1 .. L /\ n \in 0 .. L /\ (n + 1) - 1 = n /\ n <= L
    BY <1>0
  <2>2. Joins(s)[n] \in Seq(S) /\ Joins(s)[n + 1] = Joined(Joins(s)[n], s[n + 1])
    BY <2>1, JoinTurns
  <2>3. PICK f : Embeds(f, Joins(s)[n], s, n)
    BY <1>2, <2>1
  <2>4. \E g : Embeds(g, Joined(Joins(s)[n], s[n + 1]), s, n + 1)
    BY <2>2, <2>3, JoinEmbeds
  <2> QED
    BY <2>2, <2>4
<1> HIDE DEF P
<1>3. L \in P
  BY <1>0, <1>1, <1>2, Induction
<1> QED
  BY <1>0, <1>3, JoinTurns DEF P

-----------------------------------------------------------------------------
(* A list in which one partition is replaced *)

\* The partitions of c are those of s, but for what became of the i-th.
Replaced(g, c, s, i, r) ==
  /\ g \in [Solid(c) -> DOMAIN s]
  /\ \A k \in Solid(c) : IF g[k] = i THEN c[k] = r ELSE c[k] = s[g[k]]
  /\ \A k, l \in Solid(c) : g[k] = g[l] => k = l
  /\ \A j \in Solid(s) : j # i => \E k \in Solid(c) : g[k] = j
  /\ ~IsFree(r) => \E k \in Solid(c) : g[k] = i

\* What is spliced in is one region, and free ones.
LEMMA SplicedReplaces ==
  ASSUME NEW S, Sizable(S), NEW s \in Seq(S), NEW new \in Seq(S), NEW i \in 1 .. Len(s), NEW n \in 1 .. 2,
         i + n - 1 <= Len(s), n = 2 => IsFree(s[i + 1]),
         Len(new) >= 1, \A j \in 1 .. Len(new) : j # 1 => IsFree(new[j])
  PROVE  \E g : Replaced(g, Spliced(s, i, n, new), s, i, new[1])
<1> DEFINE a == SubSeq(s, 1, i - 1)
           b == SubSeq(s, i + n, Len(s))
           L == Len(s)
           N == Len(new)
           ab == a \o new
           w == ab \o b
           W == Len(w)
<1>1. i \in Nat /\ n \in Nat /\ i >= 1 /\ L \in Nat /\ N \in Nat /\ i <= L /\ (n = 1 \/ n = 2) /\ i + n - 1 <= L
      /\ DOMAIN s = 1 .. L
  OBVIOUS
<1>2. /\ a \in Seq(S) /\ b \in Seq(S) /\ Len(a) = i - 1 /\ Len(b) = L - n - (i - 1)
      /\ \A k \in 1 .. (i - 1) : a[k] = s[k]
      /\ \A k \in 1 .. L - n - (i - 1) : b[k] = s[k + n + (i - 1)]
  BY <1>1, Pieces
<1> HIDE DEF a, b
<1>3. /\ ab \in Seq(S) /\ Len(ab) = Len(a) + Len(new)
      /\ \A k \in 1 .. Len(a) : ab[k] = a[k]
      /\ \A k \in 1 .. Len(new) : ab[Len(a) + k] = new[k]
  <2>1. a \in Seq(S) /\ new \in Seq(S) /\ ab = a \o new
    BY <1>2
  <2> HIDE DEF ab, w
  <2> QED
    BY <2>1, Joint
<1> HIDE DEF ab
<1>4. /\ w \in Seq(S) /\ Len(w) = Len(ab) + Len(b)
      /\ \A k \in 1 .. Len(ab) : w[k] = ab[k]
      /\ \A k \in 1 .. Len(b) : w[Len(ab) + k] = b[k]
  <2> HIDE DEF w
  <2>1. ab \in Seq(S) /\ b \in Seq(S) /\ w = ab \o b
    BY <1>2, <1>3 DEF w
  <2> QED
    BY <2>1, Joint
<1>5. Spliced(s, i, n, new) = Coalesced(w)
  BY DEF Spliced, w, ab, a, b
<1> HIDE DEF w
<1>6. W = i - 1 + N + (L - n - (i - 1)) /\ W \in Nat
  <2>1. W = i - 1 + N + (L - n - (i - 1))
    BY <1>2, <1>3, <1>4
  <2> HIDE DEF L, N, W
  <2> QED
    BY <1>1, <2>1
<1> HIDE DEF L, N, W
<1>7. \A k \in 1 .. (i - 1) : w[k] = s[k] /\ k \in 1 .. L
  BY <1>1, <1>2, <1>3, <1>4 DEF N
<1>8. \A k \in 1 .. N : w[i - 1 + k] = new[k]
  <2> SUFFICES ASSUME NEW k \in 1 .. N PROVE w[i - 1 + k] = new[k]
    OBVIOUS
  <2>1. i - 1 + k \in 1 .. Len(ab)
    BY <1>1, <1>2, <1>3 DEF N
  <2> QED
    BY <1>2, <1>3, <1>4, <2>1 DEF N
<1>9. \A k \in 1 .. L - n - (i - 1) : w[i - 1 + N + k] = s[k + n + (i - 1)]
  <2> SUFFICES ASSUME NEW k \in 1 .. L - n - (i - 1) PROVE w[i - 1 + N + k] = s[k + n + (i - 1)]
    OBVIOUS
  <2>1. k \in 1 .. Len(b) /\ b[k] = s[k + n + (i - 1)] /\ Len(ab) = i - 1 + N
    BY <1>2, <1>3 DEF N
  <2> QED
    BY <1>4, <2>1
\* Where a region of w comes from.
<1> DEFINE from(m) == IF m < i THEN m ELSE IF m = i THEN i ELSE m - N + n
           c == Coalesced(w)
<1>10. ASSUME NEW m \in 1 .. W, ~IsFree(w[m])
       PROVE  /\ from(m) \in 1 .. L
              /\ from(m) = i <=> m = i
              /\ m = i => w[m] = new[1]
              /\ m # i => w[m] = s[from(m)] /\ (m < i \/ m > i - 1 + N)
  <2>1. CASE m < i
    BY <1>1, <1>7, <2>1
  <2>2. CASE m = i
    <3>1. 1 \in 1 .. N /\ i - 1 + 1 = i
      BY <1>1 DEF N
    <3> QED
      BY <1>1, <1>8, <2>2, <3>1 DEF L
  <2>3. CASE m > i /\ m <= i - 1 + N
    <3>1. m - (i - 1) \in 1 .. N /\ m - (i - 1) # 1 /\ i - 1 + (m - (i - 1)) = m
      BY <1>1, <1>6, <2>3
    <3>2. IsFree(new[m - (i - 1)])
      BY <3>1 DEF N
    <3> QED
      BY <1>8, <1>10, <3>1, <3>2
  <2>4. CASE m > i - 1 + N
    <3> DEFINE k == m - (i - 1 + N)
    <3>1. k \in 1 .. L - n - (i - 1) /\ i - 1 + N + k = m /\ from(m) = k + n + (i - 1) /\ from(m) # i
          /\ from(m) \in 1 .. L /\ m # i
      BY <1>1, <1>6, <2>4 DEF N
    <3> HIDE DEF k
    <3> QED
      BY <1>9, <2>4, <3>1
  <2> QED
    BY <1>1, <1>6, <2>1, <2>2, <2>3, <2>4
<1>11. PICK f : Embeds(f, c, w, W)
  BY <1>4, CoalescedEmbeds DEF W
<1>12. /\ f \in [Solid(c) -> 1 .. W]
       /\ \A k \in Solid(c) : c[k] = w[f[k]]
       /\ \A k, l \in Solid(c) : f[k] = f[l] => k = l
       /\ \A j \in 1 .. W : ~IsFree(w[j]) => \E k \in Solid(c) : f[k] = j
  BY <1>11 DEF Embeds
<1>13. \A k \in Solid(c) : f[k] \in 1 .. W /\ ~IsFree(w[f[k]])
  BY <1>12 DEF Solid
<1> HIDE DEF c
<1> DEFINE g == [k \in Solid(c) |-> from(f[k])]
<1>14. g \in [Solid(c) -> 1 .. L]
  BY <1>10, <1>13
<1>15. \A k \in Solid(c) : IF g[k] = i THEN c[k] = new[1] ELSE c[k] = s[g[k]]
  BY <1>10, <1>12, <1>13
<1>16. \A k, l \in Solid(c) : g[k] = g[l] => k = l
  <2> SUFFICES ASSUME NEW k \in Solid(c), NEW l \in Solid(c), from(f[k]) = from(f[l]) PROVE f[k] = f[l]
    BY <1>12
  <2> DEFINE p == f[k]
             q == f[l]
  <2>1. /\ p \in 1 .. W /\ (p = i \/ p < i \/ p > i - 1 + N) /\ (from(p) = i <=> p = i)
        /\ q \in 1 .. W /\ (q = i \/ q < i \/ q > i - 1 + N) /\ (from(q) = i <=> q = i)
    BY <1>10, <1>13
  <2> HIDE DEF p, q
  <2>2. from(p) = from(q)
    BY DEF p, q
  <2>3. p = q
    BY <1>1, <1>6, <2>1, <2>2
  <2> QED
    BY <2>3 DEF p, q
<1>17. ASSUME NEW j \in Solid(s), j # i PROVE \E k \in Solid(c) : g[k] = j
  <2>1. j \in 1 .. L /\ ~IsFree(s[j]) /\ (n = 2 => j # i + 1)
    BY <1>1 DEF Solid
  <2> DEFINE m == IF j < i THEN j ELSE j - n + N
  <2>2. m \in 1 .. W /\ w[m] = s[j] /\ from(m) = j
    <3>1. CASE j < i
      <4>1. j \in 1 .. (i - 1) /\ m = j /\ j \in 1 .. W
        BY <1>1, <1>6, <2>1, <3>1
      <4> QED
        BY <1>7, <3>1, <4>1
    <3>2. CASE j > i
      <4> DEFINE k == j - n - (i - 1)
      <4>1. k \in 1 .. L - n - (i - 1) /\ m = i - 1 + N + k /\ j = k + n + (i - 1) /\ m \in 1 .. W /\ m > i
            /\ m - N + n = j
        BY <1>1, <1>6, <1>17, <2>1, <3>2 DEF N
      <4>2. w[m] = s[j]
        BY <1>9, <4>1
      <4> HIDE DEF m, k
      <4> QED
        BY <1>1, <4>1, <4>2
    <3> QED
      BY <1>1, <1>17, <2>1, <3>1, <3>2
  <2> HIDE DEF m
  <2>3. PICK k \in Solid(c) : f[k] = m
    BY <1>12, <2>1, <2>2
  <2> QED
    BY <2>2, <2>3
<1>18. ~IsFree(new[1]) => \E k \in Solid(c) : g[k] = i
  <2> SUFFICES ASSUME ~IsFree(new[1]) PROVE \E k \in Solid(c) : g[k] = i
    OBVIOUS
  <2>1. 1 \in 1 .. N /\ i - 1 + 1 = i /\ i \in 1 .. W
    BY <1>1, <1>6 DEF N
  <2>2. w[i] = new[1]
    BY <1>8, <2>1
  <2>3. PICK k \in Solid(c) : f[k] = i
    BY <1>12, <2>1, <2>2
  <2>4. from(i) = i
    BY <1>1
  <2> QED
    BY <2>3, <2>4
<1> HIDE DEF g
<1>19. Replaced(g, c, s, i, new[1])
  BY <1>1, <1>14, <1>15, <1>16, <1>17, <1>18 DEF Replaced
<1> QED
  BY <1>5, <1>19 DEF c

-----------------------------------------------------------------------------
(* What the operations on a list replace *)

\* A region followed by free ones.
Leads(new, r) == Len(new) >= 1 /\ new[1] = r /\ \A j \in 1 .. Len(new) : j # 1 => IsFree(new[j])

\* A list of one element leads with it.
LEMMA LeadsOne == ASSUME NEW S, NEW r \in S PROVE << r >> \in Seq(S) /\ Leads(<< r >>, r)
<1>1. << r >> \in Seq(S) /\ Len(<< r >>) = 1 /\ << r >>[1] = r
  OBVIOUS
<1> QED
  BY <1>1 DEF Leads

\* So does one with a free element behind it.
LEMMA LeadsTwo ==
  ASSUME NEW S, NEW r \in S, NEW q \in S, IsFree(q)
  PROVE  << r, q >> \in Seq(S) /\ Leads(<< r, q >>, r) /\ << r >> \o << q >> = << r, q >>
<1> DEFINE p == << r, q >>
           t == << r >> \o << q >>
<1>1. p \in Seq(S) /\ Len(p) = 2 /\ p[1] = r /\ p[2] = q
  OBVIOUS
<1>2. << r >> \in Seq(S) /\ << q >> \in Seq(S) /\ Len(<< r >>) = 1 /\ Len(<< q >>) = 1
      /\ << r >>[1] = r /\ << q >>[1] = q
  OBVIOUS
<1>3. t \in Seq(S) /\ Len(t) = 2 /\ t[1] = r /\ t[2] = q
  <2> DEFINE x == << r >>
             y == << q >>
  <2>1. x \in Seq(S) /\ y \in Seq(S) /\ t = x \o y
    BY <1>2
  <2>3. Len(x) = 1 /\ Len(y) = 1 /\ x[1] = r /\ y[1] = q
    BY <1>2
  <2> HIDE DEF x, y, t
  <2>2. t \in Seq(S) /\ Len(t) = Len(x) + Len(y)
        /\ (\A k \in 1 .. Len(x) : t[k] = x[k]) /\ (\A k \in 1 .. Len(y) : t[Len(x) + k] = y[k])
    BY <2>1, Joint
  <2> QED
    BY <2>2, <2>3
<1> HIDE DEF p, t
<1>4. DOMAIN p = 1 .. 2 /\ DOMAIN t = 1 .. 2 /\ \A j \in 1 .. 2 : j = 1 \/ j = 2
  BY <1>1, <1>3
<1>5. t = p
  <2>1. p = [j \in 1 .. 2 |-> p[j]] /\ t = [j \in 1 .. 2 |-> t[j]]
    BY <1>1, <1>3, <1>4
  <2>2. \A j \in 1 .. 2 : p[j] = t[j]
    BY <1>1, <1>3, <1>4
  <2> QED
    BY <2>1, <2>2
<1>6. Leads(p, r)
  BY <1>1, <1>4 DEF Leads
<1> QED
  BY <1>1, <1>5, <1>6 DEF p, t

\* So does one with what is left of a free element behind it.
LEMMA LeadsRest ==
  ASSUME NEW S, Sizable(S), NEW r \in S, NEW q \in S, IsFree(q), NEW z \in Nat, z <= q.size
  PROVE  << r >> \o Rest(q, z) \in Seq(S) /\ Leads(<< r >> \o Rest(q, z), r)
<1>1. q.size \in Nat
  BY DEF Sizable
<1>2. CASE z = q.size
  <2>1. Rest(q, z) = << >> /\ << r >> \o << >> = << r >>
    BY <1>2 DEF Rest
  <2> QED
    BY <2>1, LeadsOne
<1>3. CASE z # q.size
  <2> DEFINE y == q.size - z
             w == WithSize(q, y)
  <2>1. y \in Nat
    BY <1>1
  <2>2. Rest(q, z) = << w >>
    BY <1>3 DEF Rest
  <2> HIDE DEF y
  <2>3. w \in S /\ IsFree(w)
    BY <2>1 DEF Sizable, IsFree
  <2> HIDE DEF w
  <2> QED
    BY <2>2, <2>3, LeadsTwo
<1> QED
  BY <1>2, <1>3

\* A splice of one element replaces it by what the new list leads with.
LEMMA OneReplaces ==
  ASSUME NEW S, Sizable(S), NEW s \in Seq(S), NEW new \in Seq(S), NEW i \in 1 .. Len(s), NEW r, Leads(new, r)
  PROVE  \E g : Replaced(g, Spliced(s, i, 1, new), s, i, r)
<1>1. 1 \in 1 .. 2 /\ i + 1 - 1 <= Len(s)
  OBVIOUS
<1>2. Len(new) >= 1 /\ new[1] = r /\ \A j \in 1 .. Len(new) : j # 1 => IsFree(new[j])
  BY DEF Leads
<1>3. \E g : Replaced(g, Spliced(s, i, 1, new), s, i, new[1])
  BY <1>1, <1>2, SplicedReplaces
<1> QED
  BY <1>2, <1>3

\* So does a splice that takes the free element behind it too.
LEMMA TwoReplace ==
  ASSUME NEW S, Sizable(S), NEW s \in Seq(S), NEW new \in Seq(S), NEW i \in 1 .. Len(s), i < Len(s),
         IsFree(s[i + 1]), NEW r, Leads(new, r)
  PROVE  \E g : Replaced(g, Spliced(s, i, 2, new), s, i, r)
<1>1. 2 \in 1 .. 2 /\ i + 2 - 1 <= Len(s)
  OBVIOUS
<1>2. Len(new) >= 1 /\ new[1] = r /\ \A j \in 1 .. Len(new) : j # 1 => IsFree(new[j])
  BY DEF Leads
<1>3. \E g : Replaced(g, Spliced(s, i, 2, new), s, i, new[1])
  BY <1>1, <1>2, SplicedReplaces
<1> QED
  BY <1>2, <1>3

\* A creation puts the new entry for the free one.
LEMMA CreatedReplaces ==
  ASSUME parts \in Seq(Entries), NEW i \in DOMAIN parts, IsFree(parts[i]),
         NEW size \in Nat, size <= parts[i].size, NEW fs \in Texts, NEW mount \in Texts
  PROVE  \E g : Replaced(g, Created(i, size, fs, mount), parts, i, New(fs, size, mount))
<1>1. i \in 1 .. Len(parts) /\ parts[i] \in Entries
  OBVIOUS
<1> DEFINE r == New(fs, size, mount)
           new == << r >> \o Rest(parts[i], size)
<1>2. r \in Entries
  BY NewIs
<1>3. Created(i, size, fs, mount) = Spliced(parts, i, 1, new)
  BY DEF Created
<1> HIDE DEF r
<1>4. new \in Seq(Entries) /\ Leads(new, r)
  BY <1>1, <1>2, EntriesSizable, LeadsRest
<1> HIDE DEF new
<1>5. \E g : Replaced(g, Spliced(parts, i, 1, new), parts, i, r)
  BY <1>1, <1>4, EntriesSizable, OneReplaces
<1> QED
  BY <1>3, <1>5 DEF r

\* A resize puts the partition with its new size.
LEMMA ResizedReplaces ==
  ASSUME parts \in Seq(Entries), NEW i \in DOMAIN parts, NEW size \in Nat,
         size <= parts[i].size + FreeAfter(parts, i)
  PROVE  \E g : Replaced(g, Resized(i, size), parts, i, WithSize(parts[i], size))
<1> DEFINE r == WithSize(parts[i], size)
           free == FreeAfter(parts, i)
<1>1. i \in 1 .. Len(parts) /\ parts[i] \in Entries
  OBVIOUS
<1>2. r \in Entries /\ parts[i].size \in Nat
  BY <1>1, EntriesSizable DEF Sizable
<1>3. /\ free \in Nat
      /\ free # 0 => /\ i < Len(parts) /\ parts[i + 1].size = free /\ IsFree(parts[i + 1])
                     /\ parts[i + 1] \in Entries
  BY <1>1, EntriesSizable, FreeAfterIs
<1>4. CASE size < parts[i].size
  <2> DEFINE gap == New("", parts[i].size - size, "")
             new == << r, gap >>
  <2>1. parts[i].size - size \in Nat
    BY <1>2, <1>4
  <2>2. gap \in Entries /\ IsFree(gap)
    BY <2>1, NewFree
  <2>3. Resized(i, size) = Spliced(parts, i, 1, new)
    BY <1>4 DEF Resized
  <2> HIDE DEF gap, r
  <2>4. new \in Seq(Entries) /\ Leads(new, r)
    BY <1>2, <2>2, LeadsTwo
  <2> HIDE DEF new
  <2>5. \E g : Replaced(g, Spliced(parts, i, 1, new), parts, i, r)
    BY <1>1, <2>4, EntriesSizable, OneReplaces
  <2> QED
    BY <2>3, <2>5 DEF r
<1>5. CASE ~(size < parts[i].size) /\ free = 0
  <2>1. Resized(i, size) = Spliced(parts, i, 1, << r >>)
    BY <1>5 DEF Resized
  <2> HIDE DEF r
  <2>2. << r >> \in Seq(Entries) /\ Leads(<< r >>, r)
    BY <1>2, LeadsOne
  <2>3. \E g : Replaced(g, Spliced(parts, i, 1, << r >>), parts, i, r)
    BY <1>1, <2>2, EntriesSizable, OneReplaces
  <2> QED
    BY <2>1, <2>3 DEF r
<1>6. CASE ~(size < parts[i].size) /\ free # 0
  <2> DEFINE z == size - parts[i].size
             new == << r >> \o Rest(parts[i + 1], z)
  <2>1. Resized(i, size) = Spliced(parts, i, 2, new)
    BY <1>6 DEF Resized
  <2>2. z \in Nat /\ z <= parts[i + 1].size
    BY <1>2, <1>3, <1>6
  <2> HIDE DEF r, z
  <2>3. new \in Seq(Entries) /\ Leads(new, r)
    BY <1>2, <1>3, <1>6, <2>2, EntriesSizable, LeadsRest
  <2> HIDE DEF new
  <2>4. \E g : Replaced(g, Spliced(parts, i, 2, new), parts, i, r)
    BY <1>1, <1>3, <1>6, <2>3, EntriesSizable, TwoReplace
  <2> QED
    BY <2>1, <2>4 DEF r
<1> QED
  BY <1>4, <1>5, <1>6

\* A removal puts free space.
LEMMA RemovedReplaces ==
  ASSUME parts \in Seq(Entries), NEW i \in DOMAIN parts
  PROVE  LET r == New("", parts[i].size, "")
         IN  IsFree(r) /\ \E g : Replaced(g, Spliced(parts, i, 1, << r >>), parts, i, r)
<1>1. i \in 1 .. Len(parts) /\ parts[i] \in Entries
  OBVIOUS
<1>2. parts[i].size \in Nat
  BY <1>1, EntriesSizable DEF Sizable
<1> DEFINE r == New("", parts[i].size, "")
<1>3. r \in Entries /\ IsFree(r)
  BY <1>2, NewFree
<1> HIDE DEF r
<1>4. << r >> \in Seq(Entries) /\ Leads(<< r >>, r)
  BY <1>3, LeadsOne
<1>5. \E g : Replaced(g, Spliced(parts, i, 1, << r >>), parts, i, r)
  BY <1>1, <1>4, EntriesSizable, OneReplaces
<1> QED
  BY <1>3, <1>5 DEF r

\* A partition that is changed in its place.
LEMMA ChangedReplaces ==
  ASSUME parts \in Seq(Entries), NEW i \in DOMAIN parts, ~IsFree(parts[i]), NEW e, ~IsFree(e)
  PROVE  \E g : Replaced(g, [parts EXCEPT ![i] = e], parts, i, e)
<1> DEFINE c == [parts EXCEPT ![i] = e]
           g == [k \in Solid(c) |-> k]
<1>1. DOMAIN c = DOMAIN parts /\ c[i] = e /\ \A k \in DOMAIN parts : k # i => c[k] = parts[k]
  OBVIOUS
<1> HIDE DEF c
<1>2. Solid(c) = Solid(parts) /\ i \in Solid(parts) /\ Solid(parts) \subseteq DOMAIN parts
  BY <1>1 DEF Solid
<1>3. Replaced(g, c, parts, i, e)
  BY <1>1, <1>2 DEF Replaced
<1> HIDE DEF g
<1> QED
  BY <1>3 DEF c

\* A creation on the table puts the fresh region for the free one.
LEMMA NewTableReplaces ==
  ASSUME table \in Seq(Regions), NEW i \in DOMAIN table, IsFree(table[i]), todo \in Ops,
         todo.type = "create", Sectors(todo.size) \in Nat, NewTable(i) # << >>
  PROVE  FreeNumbers # {} /\ \E size \in Nat : \E g : Replaced(g, NewTable(i), table, i, Fresh(size))
<1>1. i \in 1 .. Len(table) /\ table[i] \in Regions
  OBVIOUS
<1>2. table[i].size \in Nat
  BY <1>1, RegionsSizable DEF Sizable
<1> DEFINE size == IF todo.remaining THEN table[i].size ELSE Sectors(todo.size)
           r == Fresh(size)
           new == << r >> \o Rest(table[i], size)
<1>3. NewTable(i) = IF size > table[i].size \/ table[i].inner \/ FreeNumbers = {} THEN <<>>
                    ELSE Spliced(table, i, 1, new)
  BY DEF NewTable, Fresh
<1>4. size \in Nat
  BY <1>2
<1> HIDE DEF size
<1>9. FreeNumbers # {}
  BY <1>3
<1>5. r \in Regions
  BY <1>4, <1>9, FreshIs
<1> HIDE DEF r
<1>6. size <= table[i].size /\ NewTable(i) = Spliced(table, i, 1, new)
  BY <1>2, <1>3, <1>4
<1>7. new \in Seq(Regions) /\ Leads(new, r)
  BY <1>1, <1>4, <1>5, <1>6, RegionsSizable, LeadsRest
<1> HIDE DEF new
<1>8. \E g : Replaced(g, Spliced(table, i, 1, new), table, i, r)
  BY <1>1, <1>7, RegionsSizable, OneReplaces
<1> QED
  BY <1>4, <1>6, <1>8, <1>9 DEF r

\* A resize on the table puts the partition with its new size.
LEMMA ResizedTableReplaces ==
  ASSUME table \in Seq(Regions), NEW i \in DOMAIN table, todo \in Ops, Sectors(todo.size) \in Nat,
         ResizedTable(i) # << >>
  PROVE  \E size \in Nat : \E g : Replaced(g, ResizedTable(i), table, i, WithSize(table[i], size))
<1>1. i \in 1 .. Len(table) /\ table[i] \in Regions
  OBVIOUS
<1> DEFINE r == table[i]
           after == After(i)
           asked == IF todo.remaining THEN r.size + after ELSE Sectors(todo.size)
           size == IF asked > r.size /\ after # 0 /\ table[i + 1].inner # r.inner THEN r.size ELSE asked
           used == IF size > r.size THEN size - r.size ELSE 0
           freed == IF size < r.size THEN << Gap(r, r.size - size) >> ELSE <<>>
           w == WithSize(r, size)
<1>2. /\ r.size \in Nat /\ after \in Nat
      /\ after # 0 => /\ i < Len(table) /\ table[i + 1].size = after /\ IsFree(table[i + 1])
                      /\ table[i + 1] \in Regions
  <2>1. r.size \in Nat
    BY <1>1, RegionsSizable DEF Sizable
  <2>2. /\ FreeAfter(table, i) \in Nat
        /\ FreeAfter(table, i) # 0 =>
             /\ i < Len(table) /\ table[i + 1].size = FreeAfter(table, i) /\ IsFree(table[i + 1])
             /\ table[i + 1] \in Regions
    BY <1>1, RegionsSizable, FreeAfterIs
  <2> QED
    BY <2>1, <2>2 DEF After
<1>3. ResizedTable(i) =
        IF asked > r.size + after THEN <<>>
        ELSE IF used = 0 THEN Spliced(table, i, 1, << w >> \o freed)
        ELSE Spliced(table, i, 2, << w >> \o Rest(table[i + 1], used))
  BY DEF ResizedTable
<1> HIDE DEF after
<1>10. asked \in Nat
  BY <1>2
<1> HIDE DEF asked
<1>4. size \in Nat
  BY <1>2, <1>10
<1>5. size <= r.size + after
  BY <1>2, <1>3, <1>4, <1>10
<1>11. ~(asked > r.size + after)
  BY <1>3
<1> HIDE DEF size
<1>6. w \in Regions
  BY <1>1, <1>4, RegionsSizable DEF Sizable
<1>7. CASE size < r.size
  <2> DEFINE gap == Gap(r, r.size - size)
             new == << w, gap >>
  <2>1. used = 0 /\ freed = << gap >>
    BY <1>2, <1>4, <1>7
  <2>2. r.size - size \in Nat
    BY <1>2, <1>4, <1>7
  <2>3. gap \in Regions /\ IsFree(gap)
    BY <1>1, <2>2, GapIs
  <2> HIDE DEF gap, w, used, freed
  <2>4. new \in Seq(Regions) /\ Leads(new, w) /\ << w >> \o << gap >> = new
    BY <1>6, <2>3, LeadsTwo
  <2>5. ResizedTable(i) = Spliced(table, i, 1, << w >> \o << gap >>)
    BY <1>2, <1>3, <1>4, <1>5, <1>11, <2>1
  <2> HIDE DEF new
  <2>6. \E g : Replaced(g, Spliced(table, i, 1, new), table, i, w)
    BY <1>1, <2>4, RegionsSizable, OneReplaces
  <2> QED
    BY <1>4, <2>4, <2>5, <2>6 DEF w
<1>8. CASE size = r.size
  <2>1. used = 0 /\ freed = << >>
    BY <1>2, <1>8
  <2> HIDE DEF w
  <2>2. << w >> \o << >> = << w >>
    OBVIOUS
  <2>3. ResizedTable(i) = Spliced(table, i, 1, << w >>)
    BY <1>2, <1>3, <1>4, <1>5, <1>11, <2>1, <2>2
  <2>4. << w >> \in Seq(Regions) /\ Leads(<< w >>, w)
    BY <1>6, LeadsOne
  <2>5. \E g : Replaced(g, Spliced(table, i, 1, << w >>), table, i, w)
    BY <1>1, <2>4, RegionsSizable, OneReplaces
  <2> QED
    BY <1>4, <2>3, <2>5 DEF w
<1>9. CASE size > r.size
  <2> DEFINE new == << w >> \o Rest(table[i + 1], used)
  <2>1. used = size - r.size /\ used # 0 /\ after # 0
    BY <1>2, <1>4, <1>5, <1>9
  <2>2. used \in Nat /\ used <= table[i + 1].size
    BY <1>2, <1>4, <1>5, <1>9, <2>1
  <2> HIDE DEF w, used
  <2>3. ResizedTable(i) = Spliced(table, i, 2, new)
    BY <1>2, <1>3, <1>4, <1>5, <1>11, <2>1
  <2>4. new \in Seq(Regions) /\ Leads(new, w)
    BY <1>2, <1>6, <2>1, <2>2, RegionsSizable, LeadsRest
  <2> HIDE DEF new
  <2>5. \E g : Replaced(g, Spliced(table, i, 2, new), table, i, w)
    BY <1>1, <1>2, <2>1, <2>4, RegionsSizable, TwoReplace
  <2> QED
    BY <1>4, <2>3, <2>5 DEF w
<1> QED
  BY <1>2, <1>4, <1>7, <1>8, <1>9

\* A removal on the table puts a gap.
LEMMA RemovedTableReplaces ==
  ASSUME table \in Seq(Regions), NEW i \in DOMAIN table
  PROVE  LET r == Gap(table[i], table[i].size)
         IN  IsFree(r) /\ \E g : Replaced(g, Removed(i), table, i, r)
<1>1. i \in 1 .. Len(table) /\ table[i] \in Regions
  OBVIOUS
<1>2. table[i].size \in Nat
  BY <1>1, RegionsSizable DEF Sizable
<1> DEFINE r == Gap(table[i], table[i].size)
<1>3. r \in Regions /\ IsFree(r)
  BY <1>1, <1>2, GapIs
<1>4. Removed(i) = Spliced(table, i, 1, << r >>)
  BY DEF Removed
<1> HIDE DEF r
<1>5. << r >> \in Seq(Regions) /\ Leads(<< r >>, r)
  BY <1>3, LeadsOne
<1>6. \E g : Replaced(g, Spliced(table, i, 1, << r >>), table, i, r)
  BY <1>1, <1>5, RegionsSizable, OneReplaces
<1> QED
  BY <1>3, <1>4, <1>6 DEF r

-----------------------------------------------------------------------------
(* What is listed shows the disk *)

\* The entries of a list are what is shown of the first n regions, of each at most once.
Shows(f, l, s, n) ==
  /\ f \in [DOMAIN l -> 1 .. n]
  /\ \A k \in DOMAIN l : l[k] = Shown(s, f[k])
  /\ \A j, k \in DOMAIN l : f[j] = f[k] => j = k

\* One more region is shown, unless it is hidden.
LEMMA OneMoreShown ==
  ASSUME NEW s \in Seq(Regions), NEW l \in Seq(Entries), NEW n \in Nat, n + 1 <= Len(s), NEW f, Shows(f, l, s, n)
  PROVE  \E g : Shows(g, Append(l, Shown(s, n + 1)), s, n + 1)
<1> DEFINE e == Shown(s, n + 1)
           c == Append(l, e)
           g == [k \in DOMAIN c |-> IF k = Len(l) + 1 THEN n + 1 ELSE f[k]]
<1>1. n + 1 \in 1 .. Len(s)
  OBVIOUS
<1>2. e \in Entries
  BY <1>1, ShownIs
<1>3. /\ DOMAIN c = DOMAIN l \cup {Len(l) + 1} /\ c[Len(l) + 1] = e /\ Len(l) + 1 \notin DOMAIN l
      /\ \A k \in DOMAIN l : c[k] = l[k]
  <2> HIDE DEF e
  <2> QED
    BY <1>2, Appended
<1> HIDE DEF c
<1>4. /\ f \in [DOMAIN l -> 1 .. n] /\ \A k \in DOMAIN l : l[k] = Shown(s, f[k])
      /\ \A j, k \in DOMAIN l : f[j] = f[k] => j = k
  BY DEF Shows
<1> DEFINE m == Len(l) + 1
<1> HIDE DEF m
<1>5. /\ g[m] = n + 1 /\ m \in DOMAIN c
      /\ \A k \in DOMAIN l : k \in DOMAIN c /\ g[k] = f[k] /\ f[k] \in 1 .. n
  BY <1>3, <1>4 DEF m
<1>11. g = [k \in DOMAIN c |-> g[k]]
  OBVIOUS
<1>6. \A k \in DOMAIN c : k = m \/ k \in DOMAIN l
  BY <1>3 DEF m
<1> HIDE DEF g
<1>7. g \in [DOMAIN c -> 1 .. (n + 1)]
  <2>1. \A k \in DOMAIN c : g[k] \in 1 .. (n + 1)
    BY <1>5, <1>6
  <2> QED
    BY <1>11, <2>1
<1>8. \A k \in DOMAIN c : c[k] = Shown(s, g[k])
  BY <1>3, <1>4, <1>5, <1>6 DEF m
<1>9. \A j, k \in DOMAIN c : g[j] = g[k] => j = k
  <2>1. ASSUME NEW k \in DOMAIN l PROVE g[k] # g[m]
    <3>1. g[k] \in 1 .. n /\ g[m] = n + 1
      BY <1>5
    <3> QED
      BY <3>1
  <2> QED
    BY <1>4, <1>5, <1>6, <2>1
<1>10. Shows(g, c, s, n + 1)
  BY <1>7, <1>8, <1>9 DEF Shows
<1> QED
  BY <1>10 DEF c

\* The list shows the partitions of the disk one by one.
LEMMA ListedShows ==
  ASSUME NEW s \in Seq(Regions)
  PROVE  Listed(s) \in Seq(Entries) /\ \E f : Shows(f, Listed(s), s, Len(s))
<1> DEFINE L == Len(s)
           P == {n \in Nat : n <= L => \E f : Shows(f, Lists(s)[n], s, n)}
<1>0. L \in Nat
  OBVIOUS
<1>1. 0 \in P
  <2> DEFINE f == [k \in {} |-> 0]
  <2>1. Lists(s)[0] = << >> /\ DOMAIN << >> = {}
    BY ListTurns
  <2>2. Shows(f, << >>, s, 0)
    BY <2>1 DEF Shows
  <2> HIDE DEF f
  <2> QED
    BY <2>1, <2>2
<1>2. ASSUME NEW n \in Nat, n \in P PROVE n + 1 \in P
  <2> SUFFICES ASSUME n + 1 <= L PROVE \E f : Shows(f, Lists(s)[n + 1], s, n + 1)
    OBVIOUS
  <2>1. n + 1 \in 1 .. L /\ n \in 0 .. L /\ (n + 1) - 1 = n /\ n <= L
    BY <1>0
  <2>2. /\ Lists(s)[n] \in Seq(Entries)
        /\ Lists(s)[n + 1] = IF Hidden(s[n + 1]) THEN Lists(s)[n] ELSE Append(Lists(s)[n], Shown(s, n + 1))
    BY <2>1, ListTurns
  <2>3. PICK f : Shows(f, Lists(s)[n], s, n)
    BY <1>2, <2>1
  <2>4. CASE Hidden(s[n + 1])
    <3> DEFINE l == Lists(s)[n]
    <3> HIDE DEF l
    <3>1. /\ f \in [DOMAIN l -> 1 .. n] /\ \A k \in DOMAIN l : l[k] = Shown(s, f[k])
          /\ \A j, k \in DOMAIN l : f[j] = f[k] => j = k
      BY <2>3 DEF Shows, l
    <3>2. f \in [DOMAIN l -> 1 .. (n + 1)]
      BY <3>1
    <3>3. Shows(f, l, s, n + 1)
      BY <3>1, <3>2 DEF Shows
    <3> QED
      BY <2>2, <2>4, <3>3 DEF l
  <2>5. CASE ~Hidden(s[n + 1])
    <3> DEFINE l == Lists(s)[n]
    <3>1. l \in Seq(Entries) /\ Shows(f, l, s, n)
      BY <2>2, <2>3
    <3> HIDE DEF l
    <3>2. \E g : Shows(g, Append(l, Shown(s, n + 1)), s, n + 1)
      BY <2>1, <3>1, OneMoreShown
    <3> QED
      BY <2>2, <2>5, <3>2 DEF l
  <2> QED
    BY <2>4, <2>5
<1> HIDE DEF P
<1>3. L \in P
  BY <1>0, <1>1, <1>2, Induction
<1>4. \E f : Shows(f, Lists(s)[L], s, L)
  BY <1>0, <1>3 DEF P
<1>5. L \in 0 .. L
  BY <1>0
<1> QED
  BY <1>4, <1>5, ListTurns

\* What the list shows of each partition.
LEMMA ListedIs ==
  ASSUME NEW s \in Seq(Regions)
  PROVE  \E f : /\ f \in [DOMAIN Listed(s) -> DOMAIN s]
                /\ \A k \in Solid(Listed(s)) :
                     f[k] \in Solid(s) /\ Listed(s)[k].id = Part(s[f[k]].num) /\ Listed(s)[k].fs = s[f[k]].fs
                /\ \A j, k \in DOMAIN Listed(s) : f[j] = f[k] => j = k
<1> DEFINE l == Listed(s)
<1>1. l \in Seq(Entries) /\ \E f : Shows(f, l, s, Len(s))
  BY ListedShows
<1> HIDE DEF l
<1>2. PICK f : Shows(f, l, s, Len(s))
  BY <1>1
<1>3. f \in [DOMAIN l -> DOMAIN s] /\ \A j, k \in DOMAIN l : f[j] = f[k] => j = k
  BY <1>2 DEF Shows
<1>4. ASSUME NEW k \in Solid(l) PROVE f[k] \in Solid(s) /\ l[k].id = Part(s[f[k]].num) /\ l[k].fs = s[f[k]].fs
  <2>1. k \in DOMAIN l /\ ~IsFree(l[k]) /\ f[k] \in 1 .. Len(s) /\ l[k] = Shown(s, f[k])
    BY <1>2 DEF Solid, Shows
  <2>2. l[k].fs = s[f[k]].fs
    BY <2>1, ShownIs
  <2>3. ~IsFree(s[f[k]])
    BY <2>1, <2>2 DEF IsFree
  <2>4. l[k].id = Part(s[f[k]].num)
    BY <2>1, <2>3, ShownIs
  <2> QED
    BY <2>1, <2>2, <2>3, <2>4 DEF Solid
<1>5. \E h : /\ h \in [DOMAIN l -> DOMAIN s]
             /\ \A k \in Solid(l) : h[k] \in Solid(s) /\ l[k].id = Part(s[h[k]].num) /\ l[k].fs = s[h[k]].fs
             /\ \A j, k \in DOMAIN l : h[j] = h[k] => j = k
  BY <1>3, <1>4
<1> QED
  BY <1>5 DEF l

\* Names of partitions tell their numbers.
LEMMA PartsDiffer == \A m, n : Part(m) = Part(n) => m = n
<1> SUFFICES ASSUME NEW m, NEW n, Part(m) = Part(n) PROVE m = n
  OBVIOUS
<1>1. Part(m).n = m /\ Part(n).n = n
  BY DEF Part
<1> QED
  BY <1>1

\* No partition that was there is unnamed.
LEMMA PartIsNamed == \A n : Part(n) # Unnamed
<1> SUFFICES ASSUME NEW n, Part(n) = Unnamed PROVE FALSE
  OBVIOUS
<1>1. Part(n).kind = "part" /\ Unnamed.kind = "new"
  BY DEF Part, Unnamed
<1> QED
  BY <1>1

-----------------------------------------------------------------------------
(* What may be lost *)

\* The numbers of logical partitions; and those of the partitions that an operation may
\* hit in the place of another, having been given the other's number.
Logicals == {n \in Nat : Logical(n)}
Strays ==
  {n \in Nat : /\ Moved(n)
               /\ \E i, j \in DOMAIN plan : i # j /\ \A o \in {i, j} : Loses(plan[o]) /\ Logical(plan[o].id.n)}

\* The partitions of list l are on disk d, but for those that operations of plan p with
\* one of these types name, and those of numbers e.
Spares(d, l, p, types, e) ==
  \A k \in Solid(l) :
    \/ \E j \in DOMAIN p : p[j].id = l[k].id /\ p[j].type \in types
    \/ \E i \in Solid(d) : Part(d[i].was) = l[k].id /\ d[i].was # 0
    \/ l[k].id.n \in e

\* A number in f is that of a partition whose filesystem the plan sets, or of a new one.
Makes(f, d, p, g) ==
  \A n \in f :
    \/ \E j \in DOMAIN p : p[j].id = Part(n) /\ p[j].type = "filesystem"
    \/ n \notin g /\ \A i \in Solid(d) : d[i].num = n => d[i].was = 0

\* A partition has the number that it had, but for logical ones behind one that is removed.
Shifts(d, p, n, g) ==
  \A i \in Solid(d) :
    \/ d[i].was = 0 \/ d[i].was = d[i].num
    \/ /\ d[i].was \in g /\ d[i].num \in g
       /\ \E j \in DOMAIN p : j <= n /\ p[j].type = "remove" /\ p[j].id.n \in 5 .. (d[i].was - 1)

\* What is spared but for some operations is spared but for these and others.
LEMMA SparesMore ==
  ASSUME NEW d, NEW l, NEW p, NEW types, NEW more, types \subseteq more,
         NEW e, NEW f, e \subseteq f, Spares(d, l, p, types, e)
  PROVE  Spares(d, l, p, more, f)
  BY DEF Spares

\* A partition that an operation hits is one that it names, a new one, or one that may be
\* hit so.
LEMMA HitIs ==
  ASSUME NEW d, Shifts(d, plan, done, Logicals), NEW i \in Solid(d), NEW l \in DOMAIN plan,
         Loses(plan[l]), plan[l].id = Part(d[i].num), DOMAIN plan \subseteq Nat,
         l > done \/ plan[l].type # "remove", done \in Nat
  PROVE  d[i].was = 0 \/ plan[l].id = Part(d[i].was) \/ d[i].was \in Strays
<1> SUFFICES ASSUME d[i].was # 0, d[i].was # d[i].num PROVE d[i].was \in Strays
  OBVIOUS
<1>1. d[i].was \in Logicals /\ d[i].num \in Logicals
  BY DEF Shifts
<1>2. PICK j \in DOMAIN plan : j <= done /\ plan[j].type = "remove" /\ plan[j].id.n \in 5 .. (d[i].was - 1)
  BY DEF Shifts
<1>3. j # l
  BY <1>2
<1>4. plan[l].id.n = d[i].num
  BY DEF Part
<1>5. Logical(plan[l].id.n) /\ Logical(d[i].was) /\ d[i].was \in Nat
  BY <1>1, <1>4 DEF Logicals
<1>6. Logical(plan[j].id.n)
  BY <1>2, <1>5 DEF Logical
<1>7. Loses(plan[j])
  BY <1>2 DEF Loses
<1>8. Moved(d[i].was)
  BY <1>2, <1>5 DEF Moved
<1>9. \E a, b \in DOMAIN plan : a # b /\ \A o \in {a, b} : Loses(plan[o]) /\ Logical(plan[o].id.n)
  BY <1>3, <1>5, <1>6, <1>7
<1> QED
  BY <1>5, <1>8, <1>9 DEF Strays

\* A replacement spares the partitions, but for one that an operation names or that is a
\* new one.
LEMMA SparesReplaced ==
  ASSUME NEW s, NEW c, NEW g, NEW i, NEW r, Replaced(g, c, s, i, r), NEW l, NEW p, NEW types, NEW e,
         Spares(s, l, p, types, e),
         \/ IsFree(s[i]) \/ s[i].was = 0
         \/ ~IsFree(r) /\ r.was = s[i].was
         \/ \E j \in DOMAIN p : p[j].id = Part(s[i].was) /\ p[j].type \in types
         \/ s[i].was \in e
  PROVE  Spares(c, l, p, types, e)
<1> SUFFICES ASSUME NEW k \in Solid(l), l[k].id.n \notin e,
                    ~ \E j \in DOMAIN p : p[j].id = l[k].id /\ p[j].type \in types
             PROVE  \E m \in Solid(c) : Part(c[m].was) = l[k].id /\ c[m].was # 0
  BY DEF Spares
<1>1. PICK h \in Solid(s) : Part(s[h].was) = l[k].id /\ s[h].was # 0
  BY DEF Spares
<1>2. CASE h = i
  <2>0. l[k].id.n = s[i].was
    BY <1>1, <1>2 DEF Part
  <2>1. ~IsFree(r) /\ r.was = s[i].was
    BY <1>1, <1>2, <2>0 DEF Solid
  <2>2. PICK m \in Solid(c) : g[m] = i
    BY <2>1 DEF Replaced
  <2>3. c[m] = r
    BY <2>2 DEF Replaced
  <2> QED
    BY <1>1, <1>2, <2>1, <2>3
<1>3. CASE h # i
  <2>1. PICK m \in Solid(c) : g[m] = h
    BY <1>1, <1>3 DEF Replaced
  <2>2. c[m] = s[h]
    BY <1>3, <2>1 DEF Replaced
  <2> QED
    BY <1>1, <2>2
<1> QED
  BY <1>2, <1>3

\* A replacement gives the numbers to be formatted to no other partition.
LEMMA MakesReplaced ==
  ASSUME NEW s, NEW c, NEW g, NEW i, NEW r, Replaced(g, c, s, i, r), NEW p, NEW f, NEW lg, Makes(f, s, p, lg), NEW h,
         IsFree(r) \/ r.was = 0 \/ (~IsFree(s[i]) /\ r.num = s[i].num /\ r.was = s[i].was),
         \A n \in h : \/ n \in f
                      \/ \E j \in DOMAIN p : p[j].id = Part(n) /\ p[j].type = "filesystem"
                      \/ n \notin lg /\ \A j \in DOMAIN s : s[j].num # n
  PROVE  Makes(h, c, p, lg)
<1> SUFFICES ASSUME NEW n \in h, ~ \E j \in DOMAIN p : p[j].id = Part(n) /\ p[j].type = "filesystem"
             PROVE  n \notin lg /\ \A m \in Solid(c) : c[m].num = n => c[m].was = 0
  BY DEF Makes
<1>1. n \notin lg /\ \A j \in Solid(s) : s[j].num = n => s[j].was = 0
  <2>1. CASE n \in f
    BY <2>1 DEF Makes
  <2>2. CASE n \notin lg /\ \A j \in DOMAIN s : s[j].num # n
    BY <2>2 DEF Solid
  <2> QED
    BY <2>1, <2>2
<1>2. ASSUME NEW m \in Solid(c), c[m].num = n PROVE c[m].was = 0
  <2>1. g[m] \in DOMAIN s /\ ~IsFree(c[m]) /\ (IF g[m] = i THEN c[m] = r ELSE c[m] = s[g[m]])
    BY DEF Replaced, Solid
  <2>2. CASE g[m] = i
    BY <1>1, <1>2, <2>1, <2>2 DEF Solid
  <2>3. CASE g[m] # i
    BY <1>1, <1>2, <2>1, <2>3 DEF Solid
  <2> QED
    BY <2>2, <2>3
<1> QED
  BY <1>1, <1>2

\* A replacement keeps the numbers of the others.
LEMMA ShiftsReplaced ==
  ASSUME NEW s, NEW c, NEW g, NEW i, NEW r, Replaced(g, c, s, i, r), NEW p, NEW n \in Nat, NEW lg,
         Shifts(s, p, n, lg), DOMAIN p \subseteq Nat,
         IsFree(r) \/ r.was = 0 \/ (~IsFree(s[i]) /\ r.num = s[i].num /\ r.was = s[i].was)
  PROVE  Shifts(c, p, n + 1, lg)
<1> SUFFICES ASSUME NEW m \in Solid(c), c[m].was # 0, c[m].was # c[m].num
             PROVE  /\ c[m].was \in lg /\ c[m].num \in lg
                    /\ \E j \in DOMAIN p : j <= n + 1 /\ p[j].type = "remove" /\ p[j].id.n \in 5 .. (c[m].was - 1)
  BY DEF Shifts
<1>1. g[m] \in DOMAIN s /\ ~IsFree(c[m]) /\ (IF g[m] = i THEN c[m] = r ELSE c[m] = s[g[m]])
  BY DEF Replaced, Solid
<1>2. g[m] \in Solid(s) /\ c[m].was = s[g[m]].was /\ c[m].num = s[g[m]].num
  BY <1>1 DEF Solid
<1>3. /\ c[m].was \in lg /\ c[m].num \in lg
      /\ \E j \in DOMAIN p : j <= n /\ p[j].type = "remove" /\ p[j].id.n \in 5 .. (c[m].was - 1)
  BY <1>2 DEF Shifts
<1>4. \A j \in DOMAIN p : j <= n => j <= n + 1
  OBVIOUS
<1> QED
  BY <1>3, <1>4

\* Numbering anew loses no partition, gives no number that is to be formatted to another,
\* and moves those behind the one removed.
LEMMA LostRenumbered ==
  ASSUME NEW s \in Seq(Regions), NEW b \in Nat, NEW c, c = Renumbered(s, b), NEW l, NEW p, NEW types, NEW e,
         NEW f, NEW n \in Nat, n + 1 \in DOMAIN p, p[n + 1].type = "remove", p[n + 1].id = Part(b)
  PROVE  /\ Spares(s, l, p, types, e) => Spares(c, l, p, types, e)
         /\ Makes(f, s, p, Logicals) => Makes(f, c, p, Logicals)
         /\ Shifts(s, p, n + 1, Logicals) => Shifts(c, p, n + 1, Logicals)
<1>1. /\ DOMAIN c = DOMAIN s
      /\ \A i \in DOMAIN s :
           /\ c[i].fs = s[i].fs /\ c[i].was = s[i].was /\ s[i].num \in Nat /\ s[i].was \in Nat
           /\ c[i].num = IF Logical(b) /\ s[i].num > b THEN s[i].num - 1 ELSE s[i].num
  <2>1. Shifted(c, s, b)
    BY RenumberedIs
  <2> QED
    BY <2>1 DEF Shifted
<1>7. \A i \in DOMAIN s : IsFree(c[i]) <=> IsFree(s[i])
  BY <1>1 DEF IsFree
<1>2. Solid(c) = Solid(s) /\ \A i \in Solid(s) : i \in DOMAIN s
  BY <1>1, <1>7 DEF Solid
<1>3. Spares(s, l, p, types, e) => Spares(c, l, p, types, e)
  BY <1>1, <1>2 DEF Spares
<1>4. ASSUME NEW i \in Solid(s)
      PROVE  /\ c[i].num = s[i].num
             \/ /\ Logical(b) /\ s[i].num > b /\ c[i].num = s[i].num - 1
                /\ c[i].num \in Logicals /\ s[i].num \in Logicals /\ b \in 5 .. (s[i].num - 1)
  <2>1. CASE Logical(b) /\ s[i].num > b
    <3>1. extended # 0 /\ b > 4 /\ c[i].num = s[i].num - 1 /\ s[i].num \in Nat
      BY <1>1, <1>2, <2>1 DEF Logical
    <3>2. c[i].num \in Nat /\ c[i].num > 4 /\ s[i].num > 4 /\ b \in 5 .. (s[i].num - 1)
      BY <2>1, <3>1
    <3> QED
      BY <2>1, <3>1, <3>2 DEF Logicals, Logical
  <2>2. CASE ~(Logical(b) /\ s[i].num > b)
    BY <1>1, <1>2, <2>2
  <2> QED
    BY <2>1, <2>2
<1>5. ASSUME Makes(f, s, p, Logicals) PROVE Makes(f, c, p, Logicals)
  <2> SUFFICES ASSUME NEW m \in f, ~ \E j \in DOMAIN p : p[j].id = Part(m) /\ p[j].type = "filesystem",
                      NEW i \in Solid(c), c[i].num = m
               PROVE  m \notin Logicals /\ c[i].was = 0
    BY <1>5 DEF Makes
  <2>1. m \notin Logicals /\ \A h \in Solid(s) : s[h].num = m => s[h].was = 0
    BY <1>5 DEF Makes
  <2>2. i \in Solid(s) /\ c[i].num = s[i].num
    BY <1>2, <1>4, <2>1
  <2> QED
    BY <1>1, <1>2, <2>1, <2>2
<1>6. ASSUME Shifts(s, p, n + 1, Logicals) PROVE Shifts(c, p, n + 1, Logicals)
  <2> SUFFICES ASSUME NEW i \in Solid(c), c[i].was # 0, c[i].was # c[i].num
               PROVE  /\ c[i].was \in Logicals /\ c[i].num \in Logicals
                      /\ \E j \in DOMAIN p : j <= n + 1 /\ p[j].type = "remove" /\ p[j].id.n \in 5 .. (c[i].was - 1)
    BY DEF Shifts
  <2>1. i \in Solid(s) /\ c[i].was = s[i].was
    BY <1>1, <1>2
  <2>2. CASE s[i].was = s[i].num
    <3>1. c[i].num # s[i].num
      BY <2>1, <2>2
    <3>2. c[i].num \in Logicals /\ s[i].num \in Logicals /\ b \in 5 .. (s[i].num - 1)
      BY <1>4, <2>1, <3>1
    <3>3. p[n + 1].id.n = b
      BY DEF Part
    <3> QED
      BY <2>1, <2>2, <3>2, <3>3
  <2>3. CASE s[i].was # s[i].num
    <3>1. /\ s[i].was \in Logicals /\ s[i].num \in Logicals
          /\ \E j \in DOMAIN p : j <= n + 1 /\ p[j].type = "remove" /\ p[j].id.n \in 5 .. (s[i].was - 1)
      BY <1>6, <2>1, <2>3 DEF Shifts
    <3>2. c[i].num \in Logicals
      BY <1>4, <2>1, <3>1
    <3> QED
      BY <2>1, <3>1, <3>2
  <2> QED
    BY <2>2, <2>3
<1> QED
  BY <1>3, <1>5, <1>6
-----------------------------------------------------------------------------
KeysHeld == keys = [mount |-> keys.mount, fs |-> keys.fs, format |-> keys.format]
IsRegion(r) ==
  r = [num |-> r.num, fs |-> r.fs, size |-> r.size, mount |-> r.mount, was |-> r.was, inner |-> r.inner]

\* What FormatStep is to make.
Wanted == {t.num : t \in {u \in targets : u.format}}

\* What becomes of the partitions shown, as long as the plan is at work.
LostInv ==
  mode # "erase" =>
    /\ KeysHeld
    /\ phase \in {"planning", "partitioning"} => Spares(disk, listed, plan, {}, {})
    /\ phase = "planning" => keys = NoKeys /\ \A i \in Solid(disk) : disk[i].was = disk[i].num
    /\ phase = "partitioning" =>
         /\ Spares(table, listed, plan, {"remove"}, Strays) /\ Makes(keys.format, table, plan, Logicals)
         /\ Shifts(table, plan, done, Logicals)
    /\ phase = "formatting" =>
         /\ Spares(disk, listed, plan, {"remove", "filesystem"}, Strays) /\ Makes(Wanted, disk, plan, Logicals)
         /\ Shifts(disk, plan, done, Logicals)
         /\ \A i \in DOMAIN disk : IsRegion(disk[i])
    /\ OnlyNamedLost

\* What the disk spares at the end is not lost.
LEMMA SparedIsNotLost ==
  Spares(disk, listed, plan, {"remove", "filesystem"}, Strays) => OnlyNamedLost
<1> SUFFICES ASSUME Spares(disk, listed, plan, {"remove", "filesystem"}, Strays), NEW k \in Solid(listed)
             PROVE  \/ \E j \in DOMAIN plan : plan[j].id = listed[k].id /\ Loses(plan[j])
                    \/ \E i \in DOMAIN disk : Part(disk[i].was) = listed[k].id
                    \/ /\ Moved(listed[k].id.n)
                       /\ \E i, j \in DOMAIN plan : i # j /\ \A o \in {i, j} : Loses(plan[o]) /\ Logical(plan[o].id.n)
  BY DEF OnlyNamedLost, Solid
<1>1. CASE \E j \in DOMAIN plan : plan[j].id = listed[k].id /\ plan[j].type \in {"remove", "filesystem"}
  BY <1>1 DEF Loses
<1>2. CASE \E i \in Solid(disk) : Part(disk[i].was) = listed[k].id /\ disk[i].was # 0
  BY <1>2 DEF Solid
<1>3. CASE listed[k].id.n \in Strays
  BY <1>3 DEF Strays
<1> QED
  BY <1>1, <1>2, <1>3 DEF Spares

\* The numbers are those of the plan and the disk.
LEMMA StraysStay ==
  ASSUME UNCHANGED <<plan, extended>>
  PROVE  Strays' = Strays /\ Logicals' = Logicals
<1>1. Logicals' = Logicals
  BY DEF Logicals, Logical
<1>2. \A n \in Nat : Moved(n)' <=> Moved(n)
  BY DEF Moved, Logical
<1>3. (\E i, j \in DOMAIN plan : i # j /\ \A o \in {i, j} : Loses(plan[o]) /\ Logical(plan[o].id.n))'
      <=> \E i, j \in DOMAIN plan : i # j /\ \A o \in {i, j} : Loses(plan[o]) /\ Logical(plan[o].id.n)
  BY DEF Loses, Logical
<1>4. Strays' = Strays
  BY <1>2, <1>3 DEF Strays
<1> QED
  BY <1>1, <1>4

\* What Operate does, to a region that its name is found for.
LEMMA OperateIs ==
  ASSUME SizesInv, NEW type, NEW kind, NEW new, NEW k, Operate(type, kind, new, k)
  PROVE  /\ phase = "partitioning" /\ mode = "custom" /\ done < Len(plan) /\ todo.type = type
         /\ keys' = k /\ done' = done + 1
         /\ UNCHANGED <<listed, mode, plan, parts, phase, disk, extended, targets, made>>
         /\ \E i \in DOMAIN table :
              /\ table' = new[i] /\ new[i] # << >>
              /\ IsFree(table[i]) <=> kind = "free"
              /\ ~IsFree(table[i]) => todo.id = Part(table[i].num)
<1>1. PICK i \in Positions(todo.id) :
        /\ IsFree(table[i]) <=> kind = "free"
        /\ new[i] # <<>>
        /\ table' = new[i]
  BY DEF Operate
<1>2. i \in Visible(table) /\ Name(table, i, Visible(table)) = todo.id
  BY DEF Positions
<1>3. i \in DOMAIN table
  BY <1>2 DEF Visible
<1>4. ~IsFree(table[i]) => Name(table, i, Visible(table)) = Part(table[i].num)
  BY DEF Name
<1>5. /\ phase = "partitioning" /\ mode = "custom" /\ done < Len(plan) /\ todo.type = type
      /\ keys' = k /\ done' = done + 1
      /\ UNCHANGED <<listed, mode, plan, parts, phase, disk, extended, targets, made>>
  BY DEF Operate, request
<1> QED
  BY <1>1, <1>2, <1>3, <1>4, <1>5

-----------------------------------------------------------------------------
(* Operations lose only what they name *)

\* At first everything shown is there.
LEMMA LostInit == DisksAre /\ Init => LostInv
<1> SUFFICES ASSUME DisksAre, Init PROVE LostInv
  OBVIOUS
<1>1. disk \in Disks /\ disk \in Seq(Regions) /\ \A i \in DOMAIN disk : disk[i].was = disk[i].num
  BY DEF DisksAre, Init, StorageDevices
<1>2. listed = Listed(disk) /\ phase = "planning" /\ keys = NoKeys
  BY DEF Init
<1>3. Spares(disk, listed, plan, {}, {})
  <2> SUFFICES ASSUME NEW k \in Solid(listed)
               PROVE  \E i \in Solid(disk) : Part(disk[i].was) = listed[k].id /\ disk[i].was # 0
    BY DEF Spares
  <2>1. PICK i \in Solid(disk) : Part(disk[i].num) = listed[k].id
    BY <1>1, <1>2, ListedIs
  <2>2. i \in DOMAIN disk /\ ~IsFree(disk[i])
    BY DEF Solid
  <2>3. disk[i].num # 0
    BY <1>1, <2>2 DEF Regions
  <2> QED
    BY <1>1, <2>1, <2>2, <2>3
<1>4. OnlyNamedLost
  BY <1>3, SparesMore, SparedIsNotLost
<1>5. KeysHeld
  BY <1>2 DEF KeysHeld, NoKeys
<1>6. \A i \in Solid(disk) : disk[i].was = disk[i].num
  BY <1>1 DEF Solid
<1> QED
  BY <1>2, <1>3, <1>4, <1>5, <1>6 DEF LostInv

Spared(t, f) ==
  /\ Spares(t, listed, plan, {"remove"}, Strays) /\ Makes(f, t, plan, Logicals)
  /\ Shifts(t, plan, done + 1, Logicals)

\* An operation that leaves the table with all partitions that the plan does not remove.
LEMMA LostOperate ==
  ASSUME SizesInv, LostInv, NEW type, NEW kind, NEW new, NEW k, Operate(type, kind, new, k),
         k = [mount |-> k.mount, fs |-> k.fs, format |-> k.format],
         \A i \in DOMAIN table : table' = new[i] /\ new[i] # << >> /\ (IsFree(table[i]) <=> kind = "free")
             /\ (~IsFree(table[i]) => todo.id = Part(table[i].num)) =>
           Spared(new[i], k.format)
  PROVE  LostInv'
<1>1. /\ phase = "partitioning" /\ keys' = k
      /\ UNCHANGED <<listed, mode, plan, parts, phase, disk, extended, targets, made>>
  BY OperateIs
<1>2. PICK i \in DOMAIN table :
         /\ table' = new[i] /\ new[i] # << >>
         /\ IsFree(table[i]) <=> kind = "free"
         /\ ~IsFree(table[i]) => todo.id = Part(table[i].num)
  BY OperateIs
<1>3. Spared(table', k.format)
  BY <1>2
<1>4. KeysHeld'
  BY <1>1 DEF KeysHeld
<1> SUFFICES ASSUME mode # "erase" PROVE LostInv'
  BY <1>1 DEF LostInv
<1>5. Spares(disk, listed, plan, {}, {}) /\ OnlyNamedLost
  BY <1>1 DEF LostInv
<1>6. OnlyNamedLost'
  BY <1>1, <1>5 DEF OnlyNamedLost, Moved, Logical, Loses
<1>7. Strays' = Strays /\ Logicals' = Logicals /\ done' = done + 1
  BY <1>1, StraysStay, OperateIs
<1> QED
  BY <1>1, <1>3, <1>4, <1>5, <1>6, <1>7 DEF LostInv, Spared

\* A record of maps with two of them changed.
LEMMA ChangedTwice ==
  ASSUME NEW k, NEW a, NEW b, NEW c, k = [mount |-> a, fs |-> b, format |-> c], NEW x, NEW y
  PROVE  [k EXCEPT !.fs = x, !.format = y] = [mount |-> a, fs |-> x, format |-> y]
<1> DEFINE q == [k EXCEPT !.fs = x, !.format = y]
<1>1. k \in [mount : {a}, fs : {b}, format : {c}]
  OBVIOUS
<1>2. q \in [mount : {a}, fs : {x}, format : {y}]
  BY <1>1
<1> HIDE DEF q
<1>3. q = [mount |-> q.mount, fs |-> q.fs, format |-> q.format]
  BY <1>2
<1>4. q.mount = a /\ q.fs = x /\ q.format = y
  BY <1>2
<1> QED
  BY <1>3, <1>4 DEF q

\* An operation of the worker loses only what it names.
LEMMA LostOperation ==
  ASSUME SizesInv, LostInv, Create \/ Resize \/ RemovePartition \/ SetMountpoint \/ SetFilesystem
  PROVE  LostInv'
<1>1. phase = "partitioning" /\ done < Len(plan) /\ mode = "custom"
  BY DEF Create, Resize, RemovePartition, SetMountpoint, SetFilesystem, Operate
<1>2. table \in Seq(Regions) /\ todo \in Ops /\ Sectors(todo.size) \in Nat /\ todo = plan[done + 1] /\ done + 1 \in DOMAIN plan
      /\ plan \in Seq(Ops) /\ done \in Nat
  BY <1>1, OpIs DEF SizesInv, Shapes, todo
<1>9. DOMAIN plan \subseteq Nat
  BY <1>2
<1>3. KeysHeld /\ Spares(table, listed, plan, {"remove"}, Strays) /\ Makes(keys.format, table, plan, Logicals)
      /\ Shifts(table, plan, done, Logicals)
  BY <1>1 DEF LostInv
<1>0. keys = [mount |-> keys.mount, fs |-> keys.fs, format |-> keys.format]
  BY <1>3 DEF KeysHeld
<1>10. Shifts(table, plan, done + 1, Logicals)
  <2>1. \A j \in DOMAIN plan : j <= done => j <= done + 1
    BY <1>2, <1>9
  <2> QED
    BY <1>3, <2>1 DEF Shifts
<1>11. ASSUME NEW f, Makes(f, table, plan, Logicals) PROVE Spared(table, f)
  BY <1>3, <1>10, <1>11 DEF Spared
<1>4. CASE Create
  <2> DEFINE new == [i \in DOMAIN table |-> NewTable(i)]
             k == [mount |-> With(keys.mount, NextNumber, todo.mount),
                   fs |-> With(keys.fs, NextNumber, todo.fs),
                   format |-> keys.format \cup {NextNumber}]
  <2>1. Operate("create", "free", new, k)
    BY <1>4 DEF Create
  <2>2. todo.type = "create"
    BY <2>1, OperateIs
  <2>3. k = [mount |-> k.mount, fs |-> k.fs, format |-> k.format] /\ k.format = keys.format \cup {NextNumber}
    OBVIOUS
  <2>4. ASSUME NEW i \in DOMAIN table, new[i] # << >>, IsFree(table[i])
        PROVE  Spared(new[i], k.format)
    <3>0. FreeNumbers # {} /\ \E size \in Nat : \E g : Replaced(g, NewTable(i), table, i, Fresh(size))
      BY <1>2, <2>2, <2>4, NewTableReplaces
    <3>1. PICK size \in Nat : \E g : Replaced(g, NewTable(i), table, i, Fresh(size))
      BY <3>0
    <3>2. PICK g : Replaced(g, NewTable(i), table, i, Fresh(size))
      BY <3>1
    <3>3. Fresh(size).was = 0
      BY <1>2, <2>2, <3>0, FreshIs
    <3>4. NextNumber \notin Logicals /\ \A j \in DOMAIN table : table[j].num # NextNumber
      BY <1>2, <3>0, NextNumberIs DEF Logicals, Logical
    <3>5. Spares(NewTable(i), listed, plan, {"remove"}, Strays)
      BY <1>3, <2>4, <3>2, SparesReplaced
    <3>6. Makes(k.format, NewTable(i), plan, Logicals)
      <4> HIDE DEF k
      <4> QED
        BY <1>3, <2>3, <3>2, <3>3, <3>4, MakesReplaced
    <3>7. Shifts(NewTable(i), plan, done + 1, Logicals)
      BY <1>2, <1>3, <1>9, <3>2, <3>3, ShiftsReplaced
    <3> QED
      BY <3>5, <3>6, <3>7 DEF Spared
  <2> HIDE DEF new, k
  <2> QED
    BY <2>1, <2>3, <2>4, LostOperate
<1>5. CASE Resize
  <2> DEFINE new == [i \in DOMAIN table |-> ResizedTable(i)]
  <2>1. Operate("resize", "part", new, keys)
    BY <1>5 DEF Resize
  <2>2. ASSUME NEW i \in DOMAIN table, new[i] # << >>, ~IsFree(table[i])
        PROVE  Spared(new[i], keys.format)
    <3>1. PICK size \in Nat : \E g : Replaced(g, ResizedTable(i), table, i, WithSize(table[i], size))
      BY <1>2, <2>2, ResizedTableReplaces
    <3> DEFINE r == WithSize(table[i], size)
    <3>2. PICK g : Replaced(g, ResizedTable(i), table, i, r)
      BY <3>1
    <3>3. table[i] \in Regions
      BY <1>2
    <3>4. r.num = table[i].num /\ r.fs = table[i].fs /\ r.was = table[i].was
      BY <3>3, RegionSized
    <3>5. ~IsFree(r)
      BY <2>2, <3>4 DEF IsFree
    <3> HIDE DEF r
    <3>6. Spares(ResizedTable(i), listed, plan, {"remove"}, Strays)
      BY <1>3, <3>2, <3>4, <3>5, SparesReplaced
    <3>7. Makes(keys.format, ResizedTable(i), plan, Logicals)
      BY <1>3, <2>2, <3>2, <3>4, <3>5, MakesReplaced
    <3>8. Shifts(ResizedTable(i), plan, done + 1, Logicals)
      BY <1>2, <1>3, <1>9, <2>2, <3>2, <3>4, <3>5, ShiftsReplaced
    <3> QED
      BY <3>6, <3>7, <3>8 DEF Spared
  <2> HIDE DEF new
  <2> QED
    BY <1>0, <2>1, <2>2, LostOperate
<1>6. CASE RemovePartition
  <2> DEFINE new == [i \in DOMAIN table |-> Renumbered(Removed(i), table[i].num)]
             k == [mount |-> Minus(keys.mount, todo.id.n), fs |-> Minus(keys.fs, todo.id.n),
                   format |-> keys.format \ {todo.id.n}]
  <2>1. Operate("remove", "part", new, k)
    BY <1>6 DEF RemovePartition
  <2>2. todo.type = "remove"
    BY <2>1, OperateIs
  <2>3. k = [mount |-> k.mount, fs |-> k.fs, format |-> k.format] /\ k.format = keys.format \ {todo.id.n}
    OBVIOUS
  <2>4. ASSUME NEW i \in DOMAIN table, ~IsFree(table[i]), todo.id = Part(table[i].num)
        PROVE  Spared(new[i], k.format)
    <3> DEFINE r == Gap(table[i], table[i].size)
    <3>1. IsFree(r) /\ \E g : Replaced(g, Removed(i), table, i, r)
      BY <1>2, RemovedTableReplaces
    <3> HIDE DEF r
    <3>2. PICK g : Replaced(g, Removed(i), table, i, r)
      BY <3>1
    <3>3. table[i].was = 0 \/ todo.id = Part(table[i].was) \/ table[i].was \in Strays
      <4>1. i \in Solid(table) /\ Loses(plan[done + 1]) /\ plan[done + 1].id = Part(table[i].num) /\ done + 1 > done
        BY <1>2, <2>2, <2>4 DEF Solid, Loses
      <4> QED
        BY <1>2, <1>3, <1>9, <4>1, HitIs
    <3>4. \/ table[i].was = 0
          \/ \E j \in DOMAIN plan : plan[j].id = Part(table[i].was) /\ plan[j].type \in {"remove"}
          \/ table[i].was \in Strays
      BY <1>2, <2>2, <3>3
    <3>5. Spares(Removed(i), listed, plan, {"remove"}, Strays)
      BY <1>3, <3>2, <3>4, SparesReplaced
    <3>6. Makes(k.format, Removed(i), plan, Logicals)
      <4> HIDE DEF k
      <4> QED
        BY <1>3, <2>3, <3>1, <3>2, MakesReplaced
    <3>7. Shifts(Removed(i), plan, done + 1, Logicals)
      BY <1>2, <1>3, <1>9, <3>1, <3>2, ShiftsReplaced
    <3>8. Removed(i) \in Seq(Regions) /\ table[i].num \in Nat
      BY <1>2, RemovedTableAddsUp DEF Regions
    <3>9. new[i] = Renumbered(Removed(i), table[i].num)
      OBVIOUS
    <3> HIDE DEF k, new
    <3>10. plan[done + 1].type = "remove" /\ plan[done + 1].id = Part(table[i].num)
      BY <1>2, <2>2, <2>4
    <3>11. Spares(new[i], listed, plan, {"remove"}, Strays)
      BY <1>2, <3>5, <3>8, <3>9, <3>10, LostRenumbered
    <3>12. Makes(k.format, new[i], plan, Logicals)
      BY <1>2, <3>6, <3>8, <3>9, <3>10, LostRenumbered
    <3>13. Shifts(new[i], plan, done + 1, Logicals)
      BY <1>2, <3>7, <3>8, <3>9, <3>10, LostRenumbered
    <3> QED
      BY <3>11, <3>12, <3>13 DEF Spared
  <2>5. "part" # "free"
    OBVIOUS
  <2> HIDE DEF new, k
  <2> QED
    BY <2>1, <2>3, <2>4, <2>5, LostOperate
<1>7. CASE SetMountpoint
  <2> DEFINE new == [i \in DOMAIN table |-> table]
             k == [mount |-> With(keys.mount, todo.id.n, todo.mount), fs |-> keys.fs, format |-> keys.format]
  <2>1. k = [keys EXCEPT !.mount = With(@, todo.id.n, todo.mount)]
    BY <1>0
  <2>2. Operate("mount", "part", new, k)
    BY <1>7, <2>1 DEF SetMountpoint
  <2>3. k = [mount |-> k.mount, fs |-> k.fs, format |-> k.format] /\ k.format = keys.format
    OBVIOUS
  <2>4. \A i \in DOMAIN table : new[i] = table
    OBVIOUS
  <2> HIDE DEF new, k
  <2> QED
    BY <1>3, <1>11, <2>2, <2>3, <2>4, LostOperate
<1>8. CASE SetFilesystem
  <2> DEFINE new == [i \in DOMAIN table |-> table]
             k == [mount |-> keys.mount, fs |-> With(keys.fs, todo.id.n, todo.fs),
                   format |-> keys.format \cup {todo.id.n}]
  <2>1. k = [keys EXCEPT !.fs = With(@, todo.id.n, todo.fs), !.format = @ \cup {todo.id.n}]
    <3>1. \A x, y : [keys EXCEPT !.fs = x, !.format = y] = [mount |-> keys.mount, fs |-> x, format |-> y]
      BY <1>0, ChangedTwice, Zenon
    <3> QED
      BY <3>1, Zenon
  <2>2. Operate("filesystem", "part", new, k)
    BY <1>8, <2>1 DEF SetFilesystem
  <2>3. k = [mount |-> k.mount, fs |-> k.fs, format |-> k.format] /\ k.format = keys.format \cup {todo.id.n}
    OBVIOUS
  <2>4. \A i \in DOMAIN table : new[i] = table
    OBVIOUS
  <2>5. todo.type = "filesystem"
    BY <2>2, OperateIs
  <2>6. ASSUME NEW i \in DOMAIN table, todo.id = Part(table[i].num)
        PROVE  Makes(k.format, table, plan, Logicals)
    <3>1. todo.id = Part(todo.id.n)
      BY <2>6 DEF Part
    <3>2. \E j \in DOMAIN plan : plan[j].id = Part(todo.id.n) /\ plan[j].type = "filesystem"
      BY <1>2, <2>5, <3>1
    <3> HIDE DEF k
    <3> QED
      BY <1>3, <2>3, <3>2 DEF Makes
  <2>7. "part" # "free"
    OBVIOUS
  <2> HIDE DEF new, k
  <2>8. ASSUME NEW i \in DOMAIN table, todo.id = Part(table[i].num)
        PROVE  Spared(new[i], k.format)
    BY <1>11, <2>4, <2>6, <2>8
  <2> QED
    BY <2>2, <2>3, <2>7, <2>8, LostOperate
<1> QED
  BY <1>4, <1>5, <1>6, <1>7, <1>8

-----------------------------------------------------------------------------
(* Committing and formatting lose only what the plan names *)

\* The client's requests change the plan only.
LEMMA PlanningStays ==
  ASSUME Planning
  PROVE  /\ phase = "planning" /\ UNCHANGED <<listed, mode, phase, work>>
  BY DEF Planning, PlanCreate, PlanResize, PlanRemove, PlanMountpoint, PlanMount, PlanFilesystem, Simulate

\* The regions of the disk are records of regions.
LEMMA RegionsHeld == ASSUME NEW r \in Regions PROVE IsRegion(r)
  BY DEF Regions, IsRegion

\* The commit puts the table on the disk, as spared as it was.
LEMMA LostCommit ==
  ASSUME SizesInv, LostInv, Commit
  PROVE  LostInv'
<1> DEFINE k == IF mode = "manual" THEN ManualKeys ELSE keys
<1>1. /\ phase = "partitioning" /\ mode # "erase" /\ phase' \in {"formatting", "failed"}
      /\ disk' = table /\ targets' \in {TargetsOf(k), {}} /\ UNCHANGED <<listed, mode, plan, parts, extended, table, done, keys, made>>
  BY DEF Commit, request
<1>2. KeysHeld /\ Spares(table, listed, plan, {"remove"}, Strays) /\ Makes(keys.format, table, plan, Logicals)
      /\ Shifts(table, plan, done, Logicals)
  BY <1>1 DEF LostInv
<1>3. k.format \subseteq keys.format
  <2>1. ManualKeys.format = {}
    BY DEF ManualKeys, NoKeys
  <2> QED
    BY <2>1
<1> HIDE DEF k
<1>4. Makes(k.format, table, plan, Logicals)
  BY <1>2, <1>3 DEF Makes
<1>5. Wanted' \subseteq k.format
  <2> SUFFICES ASSUME NEW t \in targets', t.format PROVE t.num \in k.format
    BY DEF Wanted
  <2>1. PICK n \in DOMAIN k.mount : t = Target(k, n)
    BY <1>1 DEF TargetsOf
  <2>2. t.num = n /\ t.format = (n \in k.format)
    BY <2>1 DEF Target
  <2> QED
    BY <2>2
<1>6. Makes(Wanted', table, plan, Logicals)
  BY <1>4, <1>5 DEF Makes
<1>7. Spares(table, listed, plan, {"remove", "filesystem"}, Strays)
  BY <1>2, SparesMore
<1>12. Strays' = Strays /\ Logicals' = Logicals
  BY <1>1, StraysStay
<1>13. Spares(disk, listed, plan, {"remove", "filesystem"}, Strays)'
  BY <1>1, <1>7, <1>12
<1>8. OnlyNamedLost'
  BY <1>13, SparedIsNotLost, PTL
<1>9. \A i \in DOMAIN table : IsRegion(table[i])
  BY <1>1, RegionsHeld DEF SizesInv, Shapes
<1>10. \A i \in DOMAIN disk' : IsRegion(disk'[i])
  BY <1>1, <1>9
<1>11. KeysHeld'
  BY <1>1, <1>2 DEF KeysHeld
<1> QED
  BY <1>1, <1>2, <1>6, <1>7, <1>8, <1>10, <1>11, <1>12 DEF LostInv

\* A filesystem is made on one region.
Making(r, t) == [r EXCEPT !.fs = t.fs, !.was = 0]

\* A region on which a filesystem was made.
LEMMA MadeIs ==
  ASSUME NEW r, IsRegion(r), NEW t
  PROVE  /\ Making(r, t) = [num |-> r.num, fs |-> t.fs, size |-> r.size, mount |-> r.mount, was |-> 0, inner |-> r.inner]
         /\ IsRegion(Making(r, t))
<1> DEFINE q == Making(r, t)
<1>1. r \in [num : {r.num}, fs : {r.fs}, size : {r.size}, mount : {r.mount}, was : {r.was}, inner : {r.inner}]
  <2>1. r = [num |-> r.num, fs |-> r.fs, size |-> r.size, mount |-> r.mount, was |-> r.was, inner |-> r.inner]
    BY DEF IsRegion
  <2> QED
    BY <2>1
<1>2. q \in [num : {r.num}, fs : {t.fs}, size : {r.size}, mount : {r.mount}, was : {0}, inner : {r.inner}]
  BY <1>1 DEF Making
<1> HIDE DEF q
<1>3. q = [num |-> q.num, fs |-> q.fs, size |-> q.size, mount |-> q.mount, was |-> q.was, inner |-> q.inner]
  BY <1>2
<1>4. q.num = r.num /\ q.fs = t.fs /\ q.size = r.size /\ q.mount = r.mount /\ q.was = 0 /\ q.inner = r.inner
  BY <1>2
<1>5. q = [num |-> r.num, fs |-> t.fs, size |-> r.size, mount |-> r.mount, was |-> 0, inner |-> r.inner]
  BY <1>3, <1>4
<1> QED
  BY <1>3, <1>5 DEF q, IsRegion

\* Formatting loses only what the plan makes a filesystem on.
LEMMA LostFormat ==
  ASSUME SizesInv, LostInv, Format
  PROVE  LostInv'
<1>15. plan \in Seq(Ops) /\ DOMAIN plan \subseteq Nat /\ done \in Nat
  BY DEF SizesInv, Shapes
<1>1. /\ phase = "formatting" /\ phase' = "formatting"
      /\ UNCHANGED <<listed, mode, plan, parts, extended, table, done, keys, targets>>
  BY DEF Format, request
<1>2. PICK t \in targets : disk' = [i \in DOMAIN disk |->
        IF t.format /\ disk[i].num = t.num THEN Making(disk[i], t) ELSE disk[i]]
  BY DEF Format, Making
<1> SUFFICES ASSUME mode # "erase" PROVE LostInv'
  BY <1>1 DEF LostInv
<1>3. /\ KeysHeld
      /\ Spares(disk, listed, plan, {"remove", "filesystem"}, Strays) /\ Makes(Wanted, disk, plan, Logicals)
      /\ Shifts(disk, plan, done, Logicals)
      /\ \A i \in DOMAIN disk : IsRegion(disk[i])
  BY <1>1 DEF LostInv
<1> DEFINE d == disk'
<1>4. DOMAIN d = DOMAIN disk
      /\ \A i \in DOMAIN disk : d[i] = IF t.format /\ disk[i].num = t.num THEN Making(disk[i], t) ELSE disk[i]
  BY <1>2
<1> HIDE DEF d
<1>5. \A i \in DOMAIN d : IsRegion(d[i])
  BY <1>3, <1>4, MadeIs
<1>6. \A i \in DOMAIN d : d[i] = disk[i] \/ (d[i].num = disk[i].num /\ d[i].was = 0)
  <2> SUFFICES ASSUME NEW i \in DOMAIN d, d[i] # disk[i] PROVE d[i].num = disk[i].num /\ d[i].was = 0
    OBVIOUS
  <2>1. d[i] = Making(disk[i], t) /\ IsRegion(disk[i])
    BY <1>3, <1>4
  <2>2. d[i] = [num |-> disk[i].num, fs |-> t.fs, size |-> disk[i].size, mount |-> disk[i].mount, was |-> 0,
             inner |-> disk[i].inner]
    BY <2>1, MadeIs
  <2> QED
    BY <2>2
<1>12. \A i \in DOMAIN d : d[i] # disk[i] => t.format /\ disk[i].num = t.num
  BY <1>4
<1>14. ASSUME NEW i \in Solid(d), d[i].was # 0 PROVE i \in Solid(disk) /\ d[i] = disk[i]
  BY <1>4, <1>6, <1>14 DEF Solid
<1>7. Makes(Wanted, d, plan, Logicals)
  <2> SUFFICES ASSUME NEW n \in Wanted, ~ \E j \in DOMAIN plan : plan[j].id = Part(n) /\ plan[j].type = "filesystem"
               PROVE  n \notin Logicals /\ \A i \in Solid(d) : d[i].num = n => d[i].was = 0
    BY DEF Makes
  <2>1. n \notin Logicals /\ \A i \in Solid(disk) : disk[i].num = n => disk[i].was = 0
    BY <1>3 DEF Makes
  <2> QED
    BY <1>14, <2>1
<1>13. Shifts(d, plan, done, Logicals)
  BY <1>3, <1>14 DEF Shifts
<1>8. Spares(d, listed, plan, {"remove", "filesystem"}, Strays)
  <2> SUFFICES ASSUME NEW k \in Solid(listed), listed[k].id.n \notin Strays,
                      ~ \E j \in DOMAIN plan : plan[j].id = listed[k].id /\ plan[j].type \in {"remove", "filesystem"}
               PROVE  \E i \in Solid(d) : Part(d[i].was) = listed[k].id /\ d[i].was # 0
    BY DEF Spares
  <2>1. PICK i \in Solid(disk) : Part(disk[i].was) = listed[k].id /\ disk[i].was # 0
    BY <1>3 DEF Spares
  <2>2. i \in DOMAIN disk /\ ~IsFree(disk[i])
    BY DEF Solid
  <2>3. CASE t.format /\ disk[i].num = t.num
    <3>1. t.num \in Wanted
      BY <2>3 DEF Wanted
    <3>2. PICK j \in DOMAIN plan : plan[j].id = Part(t.num) /\ plan[j].type = "filesystem"
      BY <1>3, <2>1, <2>3, <3>1 DEF Makes
    <3>3. Loses(plan[j]) /\ plan[j].id = Part(disk[i].num) /\ plan[j].type # "remove"
      BY <2>3, <3>2 DEF Loses
    <3>4. plan[j].id = Part(disk[i].was) \/ disk[i].was \in Strays
      BY <1>3, <1>15, <2>1, <3>3, HitIs
    <3>5. listed[k].id.n = disk[i].was
      BY <2>1 DEF Part
    <3> QED
      BY <2>1, <3>2, <3>4, <3>5
  <2>4. CASE ~(t.format /\ disk[i].num = t.num)
    BY <1>4, <2>1, <2>2, <2>4 DEF Solid
  <2> QED
    BY <2>3, <2>4
<1>16. Strays' = Strays /\ Logicals' = Logicals
  BY <1>1, StraysStay
<1>17. Spares(disk, listed, plan, {"remove", "filesystem"}, Strays)'
  BY <1>1, <1>8, <1>16 DEF d
<1>9. OnlyNamedLost'
  BY <1>17, SparedIsNotLost, PTL
<1>10. Wanted' = Wanted /\ KeysHeld'
  BY <1>1, <1>3 DEF Wanted, KeysHeld
<1>11. Makes(Wanted, disk', plan, Logicals) /\ Spares(disk', listed, plan, {"remove", "filesystem"}, Strays)
       /\ Shifts(disk', plan, done, Logicals) /\ \A i \in DOMAIN disk' : IsRegion(disk'[i])
  BY <1>5, <1>7, <1>8, <1>13 DEF d
<1> QED
  BY <1>1, <1>9, <1>10, <1>11, <1>16 DEF LostInv

\* Nothing else is lost at any step.
LEMMA LostStep == SizesInv /\ LostInv /\ [Next]_vars => LostInv'
<1> SUFFICES ASSUME SizesInv, LostInv, [Next]_vars PROVE LostInv'
  OBVIOUS
<1>1. CASE Planning
  <2>1. phase = "planning" /\ UNCHANGED <<listed, mode, phase, disk, extended, table, done, keys, targets, made>>
    BY <1>1, PlanningStays DEF work
  <2> SUFFICES ASSUME mode # "erase" PROVE LostInv'
    BY <2>1 DEF LostInv
  <2>2. /\ Spares(disk, listed, plan, {}, {}) /\ keys = NoKeys /\ KeysHeld
        /\ \A i \in Solid(disk) : disk[i].was = disk[i].num
    BY <2>1 DEF LostInv
  <2>3. Spares(disk, listed, plan', {}, {})
    BY <2>2 DEF Spares
  <2>4. Spares(disk, listed, plan', {"remove", "filesystem"}, Strays')
    BY <2>3, SparesMore
  <2>7. Spares(disk, listed, plan, {"remove", "filesystem"}, Strays)'
    BY <2>1, <2>4
  <2>5. OnlyNamedLost'
    BY <2>7, SparedIsNotLost, PTL
  <2>6. KeysHeld'
    BY <2>1, <2>2 DEF KeysHeld
  <2> QED
    BY <2>1, <2>2, <2>3, <2>5, <2>6 DEF LostInv
<1>2. CASE ValidateInstallStorageData
  <2>1. /\ phase = "planning" /\ phase' = "partitioning" /\ table' = disk
        /\ UNCHANGED <<listed, mode, plan, parts, disk, extended, done, keys, targets, made>>
    BY <1>2 DEF ValidateInstallStorageData, request
  <2> SUFFICES ASSUME mode # "erase" PROVE LostInv'
    BY <2>1 DEF LostInv
  <2>2. /\ Spares(disk, listed, plan, {}, {}) /\ keys = NoKeys /\ KeysHeld /\ OnlyNamedLost
        /\ \A i \in Solid(disk) : disk[i].was = disk[i].num
    BY <2>1 DEF LostInv
  <2>3. Spares(disk, listed, plan, {"remove"}, Strays)
    BY <2>2, SparesMore
  <2>4. Makes(keys.format, disk, plan, Logicals)
    BY <2>2 DEF Makes, NoKeys
  <2>6. Shifts(disk, plan, done, Logicals)
    BY <2>2 DEF Shifts
  <2>7. Strays' = Strays /\ Logicals' = Logicals
    BY <2>1, StraysStay
  <2>5. KeysHeld' /\ OnlyNamedLost'
    BY <2>1, <2>2 DEF KeysHeld, OnlyNamedLost, Moved, Logical, Loses
  <2> QED
    BY <2>1, <2>2, <2>3, <2>4, <2>5, <2>6, <2>7 DEF LostInv
<1>3. CASE Create \/ Resize \/ RemovePartition \/ SetMountpoint \/ SetFilesystem
  BY <1>3, LostOperation
<1>4. CASE Commit
  BY <1>4, LostCommit
<1>5. CASE Erase
  BY <1>5 DEF Erase, LostInv, request
<1>6. CASE Format
  BY <1>6, LostFormat
<1>7. CASE Formatted \/ Fail
  <2>1. /\ phase' \in {"done", "failed"}
        /\ UNCHANGED <<listed, mode, plan, parts, disk, extended, table, done, keys, targets, made>>
    BY <1>7 DEF Formatted, Fail, request, work
  <2> QED
    BY <2>1 DEF LostInv, KeysHeld, OnlyNamedLost, Moved, Logical, Loses
<1>8. CASE UNCHANGED vars
  <2>1. UNCHANGED <<listed, mode, plan, parts, phase, disk, extended, table, done, keys, targets, made>>
    BY <1>8 DEF vars, request, work
  <2> QED
    <3>1. Strays' = Strays /\ Logicals' = Logicals
      BY <2>1, StraysStay
    <3>2. OnlyNamedLost => OnlyNamedLost'
      BY <2>1 DEF OnlyNamedLost, Moved, Logical, Loses
    <3> QED
      BY <2>1, <3>1, <3>2 DEF LostInv, KeysHeld, Wanted, Makes, Spares, Shifts
<1> QED
  BY <1>1, <1>2, <1>3, <1>4, <1>5, <1>6, <1>7, <1>8 DEF Next

-----------------------------------------------------------------------------
(* What the simulated list owes to the plan *)

\* What the first n operations of a plan do to a partition.
Acts(o, type, id) == o.type = type /\ o.id = id
Never(p, type, id, n) == \A j \in 1 .. n : ~Acts(p[j], type, id)
LastOf(j, p, type, id, n) ==
  j \in 1 .. n /\ Acts(p[j], type, id) /\ \A k \in 1 .. n : k > j => ~Acts(p[k], type, id)

\* What list s says of the partitions of list l and of those that plan p makes.
KnownNames(s, l) ==
  \A i \in Solid(s) : s[i].id = Unnamed \/ \E k \in Solid(l) : s[i].id = l[k].id
NamedOnce(s) ==
  \A i, j \in Solid(s) : s[i].id = s[j].id /\ s[i].id # Unnamed => i = j
RemovedGone(s, l, p) ==
  \A k \in Solid(l) : Never(p, "remove", l[k].id, Len(p)) => \E i \in Solid(s) : s[i].id = l[k].id
LastMount(s, p) ==
  \A i \in Solid(s), j \in Nat :
    s[i].id # Unnamed /\ LastOf(j, p, "mount", s[i].id, Len(p)) => s[i].mount = p[j].mount
LastFilesystem(s, p) ==
  \A i \in Solid(s), j \in Nat :
    s[i].id # Unnamed /\ LastOf(j, p, "filesystem", s[i].id, Len(p)) => s[i].fs = p[j].fs
FirstFilesystem(s, l, p) ==
  \A i \in Solid(s) :
    s[i].id # Unnamed /\ Never(p, "filesystem", s[i].id, Len(p)) =>
      \E k \in Solid(l) : l[k].id = s[i].id /\ l[k].fs = s[i].fs
CreatedShown(s, p) ==
  \A j \in 1 .. Len(p) : p[j].type = "create" =>
    \E i \in Solid(s) : s[i].id = Unnamed /\ s[i].fs = p[j].fs /\ s[i].mount = p[j].mount
\* An operation names a partition of l that none before it has removed.
NamesShown(l, p) ==
  \A j \in 1 .. Len(p) : p[j].type # "create" =>
    /\ \E k \in Solid(l) : p[j].id = l[k].id
    /\ \A m \in 1 .. Len(p) : m < j => ~Acts(p[m], "remove", p[j].id)
RemovedNotShown(s, p) ==
  \A i \in Solid(s) : s[i].id # Unnamed => Never(p, "remove", s[i].id, Len(p))

Planned(s, l, p) ==
  /\ KnownNames(s, l) /\ NamedOnce(s) /\ RemovedGone(s, l, p) /\ RemovedNotShown(s, p)
  /\ LastMount(s, p) /\ LastFilesystem(s, p) /\ FirstFilesystem(s, l, p)
  /\ CreatedShown(s, p) /\ NamesShown(l, p)

\* Whether one of the first n + 1 operations acts.
LEMMA NeverMore ==
  ASSUME NEW p, NEW q, NEW n \in Nat, \A j \in 1 .. n : q[j] = p[j], NEW type, NEW id
  PROVE  Never(q, type, id, n + 1) <=> Never(p, type, id, n) /\ ~Acts(q[n + 1], type, id)
<1>1. 1 .. (n + 1) = (1 .. n) \cup {n + 1}
  OBVIOUS
<1> QED
  BY <1>1 DEF Never

\* Which of the first n + 1 operations acts last.
LEMMA LastMore ==
  ASSUME NEW p, NEW q, NEW n \in Nat, \A j \in 1 .. n : q[j] = p[j], NEW type, NEW id, NEW j
  PROVE  /\ LastOf(j, q, type, id, n + 1) =>
              \/ j = n + 1 /\ Acts(q[n + 1], type, id)
              \/ LastOf(j, p, type, id, n) /\ ~Acts(q[n + 1], type, id)
         /\ LastOf(j, p, type, id, n) /\ ~Acts(q[n + 1], type, id) => LastOf(j, q, type, id, n + 1)
         /\ j = n + 1 /\ Acts(q[n + 1], type, id) => LastOf(j, q, type, id, n + 1)
<1>1. 1 .. (n + 1) = (1 .. n) \cup {n + 1} /\ \A k \in 1 .. n : k < n + 1 /\ ~(k > n + 1)
  OBVIOUS
<1>2. ASSUME LastOf(j, q, type, id, n + 1)
      PROVE  \/ j = n + 1 /\ Acts(q[n + 1], type, id)
             \/ LastOf(j, p, type, id, n) /\ ~Acts(q[n + 1], type, id)
  <2>1. j \in 1 .. (n + 1) /\ Acts(q[j], type, id) /\ \A k \in 1 .. (n + 1) : k > j => ~Acts(q[k], type, id)
    BY <1>2 DEF LastOf
  <2>2. CASE j \in 1 .. n
    <3>1. Acts(p[j], type, id) /\ ~Acts(q[n + 1], type, id)
      BY <1>1, <2>1, <2>2
    <3>2. \A k \in 1 .. n : k > j => ~Acts(p[k], type, id)
      BY <1>1, <2>1
    <3> QED
      BY <2>2, <3>1, <3>2 DEF LastOf
  <2> QED
    BY <1>1, <2>1, <2>2
<1>3. ASSUME LastOf(j, p, type, id, n), ~Acts(q[n + 1], type, id) PROVE LastOf(j, q, type, id, n + 1)
  <2>1. j \in 1 .. n /\ Acts(p[j], type, id) /\ \A k \in 1 .. n : k > j => ~Acts(p[k], type, id)
    BY <1>3 DEF LastOf
  <2>2. Acts(q[j], type, id) /\ \A k \in 1 .. (n + 1) : k > j => ~Acts(q[k], type, id)
    BY <1>1, <1>3, <2>1
  <2> QED
    BY <1>1, <2>1, <2>2 DEF LastOf
<1>4. ASSUME j = n + 1, Acts(q[n + 1], type, id) PROVE LastOf(j, q, type, id, n + 1)
  <2>1. \A k \in 1 .. (n + 1) : ~(k > n + 1)
    BY <1>1
  <2> QED
    BY <1>1, <1>4, <2>1 DEF LastOf
<1> QED
  BY <1>2, <1>3, <1>4

\* The last that acts is one of them.
LEMMA LastIsBefore ==
  ASSUME NEW p, NEW type, NEW id, NEW n \in Nat, NEW j, LastOf(j, p, type, id, n)
  PROVE  j \in 1 .. n /\ j \in Nat /\ Acts(p[j], type, id) /\ ~Never(p, type, id, n)
  BY DEF LastOf, Never

\* A plan with one more operation.
Longer(q, p, o) ==
  /\ Len(p) \in Nat /\ Len(q) = Len(p) + 1 /\ q[Len(p) + 1] = o
  /\ \A j \in 1 .. Len(p) : q[j] = p[j]

\* A plan with an operation appended is longer by it.
LEMMA Lengthened == ASSUME NEW S, NEW p \in Seq(S), NEW o \in S PROVE Longer(Append(p, o), p, o)
<1> DEFINE q == Append(p, o)
<1>1. Len(p) \in Nat /\ Len(q) = Len(p) + 1 /\ q[Len(p) + 1] = o
  OBVIOUS
<1>2. \A j \in 1 .. Len(p) : q[j] = p[j]
  OBVIOUS
<1> QED
  BY <1>1, <1>2 DEF Longer

-----------------------------------------------------------------------------
(* Planning an operation *)

\* An operation that does not concern a partition changes nothing of what came before.
LEMMA NotActed ==
  ASSUME NEW p, NEW q, NEW o, Longer(q, p, o), NEW type, NEW id, ~Acts(o, type, id)
  PROVE  /\ Never(q, type, id, Len(q)) <=> Never(p, type, id, Len(p))
         /\ \A j : LastOf(j, q, type, id, Len(q)) => LastOf(j, p, type, id, Len(p)) /\ q[j] = p[j]
<1>1. /\ Len(p) \in Nat /\ Len(q) = Len(p) + 1 /\ q[Len(p) + 1] = o
      /\ \A j \in 1 .. Len(p) : q[j] = p[j]
  BY DEF Longer
<1> DEFINE N == Len(p)
<1>4. N \in Nat /\ Len(q) = N + 1 /\ q[N + 1] = o /\ \A j \in 1 .. N : q[j] = p[j]
  BY <1>1
<1> HIDE DEF N
<1>5. Never(q, type, id, N + 1) <=> Never(p, type, id, N) /\ ~Acts(q[N + 1], type, id)
  BY <1>4, NeverMore
<1>2. Never(q, type, id, Len(q)) <=> Never(p, type, id, Len(p))
  BY <1>4, <1>5 DEF N
<1>3. ASSUME NEW j, LastOf(j, q, type, id, Len(q)) PROVE LastOf(j, p, type, id, Len(p)) /\ q[j] = p[j]
  <2>1. LastOf(j, p, type, id, Len(p))
    BY <1>1, <1>3, LastMore
  <2>2. j \in 1 .. Len(p)
    BY <1>1, <2>1, LastIsBefore
  <2> QED
    BY <1>1, <2>1, <2>2
<1> QED
  BY <1>2, <1>3

\* An operation that concerns a partition is the last that does.
LEMMA Acted ==
  ASSUME NEW p, NEW q, NEW o, Longer(q, p, o), NEW type, NEW id, Acts(o, type, id)
  PROVE  /\ ~Never(q, type, id, Len(q))
         /\ \A j : LastOf(j, q, type, id, Len(q)) => q[j] = o
<1>1. /\ Len(p) \in Nat /\ Len(q) = Len(p) + 1 /\ q[Len(p) + 1] = o
      /\ \A j \in 1 .. Len(p) : q[j] = p[j]
  BY DEF Longer
<1> DEFINE N == Len(p)
<1>4. N \in Nat /\ Len(q) = N + 1 /\ q[N + 1] = o /\ \A j \in 1 .. N : q[j] = p[j]
  BY <1>1
<1> HIDE DEF N
<1>5. Never(q, type, id, N + 1) <=> Never(p, type, id, N) /\ ~Acts(q[N + 1], type, id)
  BY <1>4, NeverMore
<1>2. ~Never(q, type, id, Len(q))
  BY <1>4, <1>5 DEF N
<1>3. ASSUME NEW j, LastOf(j, q, type, id, Len(q)) PROVE q[j] = o
  <2>1. LastOf(j, q, type, id, N + 1)
    BY <1>3, <1>4
  <2>2. j = N + 1
    BY <1>4, <2>1, LastMore
  <2> QED
    BY <1>4, <2>2
<1> QED
  BY <1>2, <1>3

\* The longer plan names only what is shown.
LEMMA NamesLonger ==
  ASSUME NEW l, NEW p, NEW q, NEW o, Longer(q, p, o), NamesShown(l, p),
         o.type # "create" => /\ \E k \in Solid(l) : o.id = l[k].id
                              /\ Never(p, "remove", o.id, Len(p))
  PROVE  NamesShown(l, q)
<1>1. /\ Len(p) \in Nat /\ Len(q) = Len(p) + 1 /\ q[Len(p) + 1] = o
      /\ \A j \in 1 .. Len(p) : q[j] = p[j]
  BY DEF Longer
<1> DEFINE N == Len(p)
<1> HIDE DEF N
<1>2. N \in Nat /\ Len(q) = N + 1 /\ q[N + 1] = o /\ \A j \in 1 .. N : q[j] = p[j]
  BY <1>1 DEF N
<1> SUFFICES ASSUME NEW j \in 1 .. (N + 1), q[j].type # "create"
             PROVE  /\ \E k \in Solid(l) : q[j].id = l[k].id
                    /\ \A m \in 1 .. (N + 1) : m < j => ~Acts(q[m], "remove", q[j].id)
  BY <1>2 DEF NamesShown
<1>3. CASE j \in 1 .. N
  <2>1. q[j] = p[j]
    BY <1>2, <1>3
  <2>2. /\ \E k \in Solid(l) : p[j].id = l[k].id
        /\ \A m \in 1 .. N : m < j => ~Acts(p[m], "remove", p[j].id)
    BY <1>3, <2>1 DEF NamesShown, N
  <2>3. \A m \in 1 .. (N + 1) : m < j => m \in 1 .. N
    BY <1>2, <1>3
  <2> QED
    BY <1>2, <2>1, <2>2, <2>3
<1>4. CASE j = N + 1
  <2>1. q[j] = o
    BY <1>2, <1>4
  <2>2. \A m \in 1 .. N : ~Acts(p[m], "remove", o.id)
    BY <2>1 DEF Never, N
  <2>3. \A m \in 1 .. (N + 1) : m < j => m \in 1 .. N
    BY <1>2, <1>4
  <2> QED
    BY <1>2, <2>1, <2>2, <2>3
<1> QED
  BY <1>2, <1>3, <1>4

\* What the partitions of the list are after a region has become another.
LEMMA Successors ==
  ASSUME NEW g, NEW c, NEW s, NEW i, NEW r, Replaced(g, c, s, i, r)
  PROVE  /\ \A m \in Solid(c) : \/ g[m] = i /\ c[m] = r /\ ~IsFree(r)
                                \/ g[m] # i /\ g[m] \in Solid(s) /\ c[m] = s[g[m]]
         /\ \A j \in Solid(s) : j # i => \E m \in Solid(c) : g[m] = j /\ c[m] = s[j]
         /\ ~IsFree(r) => \E m \in Solid(c) : g[m] = i /\ c[m] = r
         /\ \A m, n \in Solid(c) : g[m] = g[n] => m = n
  BY DEF Replaced, Solid

\* What the longer plan creates is shown.
LEMMA CreatedLonger ==
  ASSUME NEW s, NEW c, NEW p, NEW q, NEW o, Longer(q, p, o), CreatedShown(s, p),
         \A j \in Solid(s) : s[j].id = Unnamed => \E m \in Solid(c) : c[m] = s[j],
         o.type = "create" => \E i \in Solid(c) : c[i].id = Unnamed /\ c[i].fs = o.fs /\ c[i].mount = o.mount
  PROVE  CreatedShown(c, q)
<1>1. /\ Len(p) \in Nat /\ Len(q) = Len(p) + 1 /\ q[Len(p) + 1] = o
      /\ \A j \in 1 .. Len(p) : q[j] = p[j]
  BY DEF Longer
<1> SUFFICES ASSUME NEW j \in 1 .. Len(q), q[j].type = "create"
             PROVE  \E i \in Solid(c) : c[i].id = Unnamed /\ c[i].fs = q[j].fs /\ c[i].mount = q[j].mount
  BY DEF CreatedShown
<1>2. CASE j \in 1 .. Len(p)
  <2>1. q[j] = p[j]
    BY <1>1, <1>2
  <2>2. PICK i \in Solid(s) : s[i].id = Unnamed /\ s[i].fs = p[j].fs /\ s[i].mount = p[j].mount
    BY <1>2, <2>1 DEF CreatedShown
  <2> QED
    BY <2>1, <2>2
<1>3. CASE j = Len(p) + 1
  BY <1>1, <1>3
<1> QED
  BY <1>1, <1>2, <1>3
-----------------------------------------------------------------------------
\* A creation on the list is one of the longer plan.
LEMMA PlannedCreate ==
  ASSUME NEW s, NEW l, NEW p, Planned(s, l, p), NEW q, NEW o, Longer(q, p, o),
         NEW g, NEW c, NEW i, NEW r, Replaced(g, c, s, i, r), IsFree(s[i]),
         o.type = "create", ~IsFree(r), r.id = Unnamed, r.fs = o.fs, r.mount = o.mount
  PROVE  Planned(c, l, q)
<1>1. /\ \A m \in Solid(c) : c[m].id # Unnamed => g[m] \in Solid(s) /\ c[m] = s[g[m]]
      /\ \A j \in Solid(s) : \E m \in Solid(c) : c[m] = s[j]
      /\ \E m \in Solid(c) : c[m] = r
      /\ \A m, n \in Solid(c) : g[m] = g[n] => m = n
  BY Successors DEF Solid
<1>2. \A type, id : type # "create" => ~Acts(o, type, id)
  BY DEF Acts
<1>3. \A type, id : type # "create" => (Never(q, type, id, Len(q)) <=> Never(p, type, id, Len(p)))
  BY <1>2, NotActed
<1>4. \A type, id, j : type # "create" /\ LastOf(j, q, type, id, Len(q)) => LastOf(j, p, type, id, Len(p)) /\ q[j] = p[j]
  BY <1>2, NotActed
<1>5. "remove" # "create" /\ "mount" # "create" /\ "filesystem" # "create"
  OBVIOUS
<1>6. KnownNames(c, l) /\ NamedOnce(c)
  BY <1>1 DEF Planned, KnownNames, NamedOnce
<1>7. RemovedGone(c, l, q) /\ RemovedNotShown(c, q)
  BY <1>1, <1>3, <1>5 DEF Planned, RemovedGone, RemovedNotShown
<1>8. LastMount(c, q) /\ LastFilesystem(c, q)
  BY <1>1, <1>4, <1>5 DEF Planned, LastMount, LastFilesystem
<1>9. FirstFilesystem(c, l, q)
  BY <1>1, <1>3, <1>5 DEF Planned, FirstFilesystem
<1>10. CreatedShown(c, q)
  BY <1>1, CreatedLonger DEF Planned
<1>11. NamesShown(l, q)
  BY NamesLonger DEF Planned
<1> QED
  BY <1>6, <1>7, <1>8, <1>9, <1>10, <1>11 DEF Planned

\* So is a removal.
LEMMA PlannedRemove ==
  ASSUME NEW s, NEW l, NEW p, Planned(s, l, p), NEW q, NEW o, Longer(q, p, o),
         NEW g, NEW c, NEW i \in Solid(s), NEW r, Replaced(g, c, s, i, r), s[i].id # Unnamed,
         o.type = "remove", o.id = s[i].id, IsFree(r)
  PROVE  Planned(c, l, q)
<1>1. /\ \A m \in Solid(c) : g[m] # i /\ g[m] \in Solid(s) /\ c[m] = s[g[m]]
      /\ \A j \in Solid(s) : j # i => \E m \in Solid(c) : c[m] = s[j]
      /\ \A m, n \in Solid(c) : g[m] = g[n] => m = n
  BY Successors
<1>2. /\ \A type, id : type # "remove" => ~Acts(o, type, id)
      /\ \A id : id # s[i].id => ~Acts(o, "remove", id)
      /\ Acts(o, "remove", s[i].id)
  BY DEF Acts
<1>3. /\ \A type, id : type # "remove" => (Never(q, type, id, Len(q)) <=> Never(p, type, id, Len(p)))
      /\ \A id : id # s[i].id => (Never(q, "remove", id, Len(q)) <=> Never(p, "remove", id, Len(p)))
      /\ ~Never(q, "remove", s[i].id, Len(q))
  <2>1. ~Never(q, "remove", s[i].id, Len(q))
    BY <1>2, Acted
  <2> QED
    BY <1>2, <2>1, NotActed
<1>4. \A type, id, j : type # "remove" /\ LastOf(j, q, type, id, Len(q)) => LastOf(j, p, type, id, Len(p)) /\ q[j] = p[j]
  BY <1>2, NotActed
<1>5. "remove" # "create" /\ "mount" # "remove" /\ "filesystem" # "remove"
  OBVIOUS
<1>12. \A m \in Solid(c) : c[m].id # Unnamed => c[m].id # s[i].id
  BY <1>1 DEF Planned, NamedOnce
<1>6. KnownNames(c, l) /\ NamedOnce(c)
  BY <1>1 DEF Planned, KnownNames, NamedOnce
<1>7. RemovedGone(c, l, q)
  <2> SUFFICES ASSUME NEW k \in Solid(l), Never(q, "remove", l[k].id, Len(q))
               PROVE  \E m \in Solid(c) : c[m].id = l[k].id
    BY DEF RemovedGone
  <2>1. l[k].id # s[i].id
    BY <1>3
  <2>2. Never(p, "remove", l[k].id, Len(p))
    BY <1>3, <2>1
  <2>3. PICK j \in Solid(s) : s[j].id = l[k].id
    BY <2>2 DEF Planned, RemovedGone
  <2> QED
    BY <1>1, <2>1, <2>3
<1>13. RemovedNotShown(c, q)
  BY <1>1, <1>3, <1>12 DEF Planned, RemovedNotShown
<1>8. LastMount(c, q) /\ LastFilesystem(c, q)
  BY <1>1, <1>4, <1>5 DEF Planned, LastMount, LastFilesystem
<1>9. FirstFilesystem(c, l, q)
  BY <1>1, <1>3, <1>5 DEF Planned, FirstFilesystem
<1>10. CreatedShown(c, q)
  <2>1. \A j \in Solid(s) : s[j].id = Unnamed => \E m \in Solid(c) : c[m] = s[j]
    BY <1>1
  <2> QED
    BY <1>5, <2>1, CreatedLonger DEF Planned
<1>11. NamesShown(l, q)
  <2>1. (\E k \in Solid(l) : o.id = l[k].id) /\ Never(p, "remove", o.id, Len(p))
    BY DEF Planned, KnownNames, RemovedNotShown
  <2> QED
    BY <2>1, NamesLonger DEF Planned
<1> QED
  BY <1>6, <1>7, <1>8, <1>9, <1>10, <1>11, <1>13 DEF Planned

\* So is a resize, a mount point or a filesystem.
LEMMA PlannedChange ==
  ASSUME NEW s, NEW l, NEW p, Planned(s, l, p), NEW q, NEW o, Longer(q, p, o),
         NEW g, NEW c, NEW i \in Solid(s), NEW r, Replaced(g, c, s, i, r), s[i].id # Unnamed,
         o.type \in {"resize", "mount", "filesystem"}, o.id = s[i].id, ~IsFree(r), r.id = s[i].id,
         r.mount = IF o.type = "mount" THEN o.mount ELSE s[i].mount,
         r.fs = IF o.type = "filesystem" THEN o.fs ELSE s[i].fs
  PROVE  Planned(c, l, q)
<1>1. /\ \A m \in Solid(c) : g[m] \in Solid(s) /\ c[m].id = s[g[m]].id
      /\ \A m \in Solid(c) : \/ g[m] = i /\ c[m] = r
                             \/ g[m] # i /\ c[m] = s[g[m]]
      /\ \A j \in Solid(s) : \E m \in Solid(c) : c[m].id = s[j].id /\ (j # i => c[m] = s[j])
      /\ \A m, n \in Solid(c) : g[m] = g[n] => m = n
  BY Successors
<1>2. /\ \A id : ~Acts(o, "remove", id) /\ ~Acts(o, "create", id)
      /\ \A type, id : type # o.type \/ id # s[i].id => ~Acts(o, type, id)
      /\ Acts(o, o.type, s[i].id)
  BY DEF Acts
<1>3. /\ \A id : Never(q, "remove", id, Len(q)) <=> Never(p, "remove", id, Len(p))
      /\ \A id, type : type # o.type \/ id # s[i].id => (Never(q, type, id, Len(q)) <=> Never(p, type, id, Len(p)))
      /\ ~Never(q, o.type, s[i].id, Len(q))
  <2>1. ~Never(q, o.type, s[i].id, Len(q))
    BY <1>2, Acted
  <2>2. \A id : Never(q, "remove", id, Len(q)) <=> Never(p, "remove", id, Len(p))
    BY <1>2, NotActed
  <2>3. \A id, type : type # o.type \/ id # s[i].id => (Never(q, type, id, Len(q)) <=> Never(p, type, id, Len(p)))
    BY <1>2, NotActed
  <2> QED
    BY <2>1, <2>2, <2>3
<1>4. \A type, id, j : (type # o.type \/ id # s[i].id) /\ LastOf(j, q, type, id, Len(q)) =>
        LastOf(j, p, type, id, Len(p)) /\ q[j] = p[j]
  BY <1>2, NotActed
<1>5. \A j : LastOf(j, q, o.type, s[i].id, Len(q)) => q[j] = o
  BY <1>2, Acted
<1>6. KnownNames(c, l) /\ NamedOnce(c)
  BY <1>1 DEF Planned, KnownNames, NamedOnce
<1>12. \A m \in Solid(c) : g[m] # i /\ c[m].id # Unnamed => c[m].id # s[i].id
  BY <1>1 DEF Planned, NamedOnce
<1>7. RemovedGone(c, l, q)
  BY <1>1, <1>3 DEF Planned, RemovedGone
<1>13. RemovedNotShown(c, q)
  BY <1>1, <1>3 DEF Planned, RemovedNotShown
<1>8. LastMount(c, q)
  <2> SUFFICES ASSUME NEW m \in Solid(c), NEW j \in Nat, c[m].id # Unnamed,
                      LastOf(j, q, "mount", c[m].id, Len(q))
               PROVE  c[m].mount = q[j].mount
    BY DEF LastMount
  <2>1. \A n \in Solid(s), h \in Nat :
          s[n].id # Unnamed /\ LastOf(h, p, "mount", s[n].id, Len(p)) => s[n].mount = p[h].mount
    BY DEF Planned, LastMount
  <2>2. CASE g[m] = i /\ o.type = "mount"
    <3>1. c[m] = r /\ q[j] = o
      BY <1>1, <1>5, <2>2
    <3> QED
      BY <2>2, <3>1
  <2>3. CASE g[m] = i /\ o.type # "mount"
    <3>1. c[m] = r /\ r.mount = s[i].mount /\ LastOf(j, p, "mount", s[i].id, Len(p)) /\ q[j] = p[j]
      BY <1>1, <1>4, <2>3
    <3> QED
      BY <2>1, <3>1
  <2>4. CASE g[m] # i
    <3>1. c[m] = s[g[m]] /\ LastOf(j, p, "mount", s[g[m]].id, Len(p)) /\ q[j] = p[j]
      BY <1>1, <1>4, <1>12, <2>4
    <3> QED
      BY <1>1, <2>1, <3>1
  <2> QED
    BY <2>2, <2>3, <2>4
<1>14. LastFilesystem(c, q)
  <2> SUFFICES ASSUME NEW m \in Solid(c), NEW j \in Nat, c[m].id # Unnamed,
                      LastOf(j, q, "filesystem", c[m].id, Len(q))
               PROVE  c[m].fs = q[j].fs
    BY DEF LastFilesystem
  <2>1. \A n \in Solid(s), h \in Nat :
          s[n].id # Unnamed /\ LastOf(h, p, "filesystem", s[n].id, Len(p)) => s[n].fs = p[h].fs
    BY DEF Planned, LastFilesystem
  <2>2. CASE g[m] = i /\ o.type = "filesystem"
    <3>1. c[m] = r /\ q[j] = o
      BY <1>1, <1>5, <2>2
    <3> QED
      BY <2>2, <3>1
  <2>3. CASE g[m] = i /\ o.type # "filesystem"
    <3>1. c[m] = r /\ r.fs = s[i].fs /\ LastOf(j, p, "filesystem", s[i].id, Len(p)) /\ q[j] = p[j]
      BY <1>1, <1>4, <2>3
    <3> QED
      BY <2>1, <3>1
  <2>4. CASE g[m] # i
    <3>1. c[m] = s[g[m]] /\ LastOf(j, p, "filesystem", s[g[m]].id, Len(p)) /\ q[j] = p[j]
      BY <1>1, <1>4, <1>12, <2>4
    <3> QED
      BY <1>1, <2>1, <3>1
  <2> QED
    BY <2>2, <2>3, <2>4
<1>9. FirstFilesystem(c, l, q)
  <2> SUFFICES ASSUME NEW m \in Solid(c), c[m].id # Unnamed, Never(q, "filesystem", c[m].id, Len(q))
               PROVE  \E k \in Solid(l) : l[k].id = c[m].id /\ l[k].fs = c[m].fs
    BY DEF FirstFilesystem
  <2>1. g[m] = i => o.type # "filesystem"
    BY <1>1, <1>3
  <2>2. c[m].fs = s[g[m]].fs /\ c[m].id = s[g[m]].id /\ g[m] \in Solid(s)
    BY <1>1, <2>1
  <2>3. Never(p, "filesystem", c[m].id, Len(p))
    BY <1>1, <1>3, <1>12, <2>1
  <2>4. \E k \in Solid(l) : l[k].id = s[g[m]].id /\ l[k].fs = s[g[m]].fs
    BY <2>2, <2>3 DEF Planned, FirstFilesystem
  <2> QED
    BY <2>2, <2>4
<1>10. CreatedShown(c, q)
  <2>1. \A j \in Solid(s) : s[j].id = Unnamed => \E m \in Solid(c) : c[m] = s[j]
    BY <1>1
  <2>2. o.type # "create"
    OBVIOUS
  <2> QED
    BY <2>1, <2>2, CreatedLonger DEF Planned
<1>11. NamesShown(l, q)
  <2>1. (\E k \in Solid(l) : o.id = l[k].id) /\ Never(p, "remove", o.id, Len(p))
    BY DEF Planned, KnownNames, RemovedNotShown
  <2> QED
    BY <2>1, NamesLonger DEF Planned
<1> QED
  BY <1>6, <1>7, <1>8, <1>9, <1>10, <1>11, <1>13, <1>14 DEF Planned

-----------------------------------------------------------------------------
(* What the table owes to the plan *)

\* The partitions of table t that the plan knows by the numbers they have, and
\* those that it made; v has the numbers that libparted may give anew.
Kept(t, v) == {i \in Solid(t) : t[i].num \notin v /\ t[i].was = t[i].num}
Fresher(t, v) == {i \in Solid(t) : t[i].num \notin v /\ t[i].was = 0}

\* What the table and the worker's maps say of the first n operations.
NumberedOnce(t) == \A i, j \in Solid(t) : t[i].num = t[j].num => i = j
SparedOn(t, v, l, p, n) ==
  \A k \in Solid(l) : Never(p, "remove", l[k].id, n) =>
    \/ \E b \in v : l[k].id = Part(b)
    \/ \E i \in Kept(t, v) : Part(t[i].num) = l[k].id /\ t[i].fs = l[k].fs
OldMounted(t, v, m, p, n) ==
  \A i \in Kept(t, v) : t[i].num \in DOMAIN m =>
    \E j \in 1 .. n : LastOf(j, p, "mount", Part(t[i].num), n) /\ m[t[i].num] = p[j].mount
OldSet(t, v, f, p, n) ==
  \A i \in Kept(t, v) : t[i].num \in DOMAIN f =>
    \E j \in 1 .. n : LastOf(j, p, "filesystem", Part(t[i].num), n) /\ f[t[i].num] = p[j].fs
OldUnset(t, v, f, p, n) ==
  \A i \in Kept(t, v) : t[i].num \notin DOMAIN f => Never(p, "filesystem", Part(t[i].num), n)
OldKept(t, v, p, n) ==
  \A i \in Kept(t, v) : Never(p, "remove", Part(t[i].num), n)
OldFormat(t, v, f, x) ==
  \A i \in Kept(t, v) : t[i].num \in x <=> t[i].num \in DOMAIN f
NewKeys(t, v, m, f, x, p, n) ==
  \A i \in Fresher(t, v) :
    /\ t[i].num \in DOMAIN m /\ t[i].num \in DOMAIN f /\ t[i].num \in x
    /\ \E j \in 1 .. n : p[j].type = "create" /\ m[t[i].num] = p[j].mount /\ f[t[i].num] = p[j].fs
KeysOn(t, v, m) ==
  \A b \in DOMAIN m : b \in v \/ \E i \in Kept(t, v) \cup Fresher(t, v) : t[i].num = b
\* New partitions are not logical ones, and no number becomes a higher one.
Behind(t) ==
  \A i \in Solid(t) :
    /\ t[i].num \in Nat \ {0} /\ t[i].was \in Nat
    /\ IF t[i].was = 0 THEN ~Logical(t[i].num) ELSE t[i].was >= t[i].num

Executed(t, v, m, f, x, l, p, n) ==
  /\ NumberedOnce(t) /\ SparedOn(t, v, l, p, n) /\ OldKept(t, v, p, n)
  /\ OldMounted(t, v, m, p, n) /\ OldSet(t, v, f, p, n) /\ OldUnset(t, v, f, p, n) /\ OldFormat(t, v, f, x)
  /\ NewKeys(t, v, m, f, x, p, n) /\ KeysOn(t, v, m) /\ Behind(t)

\* A map without one of its keys.
LEMMA MinusIs ==
  ASSUME NEW f, NEW b
  PROVE  /\ DOMAIN Minus(f, b) = DOMAIN f \ {b}
         /\ \A a \in DOMAIN f : a # b => Minus(f, b)[a] = f[a]
  BY DEF Minus

\* An operation that does not act leaves who acted last.
LEMMA NotActedHere ==
  ASSUME NEW p, NEW n \in Nat, NEW type, NEW id, ~Acts(p[n + 1], type, id)
  PROVE  /\ Never(p, type, id, n + 1) <=> Never(p, type, id, n)
         /\ \A j : LastOf(j, p, type, id, n) => LastOf(j, p, type, id, n + 1)
  BY NeverMore, LastMore

\* One that acts is the last to.
LEMMA ActedHere ==
  ASSUME NEW p, NEW n \in Nat, NEW type, NEW id, Acts(p[n + 1], type, id)
  PROVE  LastOf(n + 1, p, type, id, n + 1) /\ ~Never(p, type, id, n + 1)
  BY NeverMore, LastMore

\* The first n numbers are among the first n + 1.
LEMMA Longer1 == ASSUME NEW n \in Nat PROVE 1 .. n \subseteq 1 .. (n + 1) /\ n + 1 \in 1 .. (n + 1)
  OBVIOUS

\* What an operation names, other than a free region, was on the disk under that
\* name, or has one that libparted may have given it.
LEMMA NamedIsOld ==
  ASSUME NEW t, NEW v, NEW m, NEW f, NEW x, NEW l, NEW p, NEW n \in Nat, Executed(t, v, m, f, x, l, p, n),
         NamesShown(l, p), Len(p) \in Nat, n < Len(p), p[n + 1].type # "create",
         NEW i \in Solid(t), p[n + 1].id = Part(t[i].num)
  PROVE  t[i].num \in v \/ i \in Kept(t, v)
<1>1. n + 1 \in 1 .. Len(p) /\ \A j \in 1 .. n : j \in 1 .. Len(p) /\ j < n + 1
  OBVIOUS
<1>2. PICK k \in Solid(l) : p[n + 1].id = l[k].id
  BY <1>1 DEF NamesShown
<1>3. \A j \in 1 .. Len(p) : j < n + 1 => ~Acts(p[j], "remove", p[n + 1].id)
  BY <1>1 DEF NamesShown
<1>4. Never(p, "remove", l[k].id, n)
  BY <1>1, <1>2, <1>3 DEF Never
<1>5. \/ \E b \in v : l[k].id = Part(b)
      \/ \E h \in Kept(t, v) : Part(t[h].num) = l[k].id
  BY <1>4 DEF Executed, SparedOn
<1>6. CASE \E b \in v : l[k].id = Part(b)
  BY <1>2, <1>6, PartsDiffer
<1>7. CASE \E h \in Kept(t, v) : Part(t[h].num) = l[k].id
  <2>1. PICK h \in Kept(t, v) : Part(t[h].num) = l[k].id
    BY <1>7
  <2>2. t[h].num = t[i].num /\ h \in Solid(t)
    BY <1>2, <2>1, PartsDiffer DEF Kept
  <2> QED
    BY <2>1, <2>2 DEF Executed, NumberedOnce
<1> QED
  BY <1>5, <1>6, <1>7
-----------------------------------------------------------------------------
\* The worker's creation is one operation more of the plan.
LEMMA ExecutedCreate ==
  ASSUME NEW t, NEW v, NEW m, NEW f, NEW x, NEW l, NEW p, NEW n \in Nat, Executed(t, v, m, f, x, l, p, n),
         NEW g, NEW c, NEW i, NEW r, Replaced(g, c, t, i, r), IsFree(t[i]), v \subseteq Logicals,
         NEW o, o = p[n + 1], o.type = "create", ~IsFree(r), r.was = 0,
         NEW b \in Nat \ {0}, ~Logical(b), r.num = b,
         \A j \in DOMAIN t : t[j].num # b
  PROVE  Executed(c, v, With(m, b, o.mount), With(f, b, o.fs), x \cup {b}, l, p, n + 1)
<1> DEFINE M == With(m, b, o.mount)
           F == With(f, b, o.fs)
           X == x \cup {b}
<1>0. b \notin v
  BY DEF Logicals
<1>1. /\ \A h \in Solid(c) : \/ g[h] = i /\ c[h] = r /\ c[h].num = b /\ c[h].was = 0
                             \/ g[h] # i /\ g[h] \in Solid(t) /\ c[h] = t[g[h]] /\ c[h].num # b
      /\ \A j \in Solid(t) : \E h \in Solid(c) : c[h] = t[j]
      /\ \E h \in Solid(c) : c[h] = r
      /\ \A h, k \in Solid(c) : g[h] = g[k] => h = k
  BY Successors DEF Solid
<1>20. /\ \A h \in Kept(c, v) : g[h] \in Kept(t, v) /\ c[h] = t[g[h]] /\ c[h].num # b
       /\ \A j \in Kept(t, v) : \E h \in Kept(c, v) : c[h] = t[j]
       /\ \A h \in Fresher(c, v) : \/ c[h].num = b
                                   \/ g[h] \in Fresher(t, v) /\ c[h] = t[g[h]] /\ c[h].num # b
       /\ \A j \in Fresher(t, v) : \E h \in Fresher(c, v) : c[h] = t[j]
       /\ \E h \in Fresher(c, v) : c[h].num = b
  <2>1. /\ \A h \in Kept(c, v) : h \in Solid(c) /\ c[h].num \notin v /\ c[h].was = c[h].num
        /\ \A h \in Fresher(c, v) : h \in Solid(c) /\ c[h].num \notin v /\ c[h].was = 0
        /\ \A j \in Solid(t) : t[j].num \notin v /\ t[j].was = t[j].num => j \in Kept(t, v)
        /\ \A j \in Solid(t) : t[j].num \notin v /\ t[j].was = 0 => j \in Fresher(t, v)
    BY DEF Kept, Fresher
  <2>2. /\ \A h \in Solid(c) : c[h].num \notin v /\ c[h].was = c[h].num => h \in Kept(c, v)
        /\ \A h \in Solid(c) : c[h].num \notin v /\ c[h].was = 0 => h \in Fresher(c, v)
        /\ \A j \in Kept(t, v) : j \in Solid(t) /\ t[j].num \notin v /\ t[j].was = t[j].num
        /\ \A j \in Fresher(t, v) : j \in Solid(t) /\ t[j].num \notin v /\ t[j].was = 0
    BY DEF Kept, Fresher
  <2>3. b # 0
    OBVIOUS
  <2>4. /\ \A h \in Kept(c, v) : g[h] \in Kept(t, v) /\ c[h] = t[g[h]] /\ c[h].num # b
        /\ \A h \in Fresher(c, v) : \/ c[h].num = b
                                    \/ g[h] \in Fresher(t, v) /\ c[h] = t[g[h]] /\ c[h].num # b
    BY <1>1, <2>1, <2>3
  <2>5. /\ \A j \in Kept(t, v) : \E h \in Kept(c, v) : c[h] = t[j]
        /\ \A j \in Fresher(t, v) : \E h \in Fresher(c, v) : c[h] = t[j]
    BY <1>1, <2>2
  <2>6. \E h \in Fresher(c, v) : c[h].num = b
    BY <1>0, <1>1, <2>2
  <2> QED
    BY <2>4, <2>5, <2>6
<1>2. \A type, id : type # "create" => ~Acts(p[n + 1], type, id)
  BY DEF Acts
<1>3. /\ \A type, id : type # "create" => (Never(p, type, id, n + 1) <=> Never(p, type, id, n))
      /\ \A type, id, j : type # "create" /\ LastOf(j, p, type, id, n) => LastOf(j, p, type, id, n + 1)
  BY <1>2, NotActedHere
<1>4. "remove" # "create" /\ "mount" # "create" /\ "filesystem" # "create"
  OBVIOUS
<1>5. /\ DOMAIN M = DOMAIN m \cup {b} /\ M[b] = o.mount /\ \A a \in DOMAIN m : a # b => M[a] = m[a]
      /\ DOMAIN F = DOMAIN f \cup {b} /\ F[b] = o.fs /\ \A a \in DOMAIN f : a # b => F[a] = f[a]
      /\ \A a : a \in X <=> a \in x \/ a = b
  <2>1. DOMAIN M = DOMAIN m \cup {b} /\ M[b] = o.mount /\ \A a \in DOMAIN m : a # b => M[a] = m[a]
    BY DEF With
  <2>2. DOMAIN F = DOMAIN f \cup {b} /\ F[b] = o.fs /\ \A a \in DOMAIN f : a # b => F[a] = f[a]
    BY DEF With
  <2> QED
    BY <2>1, <2>2
<1> HIDE DEF M, F, X
<1>6. 1 .. n \subseteq 1 .. (n + 1) /\ n + 1 \in 1 .. (n + 1)
  BY Longer1
<1>7. NumberedOnce(c)
  BY <1>1 DEF Executed, NumberedOnce
<1>8. SparedOn(c, v, l, p, n + 1)
  BY <1>20, <1>3, <1>4 DEF Executed, SparedOn
<1>9. OldKept(c, v, p, n + 1)
  BY <1>20, <1>3, <1>4 DEF Executed, OldKept
<1>16. OldUnset(c, v, F, p, n + 1)
  <2> SUFFICES ASSUME NEW h \in Kept(c, v), c[h].num \notin DOMAIN F
               PROVE  Never(p, "filesystem", Part(c[h].num), n + 1)
    BY DEF OldUnset
  <2>1. g[h] \in Kept(t, v) /\ c[h] = t[g[h]] /\ c[h].num \notin DOMAIN f
    BY <1>20, <1>5
  <2>2. Never(p, "filesystem", Part(c[h].num), n)
    BY <2>1 DEF Executed, OldUnset
  <2> QED
    BY <1>3, <1>4, <2>2
<1>10. OldMounted(c, v, M, p, n + 1)
  <2> SUFFICES ASSUME NEW h \in Kept(c, v), c[h].num \in DOMAIN M
               PROVE  \E j \in 1 .. (n + 1) : LastOf(j, p, "mount", Part(c[h].num), n + 1) /\ M[c[h].num] = p[j].mount
    BY DEF OldMounted
  <2>1. g[h] \in Kept(t, v) /\ c[h] = t[g[h]] /\ c[h].num # b
    BY <1>20
  <2>2. PICK j \in 1 .. n : LastOf(j, p, "mount", Part(c[h].num), n) /\ m[c[h].num] = p[j].mount
    BY <1>5, <2>1 DEF Executed, OldMounted
  <2> QED
    BY <1>3, <1>4, <1>5, <1>6, <2>1, <2>2
<1>11. OldSet(c, v, F, p, n + 1)
  <2> SUFFICES ASSUME NEW h \in Kept(c, v), c[h].num \in DOMAIN F
               PROVE  \E j \in 1 .. (n + 1) : LastOf(j, p, "filesystem", Part(c[h].num), n + 1) /\ F[c[h].num] = p[j].fs
    BY DEF OldSet
  <2>1. g[h] \in Kept(t, v) /\ c[h] = t[g[h]] /\ c[h].num # b
    BY <1>20
  <2>2. PICK j \in 1 .. n : LastOf(j, p, "filesystem", Part(c[h].num), n) /\ f[c[h].num] = p[j].fs
    BY <1>5, <2>1 DEF Executed, OldSet
  <2> QED
    BY <1>3, <1>4, <1>5, <1>6, <2>1, <2>2
<1>12. OldFormat(c, v, F, X)
  BY <1>20, <1>5 DEF Executed, OldFormat
<1>13. NewKeys(c, v, M, F, X, p, n + 1)
  <2> SUFFICES ASSUME NEW h \in Fresher(c, v)
               PROVE  /\ c[h].num \in DOMAIN M /\ c[h].num \in DOMAIN F /\ c[h].num \in X
                      /\ \E j \in 1 .. (n + 1) :
                           p[j].type = "create" /\ M[c[h].num] = p[j].mount /\ F[c[h].num] = p[j].fs
    BY DEF NewKeys
  <2>1. CASE c[h].num = b
    BY <1>5, <1>6, <2>1
  <2>2. CASE c[h].num # b
    <3>1. g[h] \in Fresher(t, v) /\ c[h] = t[g[h]]
      BY <1>20, <2>2
    <3>2. /\ c[h].num \in DOMAIN m /\ c[h].num \in DOMAIN f /\ c[h].num \in x
          /\ \E j \in 1 .. n : p[j].type = "create" /\ m[c[h].num] = p[j].mount /\ f[c[h].num] = p[j].fs
      BY <3>1 DEF Executed, NewKeys
    <3> QED
      BY <1>5, <1>6, <2>2, <3>2
  <2> QED
    BY <2>1, <2>2
<1>14. KeysOn(c, v, M)
  BY <1>20, <1>5 DEF Executed, KeysOn
<1>17. Behind(c)
  BY <1>1 DEF Executed, Behind
<1>15. Executed(c, v, M, F, X, l, p, n + 1)
  BY <1>7, <1>8, <1>9, <1>10, <1>11, <1>12, <1>13, <1>14, <1>16, <1>17 DEF Executed
<1> QED
  BY <1>15 DEF M, F, X

\* So is its resize.
LEMMA ExecutedResize ==
  ASSUME NEW t, NEW v, NEW m, NEW f, NEW x, NEW l, NEW p, NEW n \in Nat, Executed(t, v, m, f, x, l, p, n),
         NEW g, NEW c, NEW i \in Solid(t), NEW r, Replaced(g, c, t, i, r),
         p[n + 1].type = "resize", ~IsFree(r), r.num = t[i].num, r.fs = t[i].fs, r.was = t[i].was
  PROVE  Executed(c, v, m, f, x, l, p, n + 1)
<1>1. /\ \A h \in Solid(c) : g[h] \in Solid(t) /\ c[h].num = t[g[h]].num /\ c[h].was = t[g[h]].was
      /\ \A j \in Solid(t) : \E h \in Solid(c) : c[h].num = t[j].num /\ c[h].fs = t[j].fs /\ c[h].was = t[j].was
      /\ \A h, k \in Solid(c) : g[h] = g[k] => h = k
  BY Successors
<1>20. /\ \A h \in Kept(c, v) : g[h] \in Kept(t, v) /\ c[h].num = t[g[h]].num
       /\ \A j \in Kept(t, v) : \E h \in Kept(c, v) : c[h].num = t[j].num /\ c[h].fs = t[j].fs
       /\ \A h \in Fresher(c, v) : g[h] \in Fresher(t, v) /\ c[h].num = t[g[h]].num
       /\ \A j \in Fresher(t, v) : \E h \in Fresher(c, v) : c[h].num = t[j].num
  BY <1>1 DEF Kept, Fresher
<1>2. \A type, id : type # "resize" => ~Acts(p[n + 1], type, id)
  BY DEF Acts
<1>3. /\ \A type, id : type # "resize" => (Never(p, type, id, n + 1) <=> Never(p, type, id, n))
      /\ \A type, id, j : type # "resize" /\ LastOf(j, p, type, id, n) => LastOf(j, p, type, id, n + 1)
  BY <1>2, NotActedHere
<1>4. "remove" # "resize" /\ "mount" # "resize" /\ "filesystem" # "resize"
  OBVIOUS
<1>6. 1 .. n \subseteq 1 .. (n + 1)
  BY Longer1
<1>7. NumberedOnce(c)
  BY <1>1 DEF Executed, NumberedOnce
<1>8. SparedOn(c, v, l, p, n + 1)
  BY <1>20, <1>3, <1>4 DEF Executed, SparedOn
<1>9. OldKept(c, v, p, n + 1) /\ OldUnset(c, v, f, p, n + 1)
  BY <1>20, <1>3, <1>4 DEF Executed, OldKept, OldUnset
<1>10. OldMounted(c, v, m, p, n + 1)
  BY <1>20, <1>3, <1>4, <1>6 DEF Executed, OldMounted
<1>11. OldSet(c, v, f, p, n + 1)
  BY <1>20, <1>3, <1>4, <1>6 DEF Executed, OldSet
<1>12. OldFormat(c, v, f, x)
  BY <1>20 DEF Executed, OldFormat
<1>13. NewKeys(c, v, m, f, x, p, n + 1)
  BY <1>20, <1>6 DEF Executed, NewKeys
<1>14. KeysOn(c, v, m)
  BY <1>20 DEF Executed, KeysOn
<1>15. Behind(c)
  BY <1>1 DEF Executed, Behind
<1> QED
  BY <1>7, <1>8, <1>9, <1>10, <1>11, <1>12, <1>13, <1>14, <1>15 DEF Executed

\* So is its removal.
LEMMA ExecutedRemove ==
  ASSUME NEW t, NEW v, NEW m, NEW f, NEW x, NEW l, NEW p, NEW n \in Nat, Executed(t, v, m, f, x, l, p, n),
         NEW g, NEW c, NEW i \in Solid(t), NEW r, Replaced(g, c, t, i, r), IsFree(r),
         NEW b, t[i].num = b, p[n + 1].type = "remove", p[n + 1].id = Part(b)
  PROVE  Executed(c, v, Minus(m, b), Minus(f, b), x \ {b}, l, p, n + 1)
<1> DEFINE M == Minus(m, b)
           F == Minus(f, b)
           X == x \ {b}
<1>1. /\ \A h \in Solid(c) : g[h] # i /\ g[h] \in Solid(t) /\ c[h] = t[g[h]] /\ c[h].num # b
      /\ \A j \in Solid(t) : t[j].num # b => \E h \in Solid(c) : c[h] = t[j]
      /\ \A h, k \in Solid(c) : g[h] = g[k] => h = k
  BY Successors DEF Executed, NumberedOnce
<1>20. /\ \A h \in Kept(c, v) : g[h] \in Kept(t, v) /\ c[h] = t[g[h]] /\ c[h].num # b
       /\ \A j \in Kept(t, v) : t[j].num # b => \E h \in Kept(c, v) : c[h] = t[j]
       /\ \A h \in Fresher(c, v) : g[h] \in Fresher(t, v) /\ c[h] = t[g[h]] /\ c[h].num # b
       /\ \A j \in Fresher(t, v) : t[j].num # b => \E h \in Fresher(c, v) : c[h] = t[j]
  BY <1>1 DEF Kept, Fresher
<1>2. /\ \A type, id : type # "remove" => ~Acts(p[n + 1], type, id)
      /\ \A a : a # b => ~Acts(p[n + 1], "remove", Part(a))
      /\ \A id : id # Part(b) => ~Acts(p[n + 1], "remove", id)
      /\ Acts(p[n + 1], "remove", Part(b))
  BY PartsDiffer DEF Acts
<1>3. /\ \A type, id : type # "remove" => (Never(p, type, id, n + 1) <=> Never(p, type, id, n))
      /\ \A id : id # Part(b) => (Never(p, "remove", id, n + 1) <=> Never(p, "remove", id, n))
      /\ \A type, id, j : type # "remove" /\ LastOf(j, p, type, id, n) => LastOf(j, p, type, id, n + 1)
  BY <1>2, NotActedHere
<1>4. "mount" # "remove" /\ "filesystem" # "remove" /\ "create" # "remove" /\ ~Never(p, "remove", Part(b), n + 1)
  BY <1>2, ActedHere
<1>5. /\ DOMAIN M = DOMAIN m \ {b} /\ \A a \in DOMAIN m : a # b => M[a] = m[a]
      /\ DOMAIN F = DOMAIN f \ {b} /\ \A a \in DOMAIN f : a # b => F[a] = f[a]
      /\ \A a : a \in X <=> a \in x /\ a # b
  <2>1. DOMAIN M = DOMAIN m \ {b} /\ \A a \in DOMAIN m : a # b => M[a] = m[a]
    BY MinusIs
  <2>2. DOMAIN F = DOMAIN f \ {b} /\ \A a \in DOMAIN f : a # b => F[a] = f[a]
    BY MinusIs
  <2> QED
    BY <2>1, <2>2
<1> HIDE DEF M, F, X
<1>6. 1 .. n \subseteq 1 .. (n + 1)
  BY Longer1
<1>7. NumberedOnce(c)
  BY <1>1 DEF Executed, NumberedOnce
<1>8. SparedOn(c, v, l, p, n + 1)
  <2> SUFFICES ASSUME NEW k \in Solid(l), Never(p, "remove", l[k].id, n + 1), \A a \in v : l[k].id # Part(a)
               PROVE  \E h \in Kept(c, v) : Part(c[h].num) = l[k].id /\ c[h].fs = l[k].fs
    BY DEF SparedOn
  <2>1. l[k].id # Part(b)
    BY <1>4
  <2>2. PICK j \in Kept(t, v) : Part(t[j].num) = l[k].id /\ t[j].fs = l[k].fs
    BY <1>3, <2>1 DEF Executed, SparedOn
  <2>3. t[j].num # b
    BY <2>1, <2>2
  <2> QED
    BY <1>20, <2>2, <2>3
<1>9. OldKept(c, v, p, n + 1)
  <2> SUFFICES ASSUME NEW h \in Kept(c, v) PROVE Never(p, "remove", Part(c[h].num), n + 1)
    BY DEF OldKept
  <2>1. Never(p, "remove", Part(c[h].num), n) /\ Part(c[h].num) # Part(b)
    BY <1>20, PartsDiffer DEF Executed, OldKept
  <2> QED
    BY <1>3, <2>1
<1>16. OldUnset(c, v, F, p, n + 1)
  <2> SUFFICES ASSUME NEW h \in Kept(c, v), c[h].num \notin DOMAIN F
               PROVE  Never(p, "filesystem", Part(c[h].num), n + 1)
    BY DEF OldUnset
  <2>1. g[h] \in Kept(t, v) /\ c[h] = t[g[h]] /\ c[h].num \notin DOMAIN f
    BY <1>20, <1>5
  <2>2. Never(p, "filesystem", Part(c[h].num), n)
    BY <2>1 DEF Executed, OldUnset
  <2> QED
    BY <1>3, <1>4, <2>2
<1>10. OldMounted(c, v, M, p, n + 1)
  BY <1>20, <1>3, <1>4, <1>5, <1>6 DEF Executed, OldMounted
<1>11. OldSet(c, v, F, p, n + 1)
  BY <1>20, <1>3, <1>4, <1>5, <1>6 DEF Executed, OldSet
<1>12. OldFormat(c, v, F, X)
  BY <1>20, <1>5 DEF Executed, OldFormat
<1>13. NewKeys(c, v, M, F, X, p, n + 1)
  <2> SUFFICES ASSUME NEW h \in Fresher(c, v)
               PROVE  /\ c[h].num \in DOMAIN M /\ c[h].num \in DOMAIN F /\ c[h].num \in X
                      /\ \E j \in 1 .. (n + 1) :
                           p[j].type = "create" /\ M[c[h].num] = p[j].mount /\ F[c[h].num] = p[j].fs
    BY DEF NewKeys
  <2>1. g[h] \in Fresher(t, v) /\ c[h] = t[g[h]] /\ c[h].num # b
    BY <1>20
  <2>2. /\ c[h].num \in DOMAIN m /\ c[h].num \in DOMAIN f /\ c[h].num \in x
        /\ \E j \in 1 .. n : p[j].type = "create" /\ m[c[h].num] = p[j].mount /\ f[c[h].num] = p[j].fs
    BY <2>1 DEF Executed, NewKeys
  <2> QED
    BY <1>5, <1>6, <2>1, <2>2
<1>14. KeysOn(c, v, M)
  BY <1>20, <1>5 DEF Executed, KeysOn
<1>17. Behind(c)
  BY <1>1 DEF Executed, Behind
<1>15. Executed(c, v, M, F, X, l, p, n + 1)
  BY <1>7, <1>8, <1>9, <1>10, <1>11, <1>12, <1>13, <1>14, <1>16, <1>17 DEF Executed
<1> QED
  BY <1>15 DEF M, F, X

\* Nothing has the number of a partition that is gone.
LEMMA GoneNumber ==
  ASSUME NEW t, NumberedOnce(t), NEW g, NEW c, NEW i \in Solid(t), NEW r, Replaced(g, c, t, i, r), IsFree(r)
  PROVE  \A h \in Solid(c) : c[h].num # t[i].num
  BY Successors DEF NumberedOnce

\* And with the logical partitions behind it numbered anew.
LEMMA ExecutedRenumbered ==
  ASSUME NEW t, NEW v, NEW m, NEW f, NEW x, NEW l, NEW p, NEW n, Executed(t, v, m, f, x, l, p, n),
         NEW b \in Nat, \A i \in Solid(t) : t[i].num # b,
         NEW u, Shifted(u, t, b), \A a \in Nat : Logical(b) /\ a > b => a \in v
  PROVE  Executed(u, v, m, f, x, l, p, n)
<1>1. /\ Solid(u) = Solid(t)
      /\ \A i \in Solid(t) :
           /\ u[i].fs = t[i].fs /\ u[i].was = t[i].was /\ t[i].num \in Nat /\ t[i].was \in Nat
           /\ u[i].num = IF Logical(b) /\ t[i].num > b THEN t[i].num - 1 ELSE t[i].num
  BY DEF Shifted, Solid, IsFree
<1>2. ASSUME NEW i \in Solid(t), Logical(b), t[i].num > b
      PROVE  /\ t[i].num \in v /\ u[i].num = t[i].num - 1 /\ u[i].num \in Nat \ {0} /\ u[i].num >= b
             /\ u[i].was # 0 /\ u[i].was > u[i].num
  <2>1. Logical(t[i].num)
    BY <1>1, <1>2 DEF Logical
  <2>2. t[i].was # 0 /\ t[i].was >= t[i].num
    BY <2>1 DEF Executed, Behind
  <2>3. b > 4
    BY <1>2 DEF Logical
  <2> QED
    BY <1>1, <1>2, <2>2, <2>3
<1>3. ASSUME NEW i \in Solid(t), ~(Logical(b) /\ t[i].num > b)
      PROVE  u[i].num = t[i].num
  BY <1>1, <1>3
<1>4. NumberedOnce(u)
  <2> SUFFICES ASSUME NEW i \in Solid(t), NEW j \in Solid(t), u[i].num = u[j].num PROVE t[i].num = t[j].num
    BY <1>1 DEF Executed, NumberedOnce
  <2>1. t[i].num # b /\ t[j].num # b
    OBVIOUS
  <2> QED
    BY <1>1, <2>1
<1>5. /\ \A i \in Kept(u, v) : i \in Kept(t, v) /\ u[i].num = t[i].num
      /\ \A i \in Kept(t, v) : i \in Kept(u, v) /\ u[i].num = t[i].num /\ u[i].fs = t[i].fs
      /\ \A i \in Fresher(u, v) : i \in Fresher(t, v) /\ u[i].num = t[i].num
      /\ \A i \in Fresher(t, v) : i \in Fresher(u, v) /\ u[i].num = t[i].num
  <2>1. ASSUME NEW i \in Solid(t), Logical(b), t[i].num > b
        PROVE  i \notin Kept(u, v) /\ i \notin Kept(t, v) /\ i \notin Fresher(u, v) /\ i \notin Fresher(t, v)
    <3>1. t[i].num \in v /\ u[i].was # 0 /\ u[i].was # u[i].num
      BY <1>2, <2>1, <1>1
    <3> QED
      BY <3>1 DEF Kept, Fresher
  <2>2. ASSUME NEW i \in Solid(t), ~(Logical(b) /\ t[i].num > b)
        PROVE  (i \in Kept(u, v) <=> i \in Kept(t, v)) /\ (i \in Fresher(u, v) <=> i \in Fresher(t, v))
               /\ u[i].num = t[i].num
    BY <1>1, <1>3, <2>2 DEF Kept, Fresher
  <2>3. /\ Kept(u, v) \subseteq Solid(t) /\ Kept(t, v) \subseteq Solid(t)
        /\ Fresher(u, v) \subseteq Solid(t) /\ Fresher(t, v) \subseteq Solid(t)
    BY <1>1 DEF Kept, Fresher
  <2> QED
    BY <1>1, <2>1, <2>2, <2>3
<1>6. SparedOn(u, v, l, p, n) /\ OldKept(u, v, p, n)
  BY <1>5 DEF Executed, SparedOn, OldKept
<1>7. OldMounted(u, v, m, p, n) /\ OldSet(u, v, f, p, n) /\ OldUnset(u, v, f, p, n) /\ OldFormat(u, v, f, x)
  BY <1>5 DEF Executed, OldMounted, OldSet, OldUnset, OldFormat
<1>8. NewKeys(u, v, m, f, x, p, n) /\ KeysOn(u, v, m)
  BY <1>5 DEF Executed, NewKeys, KeysOn
<1>9. Behind(u)
  <2> SUFFICES ASSUME NEW i \in Solid(t)
               PROVE  /\ u[i].num \in Nat \ {0} /\ u[i].was \in Nat
                      /\ IF u[i].was = 0 THEN ~Logical(u[i].num) ELSE u[i].was >= u[i].num
    BY <1>1 DEF Behind
  <2>1. CASE Logical(b) /\ t[i].num > b
    BY <1>1, <1>2, <2>1
  <2>2. CASE ~(Logical(b) /\ t[i].num > b)
    <3>1. u[i].num = t[i].num /\ u[i].was = t[i].was
      BY <1>1, <1>3, <2>2
    <3> QED
      BY <3>1 DEF Executed, Behind
  <2> QED
    BY <2>1, <2>2
<1> QED
  BY <1>4, <1>6, <1>7, <1>8, <1>9 DEF Executed

-----------------------------------------------------------------------------
(* The targets are those of the list *)

\* So is a mount point.
LEMMA ExecutedMount ==
  ASSUME NEW t, NEW v, NEW m, NEW f, NEW x, NEW l, NEW p, NEW n \in Nat, Executed(t, v, m, f, x, l, p, n),
         NEW i \in Solid(t), NEW b, t[i].num = b, b \in v \/ i \in Kept(t, v),
         p[n + 1].type = "mount", p[n + 1].id = Part(b)
  PROVE  Executed(t, v, With(m, b, p[n + 1].mount), f, x, l, p, n + 1)
<1> DEFINE M == With(m, b, p[n + 1].mount)
<1>1. /\ \A type, id : type # "mount" => ~Acts(p[n + 1], type, id)
      /\ \A a : a # b => ~Acts(p[n + 1], "mount", Part(a))
      /\ Acts(p[n + 1], "mount", Part(b))
  BY PartsDiffer DEF Acts
<1>2. /\ \A type, id : type # "mount" => (Never(p, type, id, n + 1) <=> Never(p, type, id, n))
      /\ \A type, id, j : type # "mount" /\ LastOf(j, p, type, id, n) => LastOf(j, p, type, id, n + 1)
      /\ \A a, j : a # b /\ LastOf(j, p, "mount", Part(a), n) => LastOf(j, p, "mount", Part(a), n + 1)
  BY <1>1, NotActedHere
<1>3. "remove" # "mount" /\ "filesystem" # "mount" /\ "create" # "mount"
  OBVIOUS
<1>4. LastOf(n + 1, p, "mount", Part(b), n + 1)
  BY <1>1, ActedHere
<1>5. DOMAIN M = DOMAIN m \cup {b} /\ M[b] = p[n + 1].mount /\ \A a \in DOMAIN m : a # b => M[a] = m[a]
  BY DEF With
<1> HIDE DEF M
<1>6. 1 .. n \subseteq 1 .. (n + 1) /\ n + 1 \in 1 .. (n + 1)
  BY Longer1
<1>7. NumberedOnce(t) /\ Behind(t)
  BY DEF Executed
<1>17. b \notin {t[h].num : h \in Fresher(t, v)}
  BY <1>7 DEF Kept, Fresher, NumberedOnce, Behind
<1>8. SparedOn(t, v, l, p, n + 1)
  BY <1>2, <1>3 DEF Executed, SparedOn
<1>9. OldKept(t, v, p, n + 1)
  BY <1>2, <1>3 DEF Executed, OldKept
<1>10. OldMounted(t, v, M, p, n + 1)
  <2> SUFFICES ASSUME NEW h \in Kept(t, v), t[h].num \in DOMAIN M
               PROVE  \E j \in 1 .. (n + 1) : LastOf(j, p, "mount", Part(t[h].num), n + 1) /\ M[t[h].num] = p[j].mount
    BY DEF OldMounted
  <2>1. CASE t[h].num = b
    BY <1>4, <1>5, <1>6, <2>1
  <2>2. CASE t[h].num # b
    <3>1. PICK j \in 1 .. n : LastOf(j, p, "mount", Part(t[h].num), n) /\ m[t[h].num] = p[j].mount
      BY <1>5, <2>2 DEF Executed, OldMounted
    <3> QED
      BY <1>2, <1>5, <1>6, <2>2, <3>1
  <2> QED
    BY <2>1, <2>2
<1>11. OldSet(t, v, f, p, n + 1)
  BY <1>2, <1>3, <1>6 DEF Executed, OldSet
<1>12. OldUnset(t, v, f, p, n + 1)
  BY <1>2, <1>3 DEF Executed, OldUnset
<1>13. OldFormat(t, v, f, x)
  BY DEF Executed
<1>14. NewKeys(t, v, M, f, x, p, n + 1)
  <2> SUFFICES ASSUME NEW h \in Fresher(t, v)
               PROVE  /\ t[h].num \in DOMAIN M /\ t[h].num \in DOMAIN f /\ t[h].num \in x
                      /\ \E j \in 1 .. (n + 1) :
                           p[j].type = "create" /\ M[t[h].num] = p[j].mount /\ f[t[h].num] = p[j].fs
    BY DEF NewKeys
  <2>1. t[h].num # b
    BY <1>17
  <2>2. /\ t[h].num \in DOMAIN m /\ t[h].num \in DOMAIN f /\ t[h].num \in x
        /\ \E j \in 1 .. n : p[j].type = "create" /\ m[t[h].num] = p[j].mount /\ f[t[h].num] = p[j].fs
    BY DEF Executed, NewKeys
  <2> QED
    BY <1>5, <1>6, <2>1, <2>2
<1>15. KeysOn(t, v, M)
  BY <1>5 DEF Executed, KeysOn
<1>16. Executed(t, v, M, f, x, l, p, n + 1)
  BY <1>7, <1>8, <1>9, <1>10, <1>11, <1>12, <1>13, <1>14, <1>15 DEF Executed
<1> QED
  BY <1>16 DEF M

\* So is a filesystem.
LEMMA ExecutedFilesystem ==
  ASSUME NEW t, NEW v, NEW m, NEW f, NEW x, NEW l, NEW p, NEW n \in Nat, Executed(t, v, m, f, x, l, p, n),
         NEW i \in Solid(t), NEW b, t[i].num = b, b \in v \/ i \in Kept(t, v),
         p[n + 1].type = "filesystem", p[n + 1].id = Part(b)
  PROVE  Executed(t, v, m, With(f, b, p[n + 1].fs), x \cup {b}, l, p, n + 1)
<1> DEFINE F == With(f, b, p[n + 1].fs)
           X == x \cup {b}
<1>1. /\ \A type, id : type # "filesystem" => ~Acts(p[n + 1], type, id)
      /\ \A a : a # b => ~Acts(p[n + 1], "filesystem", Part(a))
      /\ Acts(p[n + 1], "filesystem", Part(b))
  BY PartsDiffer DEF Acts
<1>2. /\ \A type, id : type # "filesystem" => (Never(p, type, id, n + 1) <=> Never(p, type, id, n))
      /\ \A a : a # b => (Never(p, "filesystem", Part(a), n + 1) <=> Never(p, "filesystem", Part(a), n))
      /\ \A type, id, j : type # "filesystem" /\ LastOf(j, p, type, id, n) => LastOf(j, p, type, id, n + 1)
      /\ \A a, j : a # b /\ LastOf(j, p, "filesystem", Part(a), n) => LastOf(j, p, "filesystem", Part(a), n + 1)
  BY <1>1, NotActedHere
<1>3. "remove" # "filesystem" /\ "mount" # "filesystem" /\ "create" # "filesystem"
  OBVIOUS
<1>4. LastOf(n + 1, p, "filesystem", Part(b), n + 1)
  BY <1>1, ActedHere
<1>5. /\ DOMAIN F = DOMAIN f \cup {b} /\ F[b] = p[n + 1].fs /\ \A a \in DOMAIN f : a # b => F[a] = f[a]
      /\ \A a : a \in X <=> a \in x \/ a = b
  BY DEF With
<1> HIDE DEF F, X
<1>6. 1 .. n \subseteq 1 .. (n + 1) /\ n + 1 \in 1 .. (n + 1)
  BY Longer1
<1>7. NumberedOnce(t) /\ Behind(t)
  BY DEF Executed
<1>17. b \notin {t[h].num : h \in Fresher(t, v)}
  BY <1>7 DEF Kept, Fresher, NumberedOnce, Behind
<1>8. SparedOn(t, v, l, p, n + 1)
  BY <1>2, <1>3 DEF Executed, SparedOn
<1>9. OldKept(t, v, p, n + 1)
  BY <1>2, <1>3 DEF Executed, OldKept
<1>10. OldMounted(t, v, m, p, n + 1)
  BY <1>2, <1>3, <1>6 DEF Executed, OldMounted
<1>11. OldSet(t, v, F, p, n + 1)
  <2> SUFFICES ASSUME NEW h \in Kept(t, v), t[h].num \in DOMAIN F
               PROVE  \E j \in 1 .. (n + 1) : LastOf(j, p, "filesystem", Part(t[h].num), n + 1) /\ F[t[h].num] = p[j].fs
    BY DEF OldSet
  <2>1. CASE t[h].num = b
    BY <1>4, <1>5, <1>6, <2>1
  <2>2. CASE t[h].num # b
    <3>1. PICK j \in 1 .. n : LastOf(j, p, "filesystem", Part(t[h].num), n) /\ f[t[h].num] = p[j].fs
      BY <1>5, <2>2 DEF Executed, OldSet
    <3> QED
      BY <1>2, <1>5, <1>6, <2>2, <3>1
  <2> QED
    BY <2>1, <2>2
<1>12. OldUnset(t, v, F, p, n + 1)
  <2> SUFFICES ASSUME NEW h \in Kept(t, v), t[h].num \notin DOMAIN F
               PROVE  Never(p, "filesystem", Part(t[h].num), n + 1)
    BY DEF OldUnset
  <2>1. t[h].num # b /\ Never(p, "filesystem", Part(t[h].num), n)
    BY <1>5 DEF Executed, OldUnset
  <2> QED
    BY <1>2, <2>1
<1>13. OldFormat(t, v, F, X)
  BY <1>5 DEF Executed, OldFormat
<1>14. NewKeys(t, v, m, F, X, p, n + 1)
  <2> SUFFICES ASSUME NEW h \in Fresher(t, v)
               PROVE  /\ t[h].num \in DOMAIN m /\ t[h].num \in DOMAIN F /\ t[h].num \in X
                      /\ \E j \in 1 .. (n + 1) :
                           p[j].type = "create" /\ m[t[h].num] = p[j].mount /\ F[t[h].num] = p[j].fs
    BY DEF NewKeys
  <2>1. t[h].num # b
    BY <1>17
  <2>2. /\ t[h].num \in DOMAIN m /\ t[h].num \in DOMAIN f /\ t[h].num \in x
        /\ \E j \in 1 .. n : p[j].type = "create" /\ m[t[h].num] = p[j].mount /\ f[t[h].num] = p[j].fs
    BY DEF Executed, NewKeys
  <2> QED
    BY <1>5, <1>6, <2>1, <2>2
<1>15. KeysOn(t, v, m)
  BY DEF Executed
<1>16. Executed(t, v, m, F, X, l, p, n + 1)
  BY <1>7, <1>8, <1>9, <1>10, <1>11, <1>12, <1>13, <1>14, <1>15 DEF Executed
<1> QED
  BY <1>16 DEF F, X

\* The disk that the list was made from.
Original(t, l) ==
  /\ NumberedOnce(t) /\ \A i \in Solid(t) : t[i].was = t[i].num /\ t[i].num \in Nat \ {0}
  /\ \A k \in Solid(l) : \E i \in Solid(t) : Part(t[i].num) = l[k].id /\ t[i].fs = l[k].fs

\* Before the first operation the table is what was shown.
LEMMA ExecutedAtFirst ==
  ASSUME NEW t, NEW v, NEW m, NEW f, NEW l, NEW p, Original(t, l), DOMAIN m = {}, DOMAIN f = {}
  PROVE  Executed(t, v, m, f, {}, l, p, 0)
<1>1. 1 .. 0 = {}
  OBVIOUS
<1>2. \A type, id : Never(p, type, id, 0)
  BY <1>1 DEF Never
<1>3. Fresher(t, v) = {}
  BY DEF Original, Fresher
<1>4. NumberedOnce(t) /\ NewKeys(t, v, m, f, {}, p, 0)
  BY <1>3 DEF Original, NewKeys
<1>5. SparedOn(t, v, l, p, 0)
  <2> SUFFICES ASSUME NEW k \in Solid(l)
               PROVE  \/ \E b \in v : l[k].id = Part(b)
                      \/ \E i \in Kept(t, v) : Part(t[i].num) = l[k].id /\ t[i].fs = l[k].fs
    BY DEF SparedOn
  <2>1. PICK i \in Solid(t) : Part(t[i].num) = l[k].id /\ t[i].fs = l[k].fs
    BY DEF Original
  <2>2. t[i].was = t[i].num
    BY DEF Original
  <2> QED
    BY <2>1, <2>2 DEF Kept
<1>6. OldKept(t, v, p, 0) /\ OldUnset(t, v, f, p, 0)
  BY <1>2 DEF OldKept, OldUnset
<1>7. OldMounted(t, v, m, p, 0) /\ OldSet(t, v, f, p, 0) /\ OldFormat(t, v, f, {}) /\ KeysOn(t, v, m)
  BY DEF OldMounted, OldSet, OldFormat, KeysOn
<1>8. Behind(t)
  <2> SUFFICES ASSUME NEW i \in Solid(t)
               PROVE  /\ t[i].num \in Nat \ {0} /\ t[i].was \in Nat
                      /\ IF t[i].was = 0 THEN ~Logical(t[i].num) ELSE t[i].was >= t[i].num
    BY DEF Behind
  <2>1. t[i].was = t[i].num /\ t[i].num \in Nat \ {0}
    BY DEF Original
  <2> QED
    BY <2>1
<1> QED
  BY <1>4, <1>5, <1>6, <1>7, <1>8 DEF Executed
-----------------------------------------------------------------------------
\* What the list says of a target that it calls id.
Holds(s, p, id, mount, fs, format) ==
  \E i \in DOMAIN s :
    /\ s[i].mount = mount /\ s[i].fs = fs /\ s[i].id = id
    /\ format <=> \/ s[i].id = Unnamed
                  \/ \E j \in DOMAIN p : p[j].id = s[i].id /\ p[j].type = "filesystem"

\* What the list calls a partition that had number was.
Called(was) == IF was = 0 THEN Unnamed ELSE Part(was)
TargetOf(t, s, p, b, mount, fs, format) ==
  \E i \in Solid(t) : t[i].num = b /\ Holds(s, p, Called(t[i].was), mount, fs, format)

\* With all operations done, a target is what the simulated list says.
LEMMA TargetHolds ==
  ASSUME NEW t, NEW v, NEW m, NEW f, NEW x, NEW l, NEW p, DOMAIN p = 1 .. Len(p),
         Executed(t, v, m, f, x, l, p, Len(p)),
         NEW s, Planned(s, l, p), Len(p) \in Nat,
         NEW b \in DOMAIN m, b \notin v, NEW fs, b \in DOMAIN f => fs = f[b],
         b \notin DOMAIN f => \A i \in Solid(t) : t[i].num = b => fs = t[i].fs
  PROVE  TargetOf(t, s, p, b, m[b], fs, b \in x)
<1> DEFINE N == Len(p)
<1>1. PICK i \in Kept(t, v) \cup Fresher(t, v) : t[i].num = b
  BY DEF Executed, KeysOn
<1>0. i \in Solid(t) /\ t[i].num \in Nat \ {0}
  BY <1>1 DEF Kept, Fresher, Executed, Behind
<1> SUFFICES Holds(s, p, Called(t[i].was), m[b], fs, b \in x)
  BY <1>0, <1>1 DEF TargetOf
<1>2. CASE i \in Fresher(t, v)
  <2>1. /\ b \in DOMAIN f /\ b \in x
        /\ \E j \in 1 .. N : p[j].type = "create" /\ m[b] = p[j].mount /\ f[b] = p[j].fs
    BY <1>1, <1>2 DEF Executed, NewKeys
  <2>2. PICK j \in 1 .. N : p[j].type = "create" /\ m[b] = p[j].mount /\ f[b] = p[j].fs
    BY <2>1
  <2>3. PICK h \in Solid(s) : s[h].id = Unnamed /\ s[h].fs = p[j].fs /\ s[h].mount = p[j].mount
    BY <2>2 DEF Planned, CreatedShown
  <2>4. Called(t[i].was) = Unnamed
    BY <1>2 DEF Fresher, Called
  <2> QED
    BY <2>1, <2>2, <2>3, <2>4 DEF Holds, Solid
<1>3. CASE i \in Kept(t, v)
  <2>0. Called(t[i].was) = Part(b)
    BY <1>0, <1>1, <1>3 DEF Kept, Called
  <2>1. Never(p, "remove", Part(b), N)
    BY <1>1, <1>3 DEF Executed, OldKept
  <2>2. PICK j \in 1 .. N : LastOf(j, p, "mount", Part(b), N) /\ m[b] = p[j].mount
    BY <1>1, <1>3 DEF Executed, OldMounted
  <2>3. j \in Nat /\ p[j].type = "mount" /\ p[j].id = Part(b)
    BY <2>2 DEF LastOf, Acts
  <2>4. "mount" # "create"
    OBVIOUS
  <2>5. PICK k \in Solid(l) : p[j].id = l[k].id
    BY <2>2, <2>3, <2>4 DEF Planned, NamesShown
  <2>6. PICK h \in Solid(s) : s[h].id = Part(b)
    BY <2>1, <2>3, <2>5 DEF Planned, RemovedGone
  <2>7. s[h].id # Unnamed
    BY <2>6, PartIsNamed
  <2>8. s[h].mount = m[b]
    BY <2>2, <2>3, <2>6, <2>7 DEF Planned, LastMount
  <2>9. h \in DOMAIN s
    BY DEF Solid
  <2>10. b \in x <=> b \in DOMAIN f
    BY <1>1, <1>3 DEF Executed, OldFormat
  <2>11. CASE b \in DOMAIN f
    <3>1. PICK c \in 1 .. N : LastOf(c, p, "filesystem", Part(b), N) /\ f[b] = p[c].fs
      BY <1>1, <1>3, <2>11 DEF Executed, OldSet
    <3>2. c \in Nat /\ p[c].type = "filesystem" /\ p[c].id = Part(b)
      BY <3>1 DEF LastOf, Acts
    <3>3. s[h].fs = fs
      BY <2>6, <2>7, <2>11, <3>1, <3>2 DEF Planned, LastFilesystem
    <3>4. \E d \in DOMAIN p : p[d].id = s[h].id /\ p[d].type = "filesystem"
      BY <2>6, <3>1, <3>2
    <3> QED
      BY <2>0, <2>6, <2>8, <2>9, <2>10, <2>11, <3>3, <3>4 DEF Holds
  <2>12. CASE b \notin DOMAIN f
    <3>1. Never(p, "filesystem", Part(b), N)
      BY <1>1, <1>3, <2>12 DEF Executed, OldUnset
    <3>2. PICK c \in Solid(l) : l[c].id = Part(b) /\ l[c].fs = s[h].fs
      BY <2>6, <2>7, <3>1 DEF Planned, FirstFilesystem
    <3>3. PICK d \in Kept(t, v) : Part(t[d].num) = Part(b) /\ t[d].fs = s[h].fs
      BY <2>1, <3>2, PartsDiffer DEF Executed, SparedOn
    <3>4. t[d].num = b /\ d \in Solid(t)
      BY <3>3, PartsDiffer DEF Kept
    <3>5. s[h].fs = fs
      BY <2>12, <3>3, <3>4
    <3>6. \A e \in DOMAIN p : ~(p[e].id = s[h].id /\ p[e].type = "filesystem")
      BY <2>6, <3>1 DEF Never, Acts
    <3> QED
      BY <2>0, <2>6, <2>7, <2>8, <2>9, <2>10, <2>12, <3>5, <3>6 DEF Holds
  <2> QED
    BY <2>11, <2>12
<1> QED
  BY <1>1, <1>2, <1>3

-----------------------------------------------------------------------------
(* The plan is executed *)

\* The numbers that a removal may shift.
Moves == {n \in Nat : Moved(n)}

Held == \A t \in targets : Moved(t.num) \/ Holds(parts, plan, Meant(t.num), t.mount, t.fs, t.format)

\* The plan and what has been done of it.
PlanInv ==
  mode = "custom" =>
    /\ phase \in {"planning", "partitioning"} => Planned(parts, listed, plan)
    /\ phase = "planning" => done = 0 /\ keys = NoKeys /\ Original(disk, listed)
    /\ phase = "partitioning" => Executed(table, Moves, keys.mount, keys.fs, keys.format, listed, plan, done)
    /\ phase \in {"formatting", "done"} => Held

\* A list with an empty plan is planned.
LEMMA PlannedAtFirst ==
  ASSUME NEW l, \A j, k \in Solid(l) : l[j].id = l[k].id => j = k
  PROVE  Planned(l, l, << >>)
<1> DEFINE p == << >>
<1>1. Len(p) = 0 /\ 1 .. 0 = {}
  OBVIOUS
<1> HIDE DEF p
<1>2. \A type, id : Never(p, type, id, Len(p))
  BY <1>1 DEF Never
<1>3. \A j, type, id : ~LastOf(j, p, type, id, Len(p))
  BY <1>1 DEF LastOf
<1>4. KnownNames(l, l) /\ NamedOnce(l) /\ RemovedGone(l, l, p) /\ RemovedNotShown(l, p)
  BY <1>2 DEF KnownNames, NamedOnce, RemovedGone, RemovedNotShown
<1>5. LastMount(l, p) /\ LastFilesystem(l, p) /\ FirstFilesystem(l, l, p)
  BY <1>3 DEF LastMount, LastFilesystem, FirstFilesystem
<1>6. CreatedShown(l, p) /\ NamesShown(l, p)
  BY <1>1 DEF CreatedShown, NamesShown
<1> QED
  BY <1>4, <1>5, <1>6 DEF Planned, p

\* At first the plan is empty.
LEMMA PlanInit == DisksAre /\ Init => PlanInv
<1> SUFFICES ASSUME DisksAre, Init PROVE PlanInv
  OBVIOUS
<1>1. /\ disk \in Disks /\ disk \in Seq(Regions) /\ \A i \in DOMAIN disk : disk[i].was = disk[i].num
      /\ \A i, j \in DOMAIN disk : i # j /\ ~IsFree(disk[i]) => disk[i].num # disk[j].num
  BY DEF DisksAre, Init, StorageDevices
<1>2. listed = Listed(disk) /\ phase = "planning" /\ keys = NoKeys /\ done = 0 /\ plan = << >> /\ parts = listed
  BY DEF Init
<1>3. PICK f : /\ f \in [DOMAIN listed -> DOMAIN disk]
               /\ \A k \in Solid(listed) :
                    f[k] \in Solid(disk) /\ listed[k].id = Part(disk[f[k]].num) /\ listed[k].fs = disk[f[k]].fs
               /\ \A j, k \in DOMAIN listed : f[j] = f[k] => j = k
  BY <1>1, <1>2, ListedIs
<1>7. \A i \in Solid(disk) : disk[i].num \in Nat \ {0}
  BY <1>1 DEF Solid, Regions
<1>4. Original(disk, listed)
  BY <1>1, <1>3, <1>7 DEF Original, NumberedOnce, Solid
<1>5. ASSUME NEW j \in Solid(listed), NEW k \in Solid(listed), listed[j].id = listed[k].id PROVE j = k
  <2>1. disk[f[j]].num = disk[f[k]].num
    BY <1>3, <1>5, PartsDiffer
  <2>2. f[j] \in DOMAIN disk /\ f[k] \in DOMAIN disk /\ ~IsFree(disk[f[j]])
    BY <1>3 DEF Solid
  <2>3. f[j] = f[k]
    BY <1>1, <2>1, <2>2
  <2> QED
    BY <1>3, <2>3 DEF Solid
<1>6. Planned(parts, listed, plan)
  BY <1>2, <1>5, PlannedAtFirst
<1> QED
  BY <1>2, <1>4, <1>6 DEF PlanInv

\* What an operation that is accepted changes.
LEMMA SimulateIs ==
  ASSUME SizesInv, PlanInv, NEW op \in Ops, NEW i \in DOMAIN parts, NEW s, Simulate(op, i, s)
  PROVE  /\ parts' = s /\ mode = "custom" /\ phase = "planning"
         /\ UNCHANGED <<listed, mode, phase, disk, extended, table, done, keys, targets, made>>
         /\ Planned(parts, listed, plan)
         /\ \E o : /\ o.type = op.type /\ o.id = parts[i].id /\ o.fs = op.fs /\ o.mount = op.mount
                   /\ Longer(plan', plan, o)
<1> DEFINE o == [op EXCEPT !.id = parts[i].id]
<1>1. parts[i] \in Entries
  BY DEF SizesInv, Shapes
<1>2. parts[i].id \in Names
  BY <1>1 DEF Entries
<1>3. o \in Ops /\ o.type = op.type /\ o.id = parts[i].id /\ o.fs = op.fs /\ o.mount = op.mount
  BY <1>2 DEF Ops
<1>4. /\ plan' = Append(plan, o) /\ parts' = s /\ mode = "custom" /\ phase = "planning"
      /\ UNCHANGED <<listed, mode, phase, disk, extended, table, done, keys, targets, made>>
  BY DEF Simulate, work
<1> HIDE DEF o
<1>5. plan \in Seq(Ops)
  BY DEF SizesInv, Shapes
<1>6. Longer(plan', plan, o)
  BY <1>3, <1>4, <1>5, Lengthened
<1> QED
  BY <1>3, <1>4, <1>6 DEF PlanInv

\* A plan that is still planned after a request keeps the invariant.
LEMMA PlanSimulated ==
  ASSUME PlanInv, mode = "custom", phase = "planning",
         UNCHANGED <<listed, mode, phase, disk, extended, table, done, keys, targets, made>>,
         Planned(parts', listed, plan')
  PROVE  PlanInv'
<1>1. done = 0 /\ keys = NoKeys /\ Original(disk, listed)
  BY DEF PlanInv
<1> QED
  BY <1>1 DEF PlanInv

\* Each request of the client keeps the list and the plan together.
LEMMA PlanPlanning ==
  ASSUME ParametersAre, SizesInv, PlanInv, Planning
  PROVE  PlanInv'
<1>0. parts \in Seq(Entries)
  BY DEF SizesInv, Shapes
<1>1. PICK i \in DOMAIN parts :
        \/ \E z \in Sized, fs \in Filesystems, mount \in Mounts : PlanCreate(i, z, fs, mount)
        \/ \E z \in Sized : PlanResize(i, z)
        \/ PlanRemove(i)
        \/ \E mount \in Mounts : PlanMountpoint(i, mount) \/ PlanMount(i, mount)
        \/ \E fs \in Filesystems : PlanFilesystem(i, fs)
  BY DEF Planning
<1> DEFINE e == parts[i]
<1>2. e \in Entries /\ i \in 1 .. Len(parts)
  BY <1>0
<1>3. e.size \in Nat /\ FreeAfter(parts, i) \in Nat
  BY <1>0, <1>2, EntriesSizable, FreeAfterIs DEF Sizable
<1>4. ASSUME NEW z \in Sized, NEW fs \in Filesystems, NEW mount \in Mounts, PlanCreate(i, z, fs, mount) PROVE PlanInv'
  <2> DEFINE size == IF z.remaining THEN parts[i].size ELSE z.size
             op == [type |-> "create", id |-> Unnamed, size |-> z.size, remaining |-> z.remaining,
                    fs |-> fs, mount |-> mount]
             r == New(fs, size, mount)
  <2>1. IsFree(parts[i]) /\ size <= parts[i].size /\ Simulate(op, i, Created(i, size, fs, mount))
    BY <1>4 DEF PlanCreate
  <2>2. z.size \in Nat /\ z.remaining \in BOOLEAN /\ fs \in Texts /\ fs # "" /\ mount \in Texts
    BY PlanningOps
  <2>3. size \in Nat
    BY <1>3, <2>2
  <2>4. op \in Ops /\ op.type = "create" /\ op.fs = fs /\ op.mount = mount
    <3>1. "create" \in Texts /\ Unnamed \in Names
      BY DEF Texts, Unnamed, Names
    <3> QED
      BY <2>2, <3>1 DEF Ops
  <2> HIDE DEF size, op
  <2>10. r.fs = fs /\ r.mount = mount /\ r.id = Unnamed
    BY DEF New, Entry
  <2>5. ~IsFree(r) /\ r.fs = fs /\ r.mount = mount /\ r.id = Unnamed
    <3> HIDE DEF r
    <3> QED
      BY <2>2, <2>10 DEF IsFree
  <2>6. PICK g : Replaced(g, Created(i, size, fs, mount), parts, i, r)
    BY <1>0, <2>1, <2>2, <2>3, CreatedReplaces
  <2> HIDE DEF r
  <2>7. /\ parts' = Created(i, size, fs, mount) /\ mode = "custom" /\ phase = "planning"
        /\ UNCHANGED <<listed, mode, phase, disk, extended, table, done, keys, targets, made>>
        /\ Planned(parts, listed, plan)
    BY <2>1, <2>4, SimulateIs
  <2>8. PICK o : o.type = op.type /\ o.id = parts[i].id /\ o.fs = op.fs /\ o.mount = op.mount /\ Longer(plan', plan, o)
    BY <2>1, <2>4, SimulateIs
  <2>9. Planned(parts', listed, plan')
    BY <2>1, <2>4, <2>5, <2>6, <2>7, <2>8, PlannedCreate
  <2> QED
    BY <2>7, <2>9, PlanSimulated
<1>5. ASSUME NEW z \in Sized, PlanResize(i, z) PROVE PlanInv'
  <2> DEFINE size == IF z.remaining THEN parts[i].size + FreeAfter(parts, i) ELSE z.size
             base == Op("resize", Unnamed)
             op == [base EXCEPT !.size = z.size, !.remaining = z.remaining]
             r == WithSize(parts[i], size)
  <2>1. Named(i) /\ ~IsFree(parts[i]) /\ size <= parts[i].size + FreeAfter(parts, i) /\ Simulate(op, i, Resized(i, size))
    BY <1>5 DEF PlanResize
  <2>2. z.size \in Nat /\ z.remaining \in BOOLEAN /\ base \in Ops /\ base.type = "resize"
    BY PlanningOps DEF Op
  <2>3. size \in Nat
    BY <1>3, <2>2
  <2> HIDE DEF size, base
  <2>4. op \in Ops /\ op.type = "resize"
    BY <2>2 DEF Ops
  <2> HIDE DEF op
  <2>5. r.id = parts[i].id /\ r.fs = parts[i].fs /\ r.mount = parts[i].mount
    BY <1>2, <2>3, EntrySized
  <2>10. ~IsFree(r)
    BY <2>1, <2>5 DEF IsFree
  <2>6. PICK g : Replaced(g, Resized(i, size), parts, i, r)
    BY <1>0, <2>1, <2>3, ResizedReplaces
  <2> HIDE DEF r
  <2>7. /\ parts' = Resized(i, size) /\ mode = "custom" /\ phase = "planning"
        /\ UNCHANGED <<listed, mode, phase, disk, extended, table, done, keys, targets, made>>
        /\ Planned(parts, listed, plan)
    BY <2>1, <2>4, SimulateIs
  <2>8. PICK o : o.type = op.type /\ o.id = parts[i].id /\ o.fs = op.fs /\ o.mount = op.mount /\ Longer(plan', plan, o)
    BY <2>1, <2>4, SimulateIs
  <2>11. i \in Solid(parts) /\ parts[i].id # Unnamed
    BY <2>1 DEF Solid, Named
  <2>9. Planned(parts', listed, plan')
    BY <2>4, <2>5, <2>6, <2>7, <2>8, <2>10, <2>11, PlannedChange
  <2> QED
    BY <2>7, <2>9, PlanSimulated
<1>6. CASE PlanRemove(i)
  <2> DEFINE op == Op("remove", Unnamed)
             r == New("", parts[i].size, "")
             s == Spliced(parts, i, 1, << r >>)
  <2>1. Named(i) /\ ~IsFree(parts[i]) /\ Simulate(op, i, s)
    BY <1>6 DEF PlanRemove
  <2>4. op \in Ops /\ op.type = "remove"
    BY PlanningOps DEF Op
  <2> HIDE DEF op
  <2>5. IsFree(r) /\ \E g : Replaced(g, s, parts, i, r)
    BY <1>0, RemovedReplaces
  <2> HIDE DEF r, s
  <2>6. PICK g : Replaced(g, s, parts, i, r)
    BY <2>5
  <2>7. /\ parts' = s /\ mode = "custom" /\ phase = "planning"
        /\ UNCHANGED <<listed, mode, phase, disk, extended, table, done, keys, targets, made>>
        /\ Planned(parts, listed, plan)
    BY <2>1, <2>4, SimulateIs
  <2>8. PICK o : o.type = op.type /\ o.id = parts[i].id /\ o.fs = op.fs /\ o.mount = op.mount /\ Longer(plan', plan, o)
    BY <2>1, <2>4, SimulateIs
  <2>11. i \in Solid(parts) /\ parts[i].id # Unnamed
    BY <2>1 DEF Solid, Named
  <2>9. Planned(parts', listed, plan')
    BY <2>4, <2>5, <2>6, <2>7, <2>8, <2>11, PlannedRemove
  <2> QED
    BY <2>7, <2>9, PlanSimulated
<1>7. ASSUME NEW mount \in Mounts, PlanMountpoint(i, mount) PROVE PlanInv'
  <2> DEFINE base == Op("mount", Unnamed)
             op == [base EXCEPT !.mount = mount]
             r == [e EXCEPT !.mount = mount]
             s == [parts EXCEPT ![i] = r]
  <2>1. Named(i) /\ ~IsFree(parts[i]) /\ Simulate(op, i, s)
    BY <1>7 DEF PlanMountpoint
  <2>2. base \in Ops /\ mount \in Texts /\ base.type = "mount"
    BY PlanningOps DEF Op
  <2> HIDE DEF base
  <2>4. op \in Ops /\ op.type = "mount" /\ op.mount = mount
    BY <2>2 DEF Ops
  <2> HIDE DEF op
  <2>5. r.id = e.id /\ r.fs = e.fs /\ r.mount = mount
    <3> HIDE DEF e
    <3> QED
      BY <1>2, <2>2 DEF Entries
  <2>10. ~IsFree(r)
    BY <2>1, <2>5 DEF IsFree
  <2> HIDE DEF r
  <2>6. PICK g : Replaced(g, s, parts, i, r)
    BY <1>0, <2>1, <2>10, ChangedReplaces
  <2> HIDE DEF s
  <2>7. /\ parts' = s /\ mode = "custom" /\ phase = "planning"
        /\ UNCHANGED <<listed, mode, phase, disk, extended, table, done, keys, targets, made>>
        /\ Planned(parts, listed, plan)
    BY <2>1, <2>4, SimulateIs
  <2>8. PICK o : o.type = op.type /\ o.id = parts[i].id /\ o.fs = op.fs /\ o.mount = op.mount /\ Longer(plan', plan, o)
    BY <2>1, <2>4, SimulateIs
  <2>11. i \in Solid(parts) /\ parts[i].id # Unnamed
    BY <2>1 DEF Solid, Named
  <2>9. Planned(parts', listed, plan')
    BY <2>4, <2>5, <2>6, <2>7, <2>8, <2>10, <2>11, PlannedChange
  <2> QED
    BY <2>7, <2>9, PlanSimulated
<1>8. ASSUME NEW mount \in Mounts, PlanMount(i, mount) PROVE PlanInv'
  <2>1. mode = "manual" /\ mode' = mode
    BY <1>8 DEF PlanMount
  <2> QED
    BY <2>1 DEF PlanInv
<1>9. ASSUME NEW fs \in Filesystems, PlanFilesystem(i, fs) PROVE PlanInv'
  <2> DEFINE base == Op("filesystem", Unnamed)
             op == [base EXCEPT !.fs = fs]
             r == [e EXCEPT !.fs = fs]
             s == [parts EXCEPT ![i] = r]
  <2>1. Named(i) /\ ~IsFree(parts[i]) /\ Simulate(op, i, s)
    BY <1>9 DEF PlanFilesystem
  <2>2. base \in Ops /\ fs \in Texts /\ fs # "" /\ base.type = "filesystem"
    BY PlanningOps DEF Op
  <2> HIDE DEF base
  <2>4. op \in Ops /\ op.type = "filesystem" /\ op.fs = fs
    BY <2>2 DEF Ops
  <2> HIDE DEF op
  <2>5. r.id = e.id /\ r.mount = e.mount /\ r.fs = fs
    <3> HIDE DEF e
    <3> QED
      BY <1>2, <2>2 DEF Entries
  <2>10. ~IsFree(r)
    BY <2>2, <2>5 DEF IsFree
  <2> HIDE DEF r
  <2>6. PICK g : Replaced(g, s, parts, i, r)
    BY <1>0, <2>1, <2>10, ChangedReplaces
  <2> HIDE DEF s
  <2>7. /\ parts' = s /\ mode = "custom" /\ phase = "planning"
        /\ UNCHANGED <<listed, mode, phase, disk, extended, table, done, keys, targets, made>>
        /\ Planned(parts, listed, plan)
    BY <2>1, <2>4, SimulateIs
  <2>8. PICK o : o.type = op.type /\ o.id = parts[i].id /\ o.fs = op.fs /\ o.mount = op.mount /\ Longer(plan', plan, o)
    BY <2>1, <2>4, SimulateIs
  <2>11. i \in Solid(parts) /\ parts[i].id # Unnamed
    BY <2>1 DEF Solid, Named
  <2>9. Planned(parts', listed, plan')
    BY <2>4, <2>5, <2>6, <2>7, <2>8, <2>10, <2>11, PlannedChange
  <2> QED
    BY <2>7, <2>9, PlanSimulated
<1> QED
  BY <1>1, <1>4, <1>5, <1>6, <1>7, <1>8, <1>9

\* The worker's operations, on a table with its maps.
LEMMA PlanOperate ==
  ASSUME SizesInv, PlanInv, NEW type, NEW kind, NEW new, NEW k, Operate(type, kind, new, k),
         \A i \in DOMAIN table : new[i] # << >> /\ (IsFree(table[i]) <=> kind = "free")
             /\ (~IsFree(table[i]) => todo.id = Part(table[i].num)) =>
           Executed(new[i], Moves, k.mount, k.fs, k.format, listed, plan, done + 1)
  PROVE  PlanInv'
<1>1. /\ phase = "partitioning" /\ keys' = k /\ done' = done + 1
      /\ UNCHANGED <<listed, mode, plan, parts, phase, disk, extended, targets, made>>
  BY OperateIs
<1>2. PICK i \in DOMAIN table :
         /\ table' = new[i] /\ new[i] # << >>
         /\ IsFree(table[i]) <=> kind = "free"
         /\ ~IsFree(table[i]) => todo.id = Part(table[i].num)
  BY OperateIs
<1>4. Moves' = Moves
  BY <1>1 DEF Moves, Moved, Logical
<1>3. Executed(table', Moves, k.mount, k.fs, k.format, listed, plan, done + 1)
  BY <1>2
<1>5. mode' = "custom"
  BY <1>1, OperateIs
<1>6. Executed(table, Moves, keys.mount, keys.fs, keys.format, listed, plan, done)'
  BY <1>1, <1>3, <1>4 DEF Executed, Behind, Logical
<1> QED
  BY <1>1, <1>5, <1>6 DEF PlanInv

\* Each operation of the worker keeps the table and the plan together.
LEMMA PlanOperation ==
  ASSUME SizesInv, LostInv, PlanInv, Create \/ Resize \/ RemovePartition \/ SetMountpoint \/ SetFilesystem
  PROVE  PlanInv'
<1>1. phase = "partitioning" /\ done < Len(plan) /\ mode = "custom"
  BY DEF Create, Resize, RemovePartition, SetMountpoint, SetFilesystem, Operate
<1>2. /\ table \in Seq(Regions) /\ todo \in Ops /\ Sectors(todo.size) \in Nat /\ todo = plan[done + 1]
      /\ done \in Nat /\ Len(plan) \in Nat
  <2>1. plan \in Seq(Ops) /\ done \in Nat /\ table \in Seq(Regions)
    BY <1>1 DEF SizesInv, Shapes
  <2>2. todo = plan[done + 1]
    BY DEF todo
  <2>3. Len(plan) \in Nat
    BY <2>1
  <2> QED
    BY <1>1, <2>1, <2>2, <2>3, OpIs
<1>3. /\ Planned(parts, listed, plan)
      /\ Executed(table, Moves, keys.mount, keys.fs, keys.format, listed, plan, done)
  BY <1>1 DEF PlanInv
<1>0. keys = [mount |-> keys.mount, fs |-> keys.fs, format |-> keys.format]
  BY <1>1 DEF LostInv, KeysHeld
<1>9. ASSUME NEW i \in DOMAIN table, ~IsFree(table[i]), todo.id = Part(table[i].num), todo.type # "create"
      PROVE  i \in Solid(table) /\ (table[i].num \in Moves \/ i \in Kept(table, Moves))
  <2>1. i \in Solid(table)
    BY <1>9 DEF Solid
  <2>2. NamesShown(listed, plan)
    BY <1>3 DEF Planned
  <2> QED
    BY <1>1, <1>2, <1>3, <1>9, <2>1, <2>2, NamedIsOld
<1>10. ASSUME NEW i \in DOMAIN table, todo.id = Part(table[i].num) PROVE todo.id.n = table[i].num
  BY <1>10 DEF Part
<1>11. "part" # "free" /\ "resize" # "create" /\ "remove" # "create" /\ "mount" # "create" /\ "filesystem" # "create"
  OBVIOUS
<1>4. CASE Create
  <2> DEFINE new == [i \in DOMAIN table |-> NewTable(i)]
             k == [mount |-> With(keys.mount, NextNumber, todo.mount),
                   fs |-> With(keys.fs, NextNumber, todo.fs),
                   format |-> keys.format \cup {NextNumber}]
  <2>1. Operate("create", "free", new, k)
    BY <1>4 DEF Create
  <2>2. todo.type = "create"
    BY <2>1, OperateIs
  <2>3. ASSUME NEW i \in DOMAIN table, new[i] # << >>, IsFree(table[i])
        PROVE  Executed(new[i], Moves, k.mount, k.fs, k.format, listed, plan, done + 1)
    <3>0. FreeNumbers # {} /\ \E size \in Nat : \E g : Replaced(g, NewTable(i), table, i, Fresh(size))
      BY <1>2, <2>2, <2>3, NewTableReplaces
    <3>1. PICK size \in Nat : \E g : Replaced(g, NewTable(i), table, i, Fresh(size))
      BY <3>0
    <3>2. PICK g : Replaced(g, NewTable(i), table, i, Fresh(size))
      BY <3>1
    <3>3. Fresh(size).was = 0 /\ ~IsFree(Fresh(size)) /\ Fresh(size).num = NextNumber
      BY <1>2, <2>2, <3>0, FreshIs
    <3>4. /\ \A j \in DOMAIN table : table[j].num # NextNumber
          /\ NextNumber \in Nat \ {0} /\ ~Logical(NextNumber)
      BY <1>2, <3>0, NextNumberIs DEF Logical
    <3>6. Moves \subseteq Logicals
      BY DEF Moves, Moved, Logicals
    <3>5. Executed(NewTable(i), Moves, With(keys.mount, NextNumber, todo.mount), With(keys.fs, NextNumber, todo.fs),
                   keys.format \cup {NextNumber}, listed, plan, done + 1)
      BY <1>2, <1>3, <2>2, <2>3, <3>2, <3>3, <3>4, <3>6, ExecutedCreate
    <3> QED
      BY <3>5
  <2> HIDE DEF new, k
  <2> QED
    BY <2>1, <2>3, PlanOperate
<1>5. CASE Resize
  <2> DEFINE new == [i \in DOMAIN table |-> ResizedTable(i)]
  <2>1. Operate("resize", "part", new, keys)
    BY <1>5 DEF Resize
  <2>5. todo.type = "resize"
    BY <2>1, OperateIs
  <2>2. ASSUME NEW i \in DOMAIN table, new[i] # << >>, ~IsFree(table[i])
        PROVE  Executed(new[i], Moves, keys.mount, keys.fs, keys.format, listed, plan, done + 1)
    <3>1. PICK size \in Nat : \E g : Replaced(g, ResizedTable(i), table, i, WithSize(table[i], size))
      BY <1>2, <2>2, ResizedTableReplaces
    <3> DEFINE r == WithSize(table[i], size)
    <3>2. PICK g : Replaced(g, ResizedTable(i), table, i, r)
      BY <3>1
    <3>3. table[i] \in Regions
      BY <1>2
    <3>4. r.num = table[i].num /\ r.fs = table[i].fs /\ r.was = table[i].was
      BY <3>3, RegionSized
    <3>5. ~IsFree(r) /\ i \in Solid(table)
      BY <2>2, <3>4 DEF IsFree, Solid
    <3> HIDE DEF r
    <3>6. Executed(ResizedTable(i), Moves, keys.mount, keys.fs, keys.format, listed, plan, done + 1)
      BY <1>2, <1>3, <2>5, <3>2, <3>4, <3>5, ExecutedResize
    <3> QED
      BY <3>6
  <2> HIDE DEF new
  <2> QED
    BY <1>11, <2>1, <2>2, PlanOperate
<1>6. CASE RemovePartition
  <2> DEFINE new == [i \in DOMAIN table |-> Renumbered(Removed(i), table[i].num)]
             k == [mount |-> Minus(keys.mount, todo.id.n), fs |-> Minus(keys.fs, todo.id.n),
                   format |-> keys.format \ {todo.id.n}]
  <2>1. Operate("remove", "part", new, k)
    BY <1>6 DEF RemovePartition
  <2>2. todo.type = "remove"
    BY <2>1, OperateIs
  <2>3. ASSUME NEW i \in DOMAIN table, ~IsFree(table[i]), todo.id = Part(table[i].num)
        PROVE  Executed(new[i], Moves, k.mount, k.fs, k.format, listed, plan, done + 1)
    <3> DEFINE r == Gap(table[i], table[i].size)
               b == table[i].num
    <3>1. IsFree(r) /\ \E g : Replaced(g, Removed(i), table, i, r)
      BY <1>2, RemovedTableReplaces
    <3> HIDE DEF r
    <3>2. PICK g : Replaced(g, Removed(i), table, i, r)
      BY <3>1
    <3>3. i \in Solid(table) /\ todo.id.n = b
      BY <1>10, <2>3 DEF Solid
    <3>4. plan[done + 1].type = "remove" /\ plan[done + 1].id = Part(b)
      BY <1>2, <2>2, <2>3
    <3>10. \A h \in Solid(Removed(i)) : Removed(i)[h].num # b
      <4>1. NumberedOnce(table)
        BY <1>3 DEF Executed
      <4> QED
        BY <3>1, <3>2, <3>3, <4>1, GoneNumber
    <3>5. Executed(Removed(i), Moves, Minus(keys.mount, b), Minus(keys.fs, b), keys.format \ {b},
                   listed, plan, done + 1)
      <4> HIDE DEF b
      <4>1. table[i].num = b
        BY DEF b
      <4> QED
        BY <1>2, <1>3, <3>1, <3>2, <3>3, <3>4, <4>1, ExecutedRemove
    <3>6. Removed(i) \in Seq(Regions) /\ b \in Nat
      BY <1>2, RemovedTableAddsUp DEF Regions
    <3>7. Shifted(Renumbered(Removed(i), b), Removed(i), b)
      <4> HIDE DEF b
      <4> QED
        BY <3>6, RenumberedIs
    <3>8. \A a \in Nat : Logical(b) /\ a > b => a \in Moves
      <4>1. done + 1 \in DOMAIN plan /\ plan[done + 1].id.n = b
        BY <1>1, <1>2, <3>4 DEF Part, SizesInv, Shapes
      <4> HIDE DEF b
      <4>2. ASSUME NEW a \in Nat, Logical(b), a > b PROVE Moved(a)
        <5>1. Logical(a) /\ b \in 5 .. (a - 1)
          BY <3>6, <4>2 DEF Logical
        <5> QED
          BY <3>4, <4>1, <5>1 DEF Moved
      <4> QED
        BY <4>2 DEF Moves
    <3>9. Executed(Renumbered(Removed(i), b), Moves, Minus(keys.mount, b), Minus(keys.fs, b), keys.format \ {b},
                   listed, plan, done + 1)
      <4> HIDE DEF b
      <4> QED
        BY <3>5, <3>6, <3>7, <3>8, <3>10, ExecutedRenumbered
    <3> QED
      BY <3>3, <3>9
  <2> HIDE DEF new, k
  <2> QED
    BY <1>11, <2>1, <2>3, PlanOperate
<1>7. CASE SetMountpoint
  <2> DEFINE new == [i \in DOMAIN table |-> table]
             k == [mount |-> With(keys.mount, todo.id.n, todo.mount), fs |-> keys.fs, format |-> keys.format]
  <2>1. k = [keys EXCEPT !.mount = With(@, todo.id.n, todo.mount)]
    BY <1>0
  <2>2. Operate("mount", "part", new, k)
    BY <1>7, <2>1 DEF SetMountpoint
  <2>3. todo.type = "mount"
    BY <2>2, OperateIs
  <2>4. ASSUME NEW i \in DOMAIN table, ~IsFree(table[i]), todo.id = Part(table[i].num)
        PROVE  Executed(new[i], Moves, k.mount, k.fs, k.format, listed, plan, done + 1)
    <3> DEFINE b == table[i].num
    <3>1. i \in Solid(table) /\ (b \in Moves \/ i \in Kept(table, Moves)) /\ todo.id.n = b
      BY <1>9, <1>10, <1>11, <2>3, <2>4
    <3>2. plan[done + 1].type = "mount" /\ plan[done + 1].id = Part(b)
      BY <1>2, <2>3, <2>4
    <3>3. Executed(table, Moves, With(keys.mount, b, plan[done + 1].mount), keys.fs, keys.format, listed, plan, done + 1)
      <4> HIDE DEF b
      <4>1. table[i].num = b
        BY DEF b
      <4> QED
        BY <1>2, <1>3, <3>1, <3>2, <4>1, ExecutedMount
    <3> QED
      BY <1>2, <3>1, <3>3
  <2> HIDE DEF new, k
  <2> QED
    BY <1>11, <2>2, <2>4, PlanOperate
<1>8. CASE SetFilesystem
  <2> DEFINE new == [i \in DOMAIN table |-> table]
             k == [mount |-> keys.mount, fs |-> With(keys.fs, todo.id.n, todo.fs),
                   format |-> keys.format \cup {todo.id.n}]
  <2>1. k = [keys EXCEPT !.fs = With(@, todo.id.n, todo.fs), !.format = @ \cup {todo.id.n}]
    <3>1. \A x, y : [keys EXCEPT !.fs = x, !.format = y] = [mount |-> keys.mount, fs |-> x, format |-> y]
      BY <1>0, ChangedTwice, Zenon
    <3> QED
      BY <3>1, Zenon
  <2>2. Operate("filesystem", "part", new, k)
    BY <1>8, <2>1 DEF SetFilesystem
  <2>3. todo.type = "filesystem"
    BY <2>2, OperateIs
  <2>4. ASSUME NEW i \in DOMAIN table, ~IsFree(table[i]), todo.id = Part(table[i].num)
        PROVE  Executed(new[i], Moves, k.mount, k.fs, k.format, listed, plan, done + 1)
    <3> DEFINE b == table[i].num
    <3>1. i \in Solid(table) /\ (b \in Moves \/ i \in Kept(table, Moves)) /\ todo.id.n = b
      BY <1>9, <1>10, <1>11, <2>3, <2>4
    <3>2. plan[done + 1].type = "filesystem" /\ plan[done + 1].id = Part(b)
      BY <1>2, <2>3, <2>4
    <3>3. Executed(table, Moves, keys.mount, With(keys.fs, b, plan[done + 1].fs), keys.format \cup {b}, listed, plan, done + 1)
      <4> HIDE DEF b
      <4>1. table[i].num = b
        BY DEF b
      <4> QED
        BY <1>2, <1>3, <3>1, <3>2, <4>1, ExecutedFilesystem
    <3> QED
      BY <1>2, <3>1, <3>3
  <2> HIDE DEF new, k
  <2> QED
    BY <1>11, <2>2, <2>4, PlanOperate
<1> QED
  BY <1>4, <1>5, <1>6, <1>7, <1>8

\* What is probed is the filesystem of the partition.
LEMMA ProbedIs ==
  ASSUME table \in Seq(Regions), NumberedOnce(table), NEW i \in Solid(table)
  PROVE  Probed(table[i].num) = table[i].fs /\ Meant(table[i].num) = Called(table[i].was)
<1> DEFINE b == table[i].num
           h == CHOOSE j \in DOMAIN table : table[j].num = b
<1>1. i \in DOMAIN table /\ ~IsFree(table[i])
  BY DEF Solid
<1>2. h \in DOMAIN table /\ table[h].num = b
  BY <1>1
<1>3. Probed(b) = table[h].fs /\ Meant(b) = Called(table[h].was)
  BY DEF Probed, Meant, Called
<1> HIDE DEF h
<1>4. table[i] \in Regions /\ table[h] \in Regions
  BY <1>1, <1>2
<1>5. b # 0 /\ ~IsFree(table[h])
  BY <1>1, <1>2, <1>4 DEF Regions
<1>6. h = i
  BY <1>2, <1>5 DEF NumberedOnce, Solid
<1> QED
  BY <1>3, <1>6

\* At the commit the list and the table give the same targets.
LEMMA PlanCommit ==
  ASSUME SizesInv, LostInv, PlanInv, Commit
  PROVE  PlanInv'
<1> SUFFICES ASSUME mode = "custom" PROVE PlanInv'
  <2>1. mode' = mode
    BY DEF Commit, request
  <2> QED
    BY <2>1 DEF PlanInv
<1>1. /\ phase = "partitioning" /\ phase' \in {"formatting", "failed"} /\ done = Len(plan)
      /\ targets' \in {TargetsOf(keys), {}} /\ UNCHANGED <<listed, mode, plan, parts, extended, table, keys>>
  BY DEF Commit, request
<1>2. /\ Planned(parts, listed, plan)
      /\ Executed(table, Moves, keys.mount, keys.fs, keys.format, listed, plan, done)
  BY <1>1 DEF PlanInv
<1>3. table \in Seq(Regions) /\ plan \in Seq(Ops)
  BY <1>1 DEF SizesInv, Shapes
<1>4. Len(plan) \in Nat /\ DOMAIN plan = 1 .. Len(plan)
  BY <1>3
<1>5. ASSUME NEW t \in targets', t.num \notin Moves
      PROVE  Holds(parts, plan, Meant(t.num), t.mount, t.fs, t.format)
  <2>1. PICK b \in DOMAIN keys.mount : t = Target(keys, b)
    BY <1>1 DEF TargetsOf
  <2> DEFINE fs == IF b \in DOMAIN keys.fs THEN keys.fs[b] ELSE Probed(b)
  <2>2. t.num = b /\ t.mount = keys.mount[b] /\ t.fs = fs /\ t.format = (b \in keys.format)
    BY <2>1 DEF Target
  <2>3. b \in DOMAIN keys.fs => fs = keys.fs[b]
    OBVIOUS
  <2>6. NumberedOnce(table)
    BY <1>2 DEF Executed
  <2>4. b \notin DOMAIN keys.fs => \A i \in Solid(table) : table[i].num = b => fs = table[i].fs
    BY <1>3, <2>6, ProbedIs
  <2> HIDE DEF fs
  <2>8. TargetOf(table, parts, plan, b, keys.mount[b], fs, b \in keys.format)
    <3>1. b \notin Moves
      BY <1>5, <2>2
    <3>2. Executed(table, Moves, keys.mount, keys.fs, keys.format, listed, plan, Len(plan))
      BY <1>1, <1>2
    <3> QED
      BY <1>2, <1>4, <2>3, <2>4, <3>1, <3>2, TargetHolds
  <2>5. PICK i \in Solid(table) :
          table[i].num = b /\ Holds(parts, plan, Called(table[i].was), keys.mount[b], fs, b \in keys.format)
    BY <2>8 DEF TargetOf
  <2>7. Called(table[i].was) = Meant(b)
    BY <1>3, <2>5, <2>6, ProbedIs
  <2> QED
    BY <2>2, <2>5, <2>7
<1>7. /\ \A n : Moved(n)' <=> Moved(n)
      /\ \A n : Meant(n)' = Meant(n)
  BY <1>1 DEF Moved, Logical, Meant
<1>8. ASSUME NEW t \in targets', ~Moved(t.num)
      PROVE  Holds(parts, plan, Meant(t.num), t.mount, t.fs, t.format)
  BY <1>5, <1>8 DEF Moves
<1>6. Held'
  BY <1>1, <1>7, <1>8 DEF Held
<1> QED
  BY <1>1, <1>6 DEF PlanInv

\* Every step keeps the plan and its execution together.
LEMMA PlanStep == ParametersAre /\ SizesInv /\ LostInv /\ PlanInv /\ [Next]_vars => PlanInv'
<1> SUFFICES ASSUME ParametersAre, SizesInv, LostInv, PlanInv, [Next]_vars PROVE PlanInv'
  OBVIOUS
<1>1. CASE Planning
  BY <1>1, PlanPlanning
<1>2. CASE ValidateInstallStorageData
  <2>1. /\ phase = "planning" /\ phase' = "partitioning" /\ table' = disk
        /\ UNCHANGED <<listed, mode, plan, parts, disk, extended, done, keys, targets, made>>
    BY <1>2 DEF ValidateInstallStorageData, request
  <2> SUFFICES ASSUME mode = "custom" PROVE PlanInv'
    BY <2>1 DEF PlanInv
  <2>2. Planned(parts, listed, plan) /\ done = 0 /\ keys = NoKeys /\ Original(disk, listed)
    BY <2>1 DEF PlanInv
  <2>3. DOMAIN keys.mount = {} /\ DOMAIN keys.fs = {} /\ keys.format = {}
    BY <2>2 DEF NoKeys
  <2>5. Moves' = Moves
    BY <2>1 DEF Moves, Moved, Logical
  <2>4. Executed(disk, Moves, keys.mount, keys.fs, {}, listed, plan, 0)
    BY <2>2, <2>3, ExecutedAtFirst
  <2>6. Executed(table, Moves, keys.mount, keys.fs, keys.format, listed, plan, done)'
    BY <2>1, <2>2, <2>3, <2>4, <2>5 DEF Executed, Behind, Logical
  <2> QED
    BY <2>1, <2>2, <2>6 DEF PlanInv
<1>3. CASE Create \/ Resize \/ RemovePartition \/ SetMountpoint \/ SetFilesystem
  BY <1>3, PlanOperation
<1>4. CASE Commit
  BY <1>4, PlanCommit
<1>5. CASE Erase
  <2>1. mode = "erase" /\ mode' = mode
    BY <1>5 DEF Erase, request
  <2> QED
    BY <2>1 DEF PlanInv
<1>6. CASE Format
  <2>1. phase = "formatting" /\ UNCHANGED <<mode, phase, parts, plan, extended, table, targets>>
    BY <1>6 DEF Format, request
  <2> QED
    BY <2>1 DEF PlanInv, Held, Moved, Logical, Meant
<1>7. CASE Formatted
  <2>1. phase = "formatting" /\ phase' = "done" /\ UNCHANGED <<mode, parts, plan, extended, table, targets>>
    BY <1>7 DEF Formatted, request, work
  <2> QED
    BY <2>1 DEF PlanInv, Held, Moved, Logical, Meant
<1>9. CASE Fail
  <2>1. phase' = "failed" /\ mode' = mode
    BY <1>9 DEF Fail, request
  <2> QED
    BY <2>1 DEF PlanInv
<1>8. CASE UNCHANGED vars
  <2>1. UNCHANGED <<listed, mode, plan, parts, phase, disk, extended, table, done, keys, targets, made>>
    BY <1>8 DEF vars, request, work
  <2>2. Moves' = Moves /\ (Held <=> Held')
    BY <2>1 DEF Moves, Held, Moved, Logical, Meant
  <2>3. /\ Executed(table, Moves, keys.mount, keys.fs, keys.format, listed, plan, done) =>
             Executed(table, Moves, keys.mount, keys.fs, keys.format, listed, plan, done)'
    BY <2>1, <2>2 DEF Executed, Behind, Logical
  <2> QED
    BY <2>1, <2>2, <2>3 DEF PlanInv
<1> QED
  BY <1>1, <1>2, <1>3, <1>4, <1>5, <1>6, <1>7, <1>8, <1>9 DEF Next

\* And then what succeeded is as planned.
LEMMA PlanShows == PlanInv => ExecutedAsPlanned
<1> SUFFICES ASSUME PlanInv, phase = "done", mode = "custom", NEW t \in targets, ~Moved(t.num)
             PROVE  \E i \in DOMAIN parts :
                      /\ parts[i].mount = t.mount /\ parts[i].fs = t.fs /\ parts[i].id = Meant(t.num)
                      /\ t.format <=> \/ parts[i].id = Unnamed
                                      \/ \E j \in DOMAIN plan :
                                           plan[j].id = parts[i].id /\ plan[j].type = "filesystem"
  BY DEF ExecutedAsPlanned
<1> QED
  BY DEF PlanInv, Held, Holds

\* What the invariant spares is not lost.
LEMMA LostShows == LostInv => OnlyNamedLost
<1> SUFFICES ASSUME LostInv PROVE OnlyNamedLost
  OBVIOUS
<1>1. CASE mode = "erase"
  BY <1>1 DEF OnlyNamedLost
<1>2. CASE mode # "erase"
  BY <1>2 DEF LostInv
<1> QED
  BY <1>1, <1>2

-----------------------------------------------------------------------------
(* Regions stay regions, each partition with a number of its own *)

\* A filesystem to make is one, on a partition that has a number.
PlanMakes(p) == \A j \in DOMAIN p : p[j].type = "filesystem" => p[j].fs # ""
KeysMake(f, x) == \A n \in x : n # 0 /\ n \in DOMAIN f /\ f[n] \in Texts /\ f[n] # ""
TargetsMake(w) == \A t \in w : t.format => t.num # 0 /\ t.fs \in Texts /\ t.fs # ""

RegionsInv ==
  /\ phase \in {"planning", "partitioning", "formatting", "done", "failed"}
  /\ mode \in {"erase", "manual", "custom"}
  /\ done <= Len(plan) /\ made \subseteq targets
  /\ phase \in {"planning", "partitioning"} => made = {}
  /\ phase = "planning" => disk \in Disks
  /\ disk \in Seq(Regions) /\ table \in Seq(Regions) /\ NumberedOnce(table)
  /\ PlanMakes(plan) /\ KeysMake(keys.fs, keys.format) /\ TargetsMake(targets)

\* A partition and a number of its own go together.
LEMMA NumberedDiffer ==
  ASSUME NEW t \in Seq(Regions), NumberedOnce(t)
  PROVE  \A i, j \in DOMAIN t : i # j /\ ~IsFree(t[i]) => t[i].num # t[j].num
<1> SUFFICES ASSUME NEW i \in DOMAIN t, NEW j \in DOMAIN t, ~IsFree(t[i]), t[i].num = t[j].num PROVE i = j
  OBVIOUS
<1>1. t[i] \in Regions /\ t[j] \in Regions
  OBVIOUS
<1>2. ~IsFree(t[j])
  BY <1>1 DEF Regions
<1> QED
  BY <1>2 DEF NumberedOnce, Solid

\* At first the disk is as it was found, and nothing is to make.
LEMMA RegionsInit == DisksAre /\ Init => RegionsInv
<1> SUFFICES ASSUME DisksAre, Init PROVE RegionsInv
  OBVIOUS
<1>1. disk \in Disks /\ disk \in Seq(Regions)
  BY DEF DisksAre, Init, StorageDevices
<1>2. /\ phase = "planning" /\ mode \in {"erase", "manual", "custom"} /\ done = 0 /\ plan = << >>
      /\ table = << >> /\ keys = NoKeys /\ targets = {} /\ made = {}
  BY DEF Init
<1>3. table \in Seq(Regions) /\ NumberedOnce(table) /\ done <= Len(plan) /\ PlanMakes(plan)
  BY <1>2 DEF NumberedOnce, Solid, PlanMakes
<1>4. KeysMake(keys.fs, keys.format) /\ TargetsMake(targets)
  BY <1>2 DEF KeysMake, NoKeys, TargetsMake
<1> QED
  BY <1>1, <1>2, <1>3, <1>4 DEF RegionsInv

\* An operation that the client adds names the filesystem that it makes.
LEMMA PlanningMakes ==
  ASSUME ParametersAre, SizesInv, Planning
  PROVE  \E o \in Ops : plan' = Append(plan, o) /\ (o.type = "filesystem" => o.fs # "")
<1>0. parts \in Seq(Entries) /\ listed \in Seq(Entries) /\ (mode = "manual" => DOMAIN parts = DOMAIN listed)
  BY DEF SizesInv, Shapes
<1>1. PICK i \in DOMAIN parts :
        \/ \E z \in Sized, fs \in Filesystems, mount \in Mounts : PlanCreate(i, z, fs, mount)
        \/ \E z \in Sized : PlanResize(i, z)
        \/ PlanRemove(i)
        \/ \E mount \in Mounts : PlanMountpoint(i, mount) \/ PlanMount(i, mount)
        \/ \E fs \in Filesystems : PlanFilesystem(i, fs)
  BY DEF Planning
<1>2. parts[i].id \in Names
  <2>1. parts[i] \in Entries
    BY <1>0
  <2> QED
    BY <2>1 DEF Entries
<1>3. ASSUME NEW op \in Ops, NEW s, Simulate(op, i, s), op.type = "filesystem" => op.fs # ""
      PROVE  \E o \in Ops : plan' = Append(plan, o) /\ (o.type = "filesystem" => o.fs # "")
  <2> DEFINE o == [op EXCEPT !.id = parts[i].id]
  <2>1. o \in Ops /\ o.type = op.type /\ o.fs = op.fs
    BY <1>2 DEF Ops
  <2>2. plan' = Append(plan, o)
    BY <1>3 DEF Simulate
  <2> HIDE DEF o
  <2> QED
    BY <1>3, <2>1, <2>2
<1>4. ASSUME NEW z \in Sized, NEW fs \in Filesystems, NEW mount \in Mounts, PlanCreate(i, z, fs, mount)
      PROVE  \E o \in Ops : plan' = Append(plan, o) /\ (o.type = "filesystem" => o.fs # "")
  <2> DEFINE op == [type |-> "create", id |-> Unnamed, size |-> z.size, remaining |-> z.remaining,
                    fs |-> fs, mount |-> mount]
  <2>1. \E s : Simulate(op, i, s)
    BY <1>4 DEF PlanCreate
  <2>2. z.size \in Nat /\ z.remaining \in BOOLEAN /\ fs \in Texts /\ fs # "" /\ mount \in Texts
    BY PlanningOps
  <2>3. "create" \in Texts /\ Unnamed \in Names
    BY DEF Texts, Unnamed, Names
  <2>4. op \in Ops /\ op.fs = fs
    BY <2>2, <2>3 DEF Ops
  <2> HIDE DEF op
  <2> QED
    BY <1>3, <2>1, <2>2, <2>4
<1>5. ASSUME NEW z \in Sized, PlanResize(i, z)
      PROVE  \E o \in Ops : plan' = Append(plan, o) /\ (o.type = "filesystem" => o.fs # "")
  <2> DEFINE base == Op("resize", Unnamed)
             op == [base EXCEPT !.size = z.size, !.remaining = z.remaining]
  <2>1. \E s : Simulate(op, i, s)
    BY <1>5 DEF PlanResize
  <2>2. base \in Ops /\ base.type = "resize" /\ z.size \in Nat /\ z.remaining \in BOOLEAN
    BY PlanningOps DEF Op
  <2> HIDE DEF base
  <2>3. op \in Ops /\ op.type = "resize"
    BY <2>2 DEF Ops
  <2> HIDE DEF op
  <2> QED
    BY <1>3, <2>1, <2>3
<1>6. ASSUME PlanRemove(i)
      PROVE  \E o \in Ops : plan' = Append(plan, o) /\ (o.type = "filesystem" => o.fs # "")
  <2> DEFINE op == Op("remove", Unnamed)
  <2>1. \E s : Simulate(op, i, s)
    BY <1>6 DEF PlanRemove
  <2>2. op \in Ops /\ op.type = "remove"
    BY PlanningOps DEF Op
  <2> HIDE DEF op
  <2> QED
    BY <1>3, <2>1, <2>2
<1>7. ASSUME NEW mount \in Mounts, PlanMountpoint(i, mount)
      PROVE  \E o \in Ops : plan' = Append(plan, o) /\ (o.type = "filesystem" => o.fs # "")
  <2> DEFINE base == Op("mount", Unnamed)
             op == [base EXCEPT !.mount = mount]
  <2>1. \E s : Simulate(op, i, s)
    BY <1>7 DEF PlanMountpoint
  <2>2. base \in Ops /\ base.type = "mount" /\ mount \in Texts
    BY PlanningOps DEF Op
  <2> HIDE DEF base
  <2>3. op \in Ops /\ op.type = "mount"
    BY <2>2 DEF Ops
  <2> HIDE DEF op
  <2> QED
    BY <1>3, <2>1, <2>3
<1>8. ASSUME NEW mount \in Mounts, PlanMount(i, mount)
      PROVE  \E o \in Ops : plan' = Append(plan, o) /\ (o.type = "filesystem" => o.fs # "")
  <2>1. mode = "manual" /\ plan' = Append(plan, [Op("mount", listed[i].id) EXCEPT !.mount = mount])
    BY <1>8 DEF PlanMount
  <2>2. listed[i].id \in Names /\ mount \in Texts /\ "mount" \in Texts /\ "" \in Texts
    <3>1. listed[i] \in Entries
      BY <1>0, <2>1
    <3> QED
      BY <3>1, PlanningOps DEF Entries, Texts
  <2> DEFINE base == Op("mount", listed[i].id)
             op == [base EXCEPT !.mount = mount]
  <2>3. base = [type |-> "mount", id |-> listed[i].id, size |-> 0, remaining |-> FALSE, fs |-> "", mount |-> ""]
    BY DEF Op
  <2>4. base \in Ops /\ base.type = "mount"
    <3> HIDE DEF base
    <3> QED
      BY <2>2, <2>3 DEF Ops
  <2>5. plan' = Append(plan, op)
    BY <2>1
  <2> HIDE DEF base
  <2>6. op \in Ops /\ op.type = "mount"
    BY <2>2, <2>4 DEF Ops
  <2> HIDE DEF op
  <2> QED
    BY <2>5, <2>6
<1>9. ASSUME NEW fs \in Filesystems, PlanFilesystem(i, fs)
      PROVE  \E o \in Ops : plan' = Append(plan, o) /\ (o.type = "filesystem" => o.fs # "")
  <2> DEFINE base == Op("filesystem", Unnamed)
             op == [base EXCEPT !.fs = fs]
  <2>1. \E s : Simulate(op, i, s)
    BY <1>9 DEF PlanFilesystem
  <2>2. base \in Ops /\ base.type = "filesystem" /\ fs \in Texts /\ fs # ""
    BY PlanningOps DEF Op
  <2> HIDE DEF base
  <2>3. op \in Ops /\ op.fs = fs
    BY <2>2 DEF Ops
  <2> HIDE DEF op
  <2> QED
    BY <1>3, <2>1, <2>2, <2>3
<1> QED
  BY <1>1, <1>4, <1>5, <1>6, <1>7, <1>8, <1>9

\* Planning leaves the disk and lengthens the plan.
LEMMA RegionsPlanned ==
  ASSUME ParametersAre, SizesInv, RegionsInv, Planning
  PROVE  RegionsInv'
<1>1. PICK o \in Ops : plan' = Append(plan, o) /\ (o.type = "filesystem" => o.fs # "")
  BY PlanningMakes
<1>2. plan \in Seq(Ops) /\ done \in Nat
  BY DEF SizesInv, Shapes
<1>3. Longer(plan', plan, o)
  BY <1>1, <1>2, Lengthened, Zenon
<1>7. DOMAIN plan' = 1 .. (Len(plan) + 1) /\ Len(plan) \in Nat /\ DOMAIN plan = 1 .. Len(plan)
  <2>1. plan' = Append(plan, o)
    BY <1>1
  <2>2. plan \in Seq(Ops) /\ o \in Ops
    BY <1>2
  <2>3. Append(plan, o) \in Seq(Ops)
    BY <2>2
  <2> QED
    BY <1>2, <1>3, <2>1, <2>3 DEF Longer
<1>4. PlanMakes(plan')
  <2> SUFFICES ASSUME NEW j \in DOMAIN plan', plan'[j].type = "filesystem" PROVE plan'[j].fs # ""
    BY DEF PlanMakes
  <2>1. CASE j \in 1 .. Len(plan)
    <3>1. plan'[j] = plan[j]
      BY <1>3, <2>1 DEF Longer
    <3> QED
      BY <1>7, <2>1, <3>1 DEF RegionsInv, PlanMakes
  <2>2. CASE j = Len(plan) + 1
    BY <1>1, <1>3, <2>2 DEF Longer
  <2> QED
    <3>1. j \in 1 .. (Len(plan) + 1)
      BY <1>7
    <3>2. j \in 1 .. Len(plan) \/ j = Len(plan) + 1
      BY <1>7, <3>1
    <3> QED
      BY <2>1, <2>2, <3>2
<1>5. done' = done /\ done <= Len(plan')
  BY <1>2, <1>3, PlanningStays DEF Longer, RegionsInv, work
<1>6. UNCHANGED <<mode, phase, disk, table, keys, targets, made>>
  BY PlanningStays DEF work
<1> QED
  BY <1>4, <1>5, <1>6 DEF RegionsInv

\* The worker's maps are for partitions, which have numbers.
LEMMA KeysOperated ==
  ASSUME SizesInv, LostInv, RegionsInv, Create \/ Resize \/ RemovePartition \/ SetMountpoint \/ SetFilesystem
  PROVE  KeysMake(keys'.fs, keys'.format)
<1>1. phase = "partitioning" /\ done < Len(plan) /\ mode = "custom"
  BY DEF Create, Resize, RemovePartition, SetMountpoint, SetFilesystem, Operate
<1>2. plan \in Seq(Ops) /\ done \in Nat /\ table \in Seq(Regions)
  BY <1>1 DEF SizesInv, Shapes
<1>3. todo \in Ops /\ todo.fs \in Texts /\ done + 1 \in DOMAIN plan /\ (todo.type = "create" => todo.fs # "")
  BY <1>1, <1>2, OpIs
<1>4. todo.type = "filesystem" => todo.fs # ""
  BY <1>3 DEF RegionsInv, PlanMakes, todo
<1>5. keys = [mount |-> keys.mount, fs |-> keys.fs, format |-> keys.format]
  BY <1>1 DEF LostInv, KeysHeld
<1>6. KeysMake(keys.fs, keys.format)
  BY DEF RegionsInv
<1>7. ASSUME NEW type, NEW kind, NEW new, NEW k, Operate(type, kind, new, k), kind # "free"
      PROVE  todo.id.n # 0
  <2>1. PICK i \in DOMAIN table : ~IsFree(table[i]) /\ todo.id = Part(table[i].num)
    BY <1>7, OperateIs
  <2>2. table[i] \in Regions
    BY <1>2
  <2> QED
    BY <2>1, <2>2 DEF Regions, Part
<1>8. ASSUME NEW n, n # 0, NEW fs \in Texts, fs # "" PROVE KeysMake(With(keys.fs, n, fs), keys.format \cup {n})
  BY <1>6, <1>8 DEF KeysMake, With
<1>11. CASE Create
  <2> DEFINE k == [mount |-> With(keys.mount, NextNumber, todo.mount),
                   fs |-> With(keys.fs, NextNumber, todo.fs),
                   format |-> keys.format \cup {NextNumber}]
  <2>1. keys' = k /\ todo.type = "create"
    BY <1>11 DEF Create, Operate
  <2>2. NextNumber # 0
    <3>1. PICK i \in DOMAIN table : table' = NewTable(i) /\ NewTable(i) # << >> /\ IsFree(table[i])
      BY <1>11 DEF Create, Operate, Positions, Visible
    <3>2. FreeNumbers # {}
      BY <1>3, <2>1, <3>1 DEF NewTable
    <3> QED
      BY <1>2, <3>2, NextNumberIs
  <2> QED
    BY <1>3, <1>8, <2>1, <2>2
<1>12. CASE Resize
  BY <1>6, <1>12 DEF Resize, Operate
<1>13. CASE RemovePartition
  <2> DEFINE b == todo.id.n
  <2>1. keys' = [mount |-> Minus(keys.mount, b), fs |-> Minus(keys.fs, b), format |-> keys.format \ {b}]
    BY <1>13 DEF RemovePartition, Operate
  <2> HIDE DEF b
  <2>2. keys'.fs = Minus(keys.fs, b) /\ keys'.format = keys.format \ {b}
    BY <2>1
  <2>3. KeysMake(Minus(keys.fs, b), keys.format \ {b})
    BY <1>6 DEF KeysMake, Minus
  <2> QED
    BY <2>2, <2>3
<1>14. CASE SetMountpoint
  <2>1. keys' = [keys EXCEPT !.mount = With(@, todo.id.n, todo.mount)]
    BY <1>14 DEF SetMountpoint, Operate
  <2>2. keys'.fs = keys.fs /\ keys'.format = keys.format
    BY <1>5, <2>1
  <2> QED
    BY <1>6, <2>2
<1>15. CASE SetFilesystem
  <2> DEFINE new == [i \in DOMAIN table |-> table]
             k == [keys EXCEPT !.fs = With(@, todo.id.n, todo.fs), !.format = @ \cup {todo.id.n}]
  <2>1. Operate("filesystem", "part", new, k)
    BY <1>15 DEF SetFilesystem
  <2>2. todo.id.n # 0
    <3>1. "part" # "free"
      OBVIOUS
    <3> HIDE DEF new, k
    <3> QED
      BY <1>7, <2>1, <3>1
  <2>3. keys' = k /\ todo.type = "filesystem"
    BY <2>1 DEF Operate
  <2>4. k = [mount |-> keys.mount, fs |-> With(keys.fs, todo.id.n, todo.fs), format |-> keys.format \cup {todo.id.n}]
    <3>1. \A x, y : [keys EXCEPT !.fs = x, !.format = y] = [mount |-> keys.mount, fs |-> x, format |-> y]
      BY <1>5, ChangedTwice, Zenon
    <3> QED
      BY <3>1, Zenon
  <2> HIDE DEF k
  <2>5. keys'.fs = With(keys.fs, todo.id.n, todo.fs) /\ keys'.format = keys.format \cup {todo.id.n}
    BY <2>3, <2>4
  <2> QED
    BY <1>3, <1>4, <1>8, <2>2, <2>3, <2>5
<1> QED
  BY <1>11, <1>12, <1>13, <1>14, <1>15

\* An operation leaves a table of regions.
LEMMA RegionsOperated ==
  ASSUME SizesInv, LostInv, PlanInv, RegionsInv, Create \/ Resize \/ RemovePartition \/ SetMountpoint \/ SetFilesystem
  PROVE  RegionsInv'
<1>1. /\ phase = "partitioning" /\ mode = "custom" /\ done < Len(plan) /\ done' = done + 1
      /\ UNCHANGED <<mode, plan, phase, disk, targets, made>>
  BY DEF Create, Resize, RemovePartition, SetMountpoint, SetFilesystem, Operate, request
<1>2. plan \in Seq(Ops) /\ done \in Nat
  BY DEF SizesInv, Shapes
<1>3. done' <= Len(plan')
  BY <1>1, <1>2
<1>4. SizesInv' /\ PlanInv'
  BY OperationAddsUp, PlanOperation
<1>5. table' \in Seq(Regions) /\ NumberedOnce(table')
  BY <1>1, <1>4 DEF SizesInv, Shapes, PlanInv, Executed
<1>6. KeysMake(keys'.fs, keys'.format)
  BY KeysOperated
<1> QED
  BY <1>1, <1>3, <1>5, <1>6 DEF RegionsInv

\* The commit takes the targets from the worker's maps.
LEMMA RegionsCommitted ==
  ASSUME RegionsInv, Commit
  PROVE  RegionsInv'
<1> DEFINE k == IF mode = "manual" THEN ManualKeys ELSE keys
<1>1. /\ phase = "partitioning" /\ phase' \in {"formatting", "failed"}
      /\ disk' = table /\ targets' \in {TargetsOf(k), {}} /\ UNCHANGED <<mode, plan, table, done, keys, made>>
  BY DEF Commit, request
<1>2. KeysMake(k.fs, k.format)
  <2>1. ManualKeys.format = {}
    BY DEF ManualKeys, NoKeys
  <2> QED
    BY <2>1 DEF KeysMake, RegionsInv
<1> HIDE DEF k
<1>3. TargetsMake(targets')
  <2> SUFFICES ASSUME NEW t \in targets', t.format PROVE t.num # 0 /\ t.fs \in Texts /\ t.fs # ""
    BY DEF TargetsMake
  <2>1. PICK n \in DOMAIN k.mount : t = Target(k, n)
    BY <1>1 DEF TargetsOf
  <2>2. /\ t.num = n /\ t.format = (n \in k.format)
        /\ t.fs = IF n \in DOMAIN k.fs THEN k.fs[n] ELSE Probed(n)
    BY <2>1 DEF Target
  <2> QED
    BY <1>2, <2>2 DEF KeysMake
<1>4. made = {}
  BY <1>1 DEF RegionsInv
<1> QED
  BY <1>1, <1>3, <1>4 DEF RegionsInv

\* A numbered region with a filesystem is a region.
LEMMA RegionIs ==
  ASSUME NEW num \in Nat, num # 0, NEW fs \in Texts, fs # "", NEW size \in Nat, NEW mount \in Texts,
         NEW inner \in BOOLEAN,
         NEW r, r = [num |-> num, fs |-> fs, size |-> size, mount |-> mount, was |-> 0, inner |-> inner]
  PROVE  r \in Regions /\ r.num = num
<1>1. r \in [num : Nat, fs : Texts, size : Nat, mount : Texts, was : Nat, inner : BOOLEAN]
  OBVIOUS
<1>2. r.num = num /\ r.fs = fs
  OBVIOUS
<1> QED
  BY <1>1, <1>2 DEF Regions, IsFree

\* What a target says of a filesystem to make.
LEMMA TargetIs ==
  ASSUME NEW num, NEW mount, NEW fs
  PROVE  /\ [num |-> num, mount |-> mount, fs |-> fs, format |-> TRUE].num = num
         /\ [num |-> num, mount |-> mount, fs |-> fs, format |-> TRUE].fs = fs
  OBVIOUS

\* Erasing leaves two partitions.
LEMMA RegionsErased ==
  ASSUME ParametersAre, SizesInv, RegionsInv, Erase
  PROVE  RegionsInv'
<1> DEFINE size == DeviceSize - 2 * SectorsPerMiB - Sectors(NewBoot)
           boot == Region(1, "fat32", Sectors(NewBoot), "")
           root == Region(2, "btrfs", size, "")
           first == [num |-> 1, mount |-> "/boot", fs |-> "fat32", format |-> TRUE]
           second == [num |-> 2, mount |-> "/", fs |-> "btrfs", format |-> TRUE]
<1>1. /\ phase = "partitioning" /\ size > 1 /\ table' = << boot, root >> /\ disk' = table' /\ phase' = "formatting"
      /\ targets' = {first, second} /\ UNCHANGED <<mode, plan, done, keys, made>>
  BY DEF Erase, request
<1>2. disk \in Seq(Regions) /\ Total(disk) \in Nat
  BY RegionsSizable, TotalNat DEF RegionsInv
<1>3. Sectors(NewBoot) \in Nat
  BY DEF Sectors, SectorsPerMiB, ParametersAre
<1>4. size \in Nat
  <2>1. size > 1
    BY <1>1
  <2>2. size = (Total(disk) + 2 * 2) - 2 * 2 - Sectors(NewBoot)
    BY DEF DeviceSize, Overhead, SectorsPerMiB
  <2> HIDE DEF size
  <2> QED
    BY <1>2, <1>3, <2>1, <2>2
<1> HIDE DEF size
<1>5. "fat32" \in Texts /\ "btrfs" \in Texts /\ "" \in Texts
  BY DEF Texts
<1>6. /\ boot = [num |-> 1, fs |-> "fat32", size |-> Sectors(NewBoot), mount |-> "", was |-> 0, inner |-> FALSE]
      /\ root = [num |-> 2, fs |-> "btrfs", size |-> size, mount |-> "", was |-> 0, inner |-> FALSE]
  BY Zenon DEF Region
<1> HIDE DEF boot, root
<1>7. boot \in Regions /\ boot.num = 1
  <2>1. 1 \in Nat /\ 1 # 0 /\ "fat32" # "" /\ FALSE \in BOOLEAN
    OBVIOUS
  <2> QED
    BY <1>3, <1>5, <1>6, <2>1, RegionIs, Zenon
<1>8. root \in Regions /\ root.num = 2
  <2>1. 2 \in Nat /\ 2 # 0 /\ "btrfs" # "" /\ FALSE \in BOOLEAN
    OBVIOUS
  <2> QED
    BY <1>4, <1>5, <1>6, <2>1, RegionIs, Zenon
<1>9. table' \in Seq(Regions) /\ NumberedOnce(table')
  BY <1>1, <1>7, <1>8 DEF NumberedOnce, Solid
<1>10. TargetsMake(targets')
  <2>1. /\ first.num # 0 /\ first.fs \in Texts /\ first.fs # ""
        /\ second.num # 0 /\ second.fs \in Texts /\ second.fs # ""
    <3>1. first.num = 1 /\ first.fs = "fat32" /\ second.num = 2 /\ second.fs = "btrfs"
      BY TargetIs, Zenon
    <3>2. 1 # 0 /\ 2 # 0 /\ "fat32" # "" /\ "btrfs" # ""
      OBVIOUS
    <3> HIDE DEF first, second
    <3> QED
      BY <1>5, <3>1, <3>2, Zenon
  <2> HIDE DEF first, second
  <2> QED
    BY <1>1, <2>1 DEF TargetsMake
<1>11. made = {}
  BY <1>1 DEF RegionsInv
<1> QED
  BY <1>1, <1>9, <1>10, <1>11 DEF RegionsInv

\* A filesystem is made on a partition, which stays one.
LEMMA RegionsFormatted ==
  ASSUME RegionsInv, Format
  PROVE  RegionsInv'
<1>1. phase = "formatting" /\ UNCHANGED <<mode, plan, phase, table, done, keys, targets>>
  BY DEF Format, request
<1>2. PICK t \in targets :
        /\ disk' = [i \in DOMAIN disk |->
             IF t.format /\ disk[i].num = t.num THEN Making(disk[i], t) ELSE disk[i]]
        /\ made' = made \cup {t}
  BY DEF Format, Making
<1>3. disk \in Seq(Regions)
  BY DEF RegionsInv
<1>4. ASSUME NEW i \in DOMAIN disk, t.format, disk[i].num = t.num PROVE Making(disk[i], t) \in Regions
  <2>1. disk[i] \in Regions
    BY <1>3
  <2>2. Making(disk[i], t)
          = [num |-> disk[i].num, fs |-> t.fs, size |-> disk[i].size, mount |-> disk[i].mount,
             was |-> 0, inner |-> disk[i].inner]
    BY <2>1, RegionsHeld, MadeIs
  <2>3. t.num # 0 /\ t.fs \in Texts /\ t.fs # ""
    BY <1>4 DEF RegionsInv, TargetsMake
  <2>4. disk[i].num \in Nat /\ disk[i].size \in Nat /\ disk[i].mount \in Texts /\ disk[i].inner \in BOOLEAN
    BY <2>1 DEF Regions
  <2>5. disk[i].num # 0
    BY <1>4, <2>3
  <2> QED
    <3> DEFINE d == disk[i]
               q == Making(d, t)
    <3>1. /\ d.num \in Nat /\ d.num # 0 /\ d.size \in Nat /\ d.mount \in Texts /\ d.inner \in BOOLEAN
          /\ q = [num |-> d.num, fs |-> t.fs, size |-> d.size, mount |-> d.mount,
                  was |-> 0, inner |-> d.inner]
      BY <2>2, <2>4, <2>5
    <3> DEFINE n == d.num
               f == t.fs
               s == d.size
               m == d.mount
               a == d.inner
    <3>2. /\ n \in Nat /\ n # 0 /\ s \in Nat /\ m \in Texts /\ f \in Texts /\ f # "" /\ a \in BOOLEAN
          /\ q = [num |-> n, fs |-> f, size |-> s, mount |-> m, was |-> 0, inner |-> a]
      BY <2>3, <3>1
    <3> HIDE DEF d, q, n, f, s, m, a
    <3>4. q \in [num : Nat, fs : Texts, size : Nat, mount : Texts, was : Nat, inner : BOOLEAN]
      BY <3>2
    <3>5. q.num # 0 /\ q.fs # ""
      BY <3>2
    <3>3. q \in Regions
      BY <3>4, <3>5 DEF Regions, IsFree
    <3> QED
      BY <3>3 DEF d, q
<1>5. \A i \in DOMAIN disk : disk'[i] \in Regions
  BY <1>2, <1>3, <1>4
<1>6. disk' \in Seq(Regions)
  <2>1. Len(disk) \in Nat /\ DOMAIN disk = 1 .. Len(disk)
    BY <1>3
  <2>2. disk' \in [1 .. Len(disk) -> Regions]
    BY <1>2, <1>5, <2>1
  <2> QED
    BY <2>1, <2>2
<1> QED
  BY <1>1, <1>2, <1>6 DEF RegionsInv

\* Every step leaves regions on the disk and in the table.
LEMMA RegionsStep ==
  DisksAre /\ ParametersAre /\ SizesInv /\ LostInv /\ PlanInv /\ RegionsInv /\ [Next]_vars => RegionsInv'
<1> SUFFICES ASSUME DisksAre, ParametersAre, SizesInv, LostInv, PlanInv, RegionsInv, [Next]_vars
             PROVE  RegionsInv'
  OBVIOUS
<1>1. CASE Planning
  BY <1>1, RegionsPlanned
<1>2. CASE ValidateInstallStorageData
  <2>1. /\ phase = "planning" /\ phase' = "partitioning" /\ table' = disk
        /\ UNCHANGED <<mode, plan, disk, done, keys, targets, made>>
    BY <1>2 DEF ValidateInstallStorageData, request
  <2>2. disk \in Disks /\ disk \in Seq(Regions) /\ made = {}
    BY <2>1 DEF RegionsInv
  <2>3. NumberedOnce(disk)
    BY <2>2 DEF DisksAre, NumberedOnce, Solid
  <2> QED
    BY <2>1, <2>2, <2>3 DEF RegionsInv
<1>3. CASE Create \/ Resize \/ RemovePartition \/ SetMountpoint \/ SetFilesystem
  BY <1>3, RegionsOperated
<1>4. CASE Commit
  BY <1>4, RegionsCommitted
<1>5. CASE Erase
  BY <1>5, RegionsErased
<1>6. CASE Format
  BY <1>6, RegionsFormatted
<1>7. CASE Formatted \/ Fail
  <2>1. /\ phase \in {"partitioning", "formatting"} /\ phase' \in {"done", "failed"}
        /\ UNCHANGED <<mode, plan, disk, table, done, keys, targets, made>>
    BY <1>7 DEF Formatted, Fail, request, work
  <2> QED
    BY <2>1 DEF RegionsInv
<1>8. CASE UNCHANGED vars
  <2>1. UNCHANGED <<mode, plan, phase, disk, table, done, keys, targets, made>>
    BY <1>8 DEF vars, request, work
  <2> QED
    BY <2>1 DEF RegionsInv
<1> QED
  BY <1>1, <1>2, <1>3, <1>4, <1>5, <1>6, <1>7, <1>8 DEF Next

\* Regions and a plan's place are what they are taken for.
LEMMA RegionsShow == SizesInv /\ RegionsInv => TypeOK
<1> SUFFICES ASSUME SizesInv, RegionsInv PROVE TypeOK
  OBVIOUS
<1>1. done \in Nat /\ plan \in Seq(Ops) /\ done <= Len(plan)
  BY DEF SizesInv, Shapes, RegionsInv
<1>2. done \in 0 .. Len(plan)
  BY <1>1
<1>3. \A i \in DOMAIN disk : disk[i].num # 0 <=> ~IsFree(disk[i])
  BY DEF RegionsInv, Regions
<1>4. \A i, j \in DOMAIN table : i # j /\ ~IsFree(table[i]) => table[i].num # table[j].num
  BY NumberedDiffer DEF RegionsInv
<1> QED
  BY <1>2, <1>3, <1>4 DEF TypeOK, RegionsInv

-----------------------------------------------------------------------------
(* The theorems *)

\* Whatever a plan creates, resizes and removes, the list that it is simulated on has
\* the size of the list shown, and the worker's table that of the disk
\* (installer_service, partition_step).
THEOREM DiskStaysFull == DisksAre /\ ParametersAre /\ Spec => []SizesAddUp
<1> SUFFICES ASSUME DisksAre, ParametersAre PROVE Spec => []SizesAddUp
  OBVIOUS
<1>1. SizesInv => SizesAddUp
  BY DEF SizesInv
<1>2. Init => SizesInv
  BY SizesInit
<1>3. SizesInv /\ [Next]_vars => SizesInv'
  BY SizesStep
<1> QED
  BY <1>1, <1>2, <1>3, PTL DEF Spec

\* Whatever becomes of a plan that does not erase the disk, its partitions stay, but
\* for those that an operation of the plan removes or makes a filesystem on, and
\* for logical ones behind one that it removes, when another of its operations
\* would lose a logical one too: those have other numbers by then (partition_step,
\* format_step).
THEOREM NamedOnlyLost == DisksAre /\ ParametersAre /\ Spec => []OnlyNamedLost
<1> SUFFICES ASSUME DisksAre, ParametersAre PROVE Spec => []OnlyNamedLost
  OBVIOUS
<1>1. Init => SizesInv /\ LostInv
  BY SizesInit, LostInit
<1>2. SizesInv /\ LostInv /\ [Next]_vars => SizesInv' /\ LostInv'
  BY SizesStep, LostStep
<1> QED
  BY <1>1, <1>2, LostShows, PTL DEF Spec

\* A plan that was performed without a failure leaves the boot and root partitions that
\* its validation found: where it found them, with their filesystems, and formatted
\* only if the plan makes them or their filesystems.  This is not so of the numbers
\* that logical partitions may have got when the plan removed one before them
\* (installer_service, partition_step, format_step).
THEOREM PlanExecuted == DisksAre /\ ParametersAre /\ Spec => []ExecutedAsPlanned
<1> SUFFICES ASSUME DisksAre, ParametersAre PROVE Spec => []ExecutedAsPlanned
  OBVIOUS
<1>1. Init => SizesInv /\ LostInv /\ PlanInv
  BY SizesInit, LostInit, PlanInit
<1>2. SizesInv /\ LostInv /\ PlanInv /\ [Next]_vars => SizesInv' /\ LostInv' /\ PlanInv'
  BY SizesStep, LostStep, PlanStep
<1> QED
  BY <1>1, <1>2, PlanShows, PTL DEF Spec

\* Whatever the plan does, and whatever of it fails, the disk consists of free regions
\* and of partitions, and no two partitions of the worker's table share a number, so that
\* its maps and the names of the plan mean one partition each (partition_step,
\* format_step).
THEOREM DiskTypeCorrect == DisksAre /\ ParametersAre /\ Spec => []TypeOK
<1> SUFFICES ASSUME DisksAre, ParametersAre PROVE Spec => []TypeOK
  OBVIOUS
<1>1. Init => SizesInv /\ LostInv /\ PlanInv /\ RegionsInv
  BY SizesInit, LostInit, PlanInit, RegionsInit
<1>2. SizesInv /\ LostInv /\ PlanInv /\ RegionsInv /\ [Next]_vars
        => SizesInv' /\ LostInv' /\ PlanInv' /\ RegionsInv'
  BY SizesStep, LostStep, PlanStep, RegionsStep
<1> QED
  BY <1>1, <1>2, RegionsShow, PTL DEF Spec
=============================================================================
