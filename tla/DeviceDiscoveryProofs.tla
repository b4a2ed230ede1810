----------------------- MODULE DeviceDiscoveryProofs -----------------------
(***************************************************************************)
(* Proofs about DeviceDiscovery, for any targets and credential profiles.  *)
(*                                                                         *)
(* The first part is about the transport policy, which is computed by      *)
(* recursion over the transports of a target: induction over the naturals  *)
(* is put in terms of sets, which the provers can instantiate.  The second *)
(* part is the invariant, action by action.                                *)
(***************************************************************************)
EXTENDS DeviceDiscovery, WellFoundedInduction, TLAPS

\* Induction: a set of naturals that has 0 and, with each member, the next one,
\* has them all.
LEMMA SetInduction ==
  ASSUME NEW S \in SUBSET Nat, 0 \in S, \A n \in S : n + 1 \in S
  PROVE  S = Nat
<1> SUFFICES ASSUME Nat \ S # {} PROVE FALSE
  OBVIOUS
<1> DEFINE R == OpToRel(<, Nat)
<1>1. IsWellFoundedOn(R, Nat)
  BY NatLessThanWellFounded
<1>2. \A i, j \in Nat : i < j => <<i, j>> \in R
  BY DEF OpToRel
<1> HIDE DEF R
<1>3. PICK x \in Nat \ S : \A y \in Nat \ S : ~(<<y, x>> \in R)
  BY <1>1, WFMin
<1>4. x # 0 /\ x - 1 \in Nat /\ x - 1 < x
  OBVIOUS
<1>5. x - 1 \in S
  BY <1>2, <1>3, <1>4
<1>6. (x - 1) + 1 \in S
  BY <1>5
<1> QED BY <1>4, <1>6

-----------------------------------------------------------------------------
(* Sequences put together piece by piece                                   *)

\* g is put together up to n, starting from nothing, from the pieces p.
Joins(g, p, n) == g[0] = <<>> /\ \A i \in 1 .. n : g[i] = g[i - 1] \o p[i]

\* There is such a sequence of sequences, whatever the pieces are.
LEMMA JoinExists ==
  ASSUME NEW T, NEW m \in Nat, NEW p \in [1 .. m -> Seq(T)]
  PROVE  \E g \in [0 .. m -> Seq(T)] : Joins(g, p, m)
<1> DEFINE Reached == {n \in Nat : n <= m => \E g \in [0 .. n -> Seq(T)] : Joins(g, p, n)}
<1>1. 0 \in Reached
  <2> DEFINE g == [i \in 0 .. 0 |-> <<>>]
  <2>1. g \in [0 .. 0 -> Seq(T)] /\ g[0] = <<>>
    OBVIOUS
  <2>2. Joins(g, p, 0)
    BY <2>1 DEF Joins
  <2> HIDE DEF g
  <2> QED BY <2>1, <2>2
<1>2. ASSUME NEW n \in Reached
      PROVE  n + 1 \in Reached
  <2>1. n \in Nat
    OBVIOUS
  <2>2. ASSUME n + 1 <= m
        PROVE  \E g \in [0 .. n + 1 -> Seq(T)] : Joins(g, p, n + 1)
    <3>1. PICK h \in [0 .. n -> Seq(T)] : Joins(h, p, n)
      BY <2>1, <2>2
    <3> DEFINE g == [i \in 0 .. n + 1 |-> IF i <= n THEN h[i] ELSE h[n] \o p[n + 1]]
    <3>2. p[n + 1] \in Seq(T) /\ h[n] \in Seq(T)
      BY <2>1, <2>2
    <3>3. h[n] \o p[n + 1] \in Seq(T)
      BY <3>2
    <3>4. g \in [0 .. n + 1 -> Seq(T)]
      BY <2>1, <3>3
    <3>5. \A i \in 0 .. n : g[i] = h[i]
      BY <2>1
    <3>6. g[n + 1] = h[n] \o p[n + 1]
      BY <2>1
    <3> HIDE DEF g
    <3>7. g[0] = <<>>
      BY <2>1, <3>1, <3>5 DEF Joins
    <3>8. ASSUME NEW i \in 1 .. n + 1
          PROVE  g[i] = g[i - 1] \o p[i]
      <4>1. CASE i <= n
        <5>1. i \in 1 .. n /\ i - 1 \in 0 .. n /\ i \in 0 .. n
          BY <2>1, <4>1
        <5>2. h[i] = h[i - 1] \o p[i]
          BY <3>1, <5>1 DEF Joins
        <5> QED BY <3>5, <5>1, <5>2
      <4>2. CASE i = n + 1
        <5>1. i - 1 = n /\ n \in 0 .. n
          BY <2>1, <4>2
        <5>2. g[n] = h[n]
          BY <3>5, <5>1
        <5> QED BY <3>6, <4>2, <5>1, <5>2
      <4>3. i <= n \/ i = n + 1
        BY <2>1
      <4> QED BY <4>1, <4>2, <4>3
    <3>9. Joins(g, p, n + 1)
      BY <3>7, <3>8 DEF Joins
    <3> QED BY <3>4, <3>9
  <2> QED BY <2>1, <2>2
<1>3. Reached = Nat
  <2>1. Reached \in SUBSET Nat
    OBVIOUS
  <2> HIDE DEF Reached
  <2> QED BY <1>1, <1>2, <2>1, SetInduction
<1>4. m \in Reached
  BY <1>3
<1> QED BY <1>4

\* A property that the empty sequence has and every piece keeps is one of the
\* last sequence: it is put as the set of the places where it holds.
LEMMA JoinInduction ==
  ASSUME NEW m \in Nat, NEW S \in SUBSET Nat, 0 \in S,
         \A n \in 0 .. m - 1 : n \in S => n + 1 \in S
  PROVE  m \in S
<1> DEFINE U == {n \in Nat : n <= m => n \in S}
<1>1. U \in SUBSET Nat /\ 0 \in U
  OBVIOUS
<1>2. \A n \in U : n + 1 \in U
  OBVIOUS
<1>3. U = Nat
  <2> HIDE DEF U
  <2> QED BY <1>1, <1>2, SetInduction
<1> QED BY <1>3

\* FlattenSeq joins the sequences it is given.
LEMMA FlattenJoins ==
  ASSUME NEW T, NEW m \in Nat, NEW p \in [1 .. m -> Seq(T)]
  PROVE  \E g \in [0 .. m -> Seq(T)] : Joins(g, p, m) /\ FlattenSeq(p) = g[m]
<1>1. p \in Seq(Seq(T)) /\ Len(p) = m
  OBVIOUS
<1>2. PICK h \in [0 .. m -> Seq(T)] : Joins(h, p, m)
  BY JoinExists
<1>3. CASE m = 0
  <2>1. FlattenSeq(p) = <<>>
    BY <1>1, <1>3 DEF FlattenSeq
  <2> QED BY <1>2, <1>3, <2>1 DEF Joins
<1>4. CASE m # 0
  <2> DEFINE F(g) == [i \in 1 .. Len(p) |-> IF i = 1 THEN p[i] ELSE g[i - 1] \o p[i]]
             G == CHOOSE g : g = F(g)
  <2>1. \E g : g = F(g)
    <3> DEFINE k == [i \in 1 .. m |-> h[i]]
               f(i) == IF i = 1 THEN p[i] ELSE k[i - 1] \o p[i]
    <3>1. h[1] = p[1]
      <4>1. 1 \in 1 .. m /\ 1 - 1 = 0
        BY <1>4
      <4>2. h[1] = <<>> \o p[1]
        BY <1>2, <4>1 DEF Joins
      <4>3. p[1] \in Seq(T)
        BY <4>1
      <4> QED BY <4>2, <4>3
    <3>2. ASSUME NEW i \in 1 .. m
          PROVE  k[i] = f(i)
      <4>1. CASE i = 1
        BY <3>1, <4>1
      <4>2. CASE i # 1
        <5>1. i - 1 \in 1 .. m
          BY <4>2
        <5>2. k[i] = h[i] /\ k[i - 1] = h[i - 1]
          BY <5>1
        <5> HIDE DEF k
        <5>3. h[i] = h[i - 1] \o p[i]
          BY <1>2 DEF Joins
        <5> QED BY <4>2, <5>2, <5>3
      <4> QED BY <4>1, <4>2
    <3>3. k = [i \in 1 .. m |-> f(i)]
      <4> HIDE DEF f
      <4> QED BY <3>2
    <3> HIDE DEF k
    <3>4. k = F(k)
      BY <1>1, <3>3
    <3> HIDE DEF F
    <3> QED BY <3>4
  <2>2. G = F(G)
    <3> HIDE DEF F
    <3> QED BY <2>1
  <2>3. FlattenSeq(p) = G[m]
    BY <1>1, <1>4 DEF FlattenSeq
  <2> HIDE DEF G
  <2> DEFINE g == [i \in 0 .. m |-> IF i = 0 THEN <<>> ELSE G[i]]
             S == {n \in 0 .. m : g[n] \in Seq(T)}
  <2>4. \A i \in 1 .. m : G[i] = IF i = 1 THEN p[i] ELSE G[i - 1] \o p[i]
    <3> DEFINE f == F(G)
    <3>1. \A i \in 1 .. m : f[i] = IF i = 1 THEN p[i] ELSE G[i - 1] \o p[i]
      BY <1>1
    <3>2. G = f
      BY <2>2
    <3> HIDE DEF f
    <3> QED BY <3>1, <3>2
  <2> HIDE DEF F
  <2>5. ASSUME NEW i \in 1 .. m
        PROVE  g[i] = g[i - 1] \o p[i]
    <3>1. i - 1 \in 0 .. m /\ i \in 0 .. m /\ p[i] \in Seq(T)
      OBVIOUS
    <3>2. CASE i = 1
      <4>1. g[i] = p[i] /\ g[i - 1] = <<>>
        BY <2>4, <3>1, <3>2
      <4> HIDE DEF g
      <4> QED BY <3>1, <4>1
    <3>3. CASE i # 1
      <4>1. g[i] = G[i] /\ g[i - 1] = G[i - 1]
        BY <3>1, <3>3
      <4> HIDE DEF g
      <4> QED BY <2>4, <3>3, <4>1
    <3> QED BY <3>2, <3>3
  <2>6. g[0] = <<>> /\ g[m] = G[m] /\ g = [i \in 0 .. m |-> g[i]]
    BY <1>4
  <2> HIDE DEF g
  <2>7. Joins(g, p, m)
    BY <2>5, <2>6 DEF Joins
  <2>8. 0 \in S
    <3>1. <<>> \in Seq(T) /\ 0 \in 0 .. m
      OBVIOUS
    <3> QED BY <2>6, <3>1
  <2>9. ASSUME NEW n \in 0 .. m - 1, n \in S
        PROVE  n + 1 \in S
    <3>1. n + 1 \in 1 .. m /\ (n + 1) - 1 = n
      OBVIOUS
    <3>2. g[n + 1] = g[n] \o p[n + 1]
      BY <2>5, <3>1
    <3>3. p[n + 1] \in Seq(T) /\ g[n] \in Seq(T)
      BY <2>9, <3>1
    <3>4. g[n] \o p[n + 1] \in Seq(T)
      BY <3>3
    <3>5. n + 1 \in 0 .. m
      BY <3>1
    <3> QED BY <3>2, <3>4, <3>5
  <2>10. ASSUME NEW j \in 0 .. m
         PROVE  j \in S
    <3>1. j \in Nat /\ S \in SUBSET Nat /\ 0 .. j - 1 \subseteq 0 .. m - 1
      OBVIOUS
    <3> HIDE DEF S
    <3> QED BY <2>8, <2>9, <3>1, JoinInduction
  <2>11. g \in [0 .. m -> Seq(T)]
    BY <2>6, <2>10
  <2> QED BY <2>3, <2>6, <2>7, <2>11
<1> QED BY <1>3, <1>4

-----------------------------------------------------------------------------
(* What Keep and Dedup compute                                             *)

\* The members of a concatenation; it repeats nothing when its parts do not and
\* have nothing in common.
LEMMA ConcatFacts ==
  ASSUME NEW T, NEW u \in Seq(T), NEW v \in Seq(T)
  PROVE  /\ u \o v \in Seq(T)
         /\ ToSet(u \o v) = ToSet(u) \cup ToSet(v)
         /\ IsInjective(u) /\ IsInjective(v) /\ ToSet(u) \cap ToSet(v) = {}
              => IsInjective(u \o v)
<1> DEFINE w == u \o v
<1>1. /\ w \in Seq(T) /\ Len(w) = Len(u) + Len(v)
      /\ DOMAIN w = 1 .. Len(w) /\ DOMAIN u = 1 .. Len(u) /\ DOMAIN v = 1 .. Len(v)
      /\ Len(u) \in Nat /\ Len(v) \in Nat
  OBVIOUS
<1>2. \A i \in 1 .. Len(u) : w[i] = u[i]
  OBVIOUS
<1>3. \A i \in 1 .. Len(v) : w[Len(u) + i] = v[i]
  OBVIOUS
<1>4. \A i \in DOMAIN w : i \in DOMAIN u \/ (i - Len(u) \in DOMAIN v /\ w[i] = v[i - Len(u)])
  <2> TAKE i \in DOMAIN w
  <2>1. CASE i <= Len(u)
    BY <1>1, <2>1
  <2>2. CASE i > Len(u)
    <3>1. i - Len(u) \in 1 .. Len(v) /\ i = Len(u) + (i - Len(u))
      BY <1>1, <2>2
    <3> HIDE DEF w
    <3> QED BY <1>1, <1>3, <3>1
  <2> QED BY <1>1, <2>1, <2>2
<1>5. \A i \in DOMAIN u : i \in DOMAIN w /\ w[i] = u[i]
  BY <1>1, <1>2
<1>6. \A i \in DOMAIN v : Len(u) + i \in DOMAIN w /\ w[Len(u) + i] = v[i]
  <2> HIDE DEF w
  <2> QED BY <1>1, <1>3
<1> HIDE DEF w
<1>7. ToSet(w) = ToSet(u) \cup ToSet(v)
  <2>1. \A i \in DOMAIN w : w[i] \in ToSet(u) \cup ToSet(v)
    BY <1>4, <1>5 DEF ToSet
  <2>2. \A i \in DOMAIN u : u[i] \in ToSet(w)
    BY <1>5 DEF ToSet
  <2>3. \A i \in DOMAIN v : v[i] \in ToSet(w)
    BY <1>6 DEF ToSet
  <2> QED BY <2>1, <2>2, <2>3 DEF ToSet
<1>8. ASSUME IsInjective(u), IsInjective(v), ToSet(u) \cap ToSet(v) = {},
             NEW a \in DOMAIN w, NEW b \in DOMAIN w, w[a] = w[b]
      PROVE  a = b
  <2>0. \A i \in DOMAIN u, j \in DOMAIN v : u[i] # v[j]
    BY <1>8 DEF ToSet
  <2>1. CASE a \in DOMAIN u /\ b \in DOMAIN u
    BY <1>5, <1>8, <2>1 DEF IsInjective
  <2>2. CASE a \in DOMAIN u /\ b \notin DOMAIN u
    BY <1>4, <1>5, <1>8, <2>0, <2>2
  <2>3. CASE a \notin DOMAIN u /\ b \in DOMAIN u
    BY <1>4, <1>5, <1>8, <2>0, <2>3
  <2>4. CASE a \notin DOMAIN u /\ b \notin DOMAIN u
    <3>1. a - Len(u) = b - Len(u)
      BY <1>4, <1>8, <2>4 DEF IsInjective
    <3>2. a \in Nat /\ b \in Nat
      BY <1>1
    <3> QED BY <1>1, <3>1, <3>2
  <2> QED BY <2>1, <2>2, <2>3, <2>4
<1>9. IsInjective(u) /\ IsInjective(v) /\ ToSet(u) \cap ToSet(v) = {} => IsInjective(w)
  BY <1>8 DEF IsInjective
<1> QED BY <1>1, <1>7, <1>9 DEF w

\* The sequences of one member and of none.
LEMMA ShortFacts ==
  /\ IsInjective(<<>>) /\ ToSet(<<>>) = {}
  /\ \A e : IsInjective(<<e>>) /\ ToSet(<<e>>) = {e}
<1>1. DOMAIN <<>> = {}
  OBVIOUS
<1>2. ASSUME NEW e
      PROVE  DOMAIN <<e>> = {1} /\ <<e>>[1] = e
  OBVIOUS
<1> QED BY <1>1, <1>2 DEF IsInjective, ToSet

\* The pieces of s at the places I.
Picked(s, I) == [i \in 1 .. Len(s) |-> IF i \in I THEN <<s[i]>> ELSE <<>>]

\* The members of s at the places I, in their order.
LEMMA PickFacts ==
  ASSUME NEW T, NEW s \in Seq(T), NEW I \in SUBSET (1 .. Len(s))
  PROVE  /\ FlattenSeq(Picked(s, I)) \in Seq(T)
         /\ ToSet(FlattenSeq(Picked(s, I))) = {s[i] : i \in I}
         /\ (\A i, j \in I : s[i] = s[j] => i = j) => IsInjective(FlattenSeq(Picked(s, I)))
<1> DEFINE m == Len(s)
           p == Picked(s, I)
<1>1. m \in Nat /\ p \in [1 .. m -> Seq(T)]
  BY DEF Picked
<1>2. PICK g \in [0 .. m -> Seq(T)] : Joins(g, p, m) /\ FlattenSeq(p) = g[m]
  BY <1>1, FlattenJoins
<1>3. \A i \in 1 .. m : s[i] \in T /\ p[i] = IF i \in I THEN <<s[i]>> ELSE <<>>
  BY DEF Picked
<1> HIDE DEF p
<1>4. ASSUME NEW n \in 0 .. m - 1
      PROVE  /\ n \in 0 .. m /\ n + 1 \in 0 .. m /\ n + 1 \in 1 .. m
             /\ g[n] \in Seq(T) /\ p[n + 1] \in Seq(T)
             /\ g[n + 1] = g[n] \o p[n + 1]
  <2>1. n + 1 \in 1 .. m /\ (n + 1) - 1 = n /\ n \in 0 .. m /\ n + 1 \in 0 .. m
    BY <1>1
  <2> QED BY <1>1, <1>2, <2>1 DEF Joins
<1>5. ASSUME NEW i \in 1 .. m
      PROVE  IsInjective(p[i]) /\ ToSet(p[i]) = IF i \in I THEN {s[i]} ELSE {}
  BY <1>3, ShortFacts
<1> DEFINE J(n) == {i \in I : i <= n}
           A == {n \in 0 .. m : ToSet(g[n]) = {s[i] : i \in J(n)}}
           B == {n \in 0 .. m : IsInjective(g[n])}
<1>6. 0 \in A /\ 0 \in B
  <2>1. g[0] = <<>> /\ 0 \in 0 .. m
    BY <1>1, <1>2 DEF Joins
  <2>2. DOMAIN g[0] = {}
    BY <2>1
  <2>3. J(0) = {}
    OBVIOUS
  <2> QED BY <2>1, <2>2, <2>3 DEF ToSet, IsInjective
<1>7. ASSUME NEW n \in 0 .. m - 1, n \in A
      PROVE  n + 1 \in A
  <2>1. ToSet(g[n + 1]) = ToSet(g[n]) \cup ToSet(p[n + 1])
    <3> DEFINE u == g[n]
               v == p[n + 1]
    <3>1. u \in Seq(T) /\ v \in Seq(T) /\ g[n + 1] = u \o v
      BY <1>4
    <3> HIDE DEF u, v
    <3>2. ToSet(u \o v) = ToSet(u) \cup ToSet(v)
      BY <3>1, ConcatFacts
    <3> QED BY <3>1, <3>2 DEF u, v
  <2>2. J(n + 1) = J(n) \cup (I \cap {n + 1})
    <3>1. \A i \in I : i \in Nat
      OBVIOUS
    <3>2. \A i \in I : i <= n + 1 <=> i <= n \/ i = n + 1
      BY <1>1, <3>1
    <3> QED BY <3>2
  <2> HIDE DEF J
  <2>3. ToSet(g[n]) = {s[i] : i \in J(n)}
    BY <1>7
  <2>4. ToSet(p[n + 1]) = IF n + 1 \in I THEN {s[n + 1]} ELSE {}
    BY <1>4, <1>5
  <2>5. ToSet(g[n + 1]) = {s[i] : i \in J(n + 1)}
    <3>1. CASE n + 1 \in I
      BY <2>1, <2>2, <2>3, <2>4, <3>1
    <3>2. CASE n + 1 \notin I
      BY <2>1, <2>2, <2>3, <2>4, <3>2
    <3> QED BY <3>1, <3>2
  <2> QED BY <1>4, <2>5
<1>8. ASSUME NEW k \in 0 .. m
      PROVE  k \in A
  <2>1. k \in Nat /\ A \in SUBSET Nat /\ 0 .. k - 1 \subseteq 0 .. m - 1
    BY <1>1
  <2> HIDE DEF A
  <2> QED BY <1>6, <1>7, <2>1, JoinInduction
<1>9. ASSUME \A i, j \in I : s[i] = s[j] => i = j
      PROVE  m \in B
  <2>1. ASSUME NEW n \in 0 .. m - 1, n \in B
        PROVE  n + 1 \in B
    <3>1. ToSet(g[n]) = {s[i] : i \in J(n)}
      BY <1>4, <1>8
    <3>2. ToSet(p[n + 1]) = IF n + 1 \in I THEN {s[n + 1]} ELSE {}
      BY <1>4, <1>5
    <3>3. ToSet(g[n]) \cap ToSet(p[n + 1]) = {}
      <4>1. \A i \in J(n) : i \in I /\ i # n + 1
        OBVIOUS
      <4> HIDE DEF J
      <4>2. CASE n + 1 \in I
        <5>1. \A i \in J(n) : s[i] # s[n + 1]
          BY <1>9, <4>1, <4>2
        <5> QED BY <3>1, <3>2, <4>2, <5>1
      <4>3. CASE n + 1 \notin I
        BY <3>2, <4>3
      <4> QED BY <4>2, <4>3
    <3>4. IsInjective(g[n]) /\ IsInjective(p[n + 1])
      BY <1>4, <1>5, <2>1
    <3>5. IsInjective(g[n + 1])
      <4> DEFINE u == g[n]
                 v == p[n + 1]
      <4>1. u \in Seq(T) /\ v \in Seq(T) /\ g[n + 1] = u \o v
        BY <1>4
      <4>2. IsInjective(u) /\ IsInjective(v) /\ ToSet(u) \cap ToSet(v) = {}
        BY <3>3, <3>4
      <4> HIDE DEF u, v
      <4>3. IsInjective(u \o v)
        BY <4>1, <4>2, ConcatFacts
      <4> QED BY <4>1, <4>3
    <3> QED BY <1>4, <3>5
  <2>2. B \in SUBSET Nat
    BY <1>1
  <2> HIDE DEF B
  <2> QED BY <1>1, <1>6, <2>1, <2>2, JoinInduction
<1>10. m \in 0 .. m /\ J(m) = I
  <2>1. m \in 0 .. m /\ \A i \in I : i <= m
    BY <1>1
  <2> QED BY <2>1
<1>11. ToSet(g[m]) = {s[i] : i \in I}
  BY <1>8, <1>10
<1>12. g[m] \in Seq(T)
  BY <1>10
<1>13. (\A i, j \in I : s[i] = s[j] => i = j) => IsInjective(g[m])
  BY <1>9
<1> QED BY <1>2, <1>11, <1>12, <1>13 DEF p

\* Keep(s, S) has the members of s that are in S, and no repetition that s has
\* not.
LEMMA KeepFacts ==
  ASSUME NEW T, NEW s \in Seq(T), NEW S
  PROVE  /\ Keep(s, S) \in Seq(T)
         /\ ToSet(Keep(s, S)) = ToSet(s) \cap S
         /\ IsInjective(s) => IsInjective(Keep(s, S))
<1> DEFINE I == {i \in 1 .. Len(s) : s[i] \in S}
           p == Picked(s, I)
<1>1. Keep(s, S) = FlattenSeq(p)
  <2>1. p = [i \in 1 .. Len(s) |-> IF s[i] \in S THEN <<s[i]>> ELSE <<>>]
    BY DEF Picked
  <2> HIDE DEF p
  <2> QED BY <2>1 DEF Keep
<1>2. DOMAIN s = 1 .. Len(s) /\ I \in SUBSET (1 .. Len(s))
  OBVIOUS
<1>3. ToSet(s) \cap S = {s[i] : i \in I}
  BY <1>2 DEF ToSet
<1>4. IsInjective(s) => \A i, j \in I : s[i] = s[j] => i = j
  BY <1>2 DEF IsInjective
<1> HIDE DEF I
<1>5. /\ FlattenSeq(p) \in Seq(T) /\ ToSet(FlattenSeq(p)) = {s[i] : i \in I}
      /\ (\A i, j \in I : s[i] = s[j] => i = j) => IsInjective(FlattenSeq(p))
  BY <1>2, PickFacts
<1> HIDE DEF p
<1> QED BY <1>1, <1>3, <1>4, <1>5

\* Dedup(s) has the members of s and repeats none.
LEMMA DedupFacts ==
  ASSUME NEW T, NEW s \in Seq(T)
  PROVE  /\ Dedup(s) \in Seq(T)
         /\ ToSet(Dedup(s)) = ToSet(s)
         /\ IsInjective(Dedup(s))
<1> DEFINE m == Len(s)
           I == {i \in 1 .. m : ~ \E j \in 1 .. i - 1 : s[j] = s[i]}
           p == Picked(s, I)
<1>1. Dedup(s) = FlattenSeq(p)
  <2>1. p = [i \in 1 .. m |-> IF \E j \in 1 .. i - 1 : s[j] = s[i] THEN <<>> ELSE <<s[i]>>]
    BY DEF Picked
  <2> HIDE DEF p
  <2> QED BY <2>1 DEF Dedup
<1>2. m \in Nat /\ DOMAIN s = 1 .. m /\ I \in SUBSET (1 .. m)
  OBVIOUS
<1>3. ToSet(s) = {s[i] : i \in I}
  <2> DEFINE A == {n \in 0 .. m : \A i \in 1 .. n : \E j \in I : s[j] = s[i]}
  <2>1. 0 \in A
    BY <1>2
  <2>2. ASSUME NEW n \in 0 .. m - 1, n \in A
        PROVE  n + 1 \in A
    <3>1. \A i \in 1 .. n + 1 : i \in 1 .. n \/ i = n + 1
      OBVIOUS
    <3>2. n + 1 \in 1 .. m /\ n + 1 \in 0 .. m /\ 1 .. (n + 1) - 1 = 1 .. n
      BY <1>2
    <3>3. \E j \in I : s[j] = s[n + 1]
      <4>1. CASE \E j \in 1 .. n : s[j] = s[n + 1]
        BY <2>2, <4>1
      <4>2. CASE ~ \E j \in 1 .. n : s[j] = s[n + 1]
        <5>1. n + 1 \in I
          BY <3>2, <4>2
        <5> QED BY <5>1
      <4> QED BY <4>1, <4>2
    <3>4. \A i \in 1 .. n : \E j \in I : s[j] = s[i]
      BY <2>2
    <3> QED BY <3>1, <3>2, <3>3, <3>4
  <2>3. A \in SUBSET Nat
    BY <1>2
  <2>4. m \in A
    <3> HIDE DEF A
    <3> QED BY <1>2, <2>1, <2>2, <2>3, JoinInduction
  <2>5. \A i \in 1 .. m : \E j \in I : s[j] = s[i]
    BY <2>4
  <2> HIDE DEF I
  <2> QED BY <1>2, <2>5 DEF ToSet
<1>4. \A i, j \in I : s[i] = s[j] => i = j
  <2> TAKE i \in I, j \in I
  <2>1. i \in 1 .. m /\ j \in 1 .. m
    OBVIOUS
  <2>2. i < j => i \in 1 .. j - 1
    BY <1>2, <2>1
  <2>3. j < i => j \in 1 .. i - 1
    BY <1>2, <2>1
  <2>4. i < j \/ j < i \/ i = j
    BY <1>2, <2>1
  <2> QED BY <2>2, <2>3, <2>4
<1> HIDE DEF I
<1>5. /\ FlattenSeq(p) \in Seq(T) /\ ToSet(FlattenSeq(p)) = {s[i] : i \in I}
      /\ (\A i, j \in I : s[i] = s[j] => i = j) => IsInjective(FlattenSeq(p))
  BY <1>2, PickFacts
<1> HIDE DEF p
<1> QED BY <1>1, <1>3, <1>4, <1>5

-----------------------------------------------------------------------------
(* The transport policy                                                    *)

\* What is asked for by profile or target; SSH needs nobody to ask.
Asked(t) ==
    {x \in Transports :
        x # "ssh" => x \in ToSet(IF t.profile = NULL THEN t.fallback ELSE t.profile.types)}

LEMMA OwnTransportsFacts ==
  ASSUME NEW t \in Target
  PROVE  /\ OwnTransports(t) \in Seq(Transports)
         /\ ToSet(OwnTransports(t)) \subseteq Permitted(t) \cap Asked(t)
<1>1. "ssh" \in Transports /\ "ssh" \in Permitted(t) /\ "ssh" \in Asked(t)
  BY DEF Transports, Permitted, Asked
<1>2. <<"ssh">> \in Seq(Transports) /\ ToSet(<<"ssh">>) = {"ssh"}
  BY <1>1, ShortFacts
<1>3. CASE t.profile = NULL \/ FromCredentialProfile(t) = <<>>
  BY <1>1, <1>2, <1>3 DEF OwnTransports
<1>4. CASE t.profile # NULL /\ FromCredentialProfile(t) # <<>>
  <2> DEFINE own   == t.profile.types
             types == IF own = <<>> THEN <<"ssh">> ELSE own
             kept  == Keep(types, Permitted(t))
  <2>1. own \in Seq(Transports)
    BY <1>4, ProfilesAssumption DEF Target, Profile
  <2>2. types \in Seq(Transports) /\ ToSet(types) \subseteq ToSet(own) \cup {"ssh"}
    BY <1>2, <2>1
  <2>3. FromCredentialProfile(t) = Dedup(kept)
    BY DEF FromCredentialProfile
  <2> HIDE DEF types
  <2>4. kept \in Seq(Transports) /\ ToSet(kept) = ToSet(types) \cap Permitted(t)
    BY <2>2, KeepFacts
  <2> HIDE DEF kept
  <2>5. Dedup(kept) \in Seq(Transports) /\ ToSet(Dedup(kept)) = ToSet(kept)
    BY <2>4, DedupFacts
  <2>6. ToSet(kept) \subseteq Permitted(t) \cap Asked(t)
    <3>1. \A x \in ToSet(kept) : x \in Permitted(t) /\ (x \in ToSet(own) \/ x = "ssh")
      BY <2>2, <2>4
    <3>2. Permitted(t) \subseteq Transports
      BY DEF Permitted
    <3>3. \A x \in ToSet(own) : x \in ToSet(IF t.profile = NULL THEN t.fallback ELSE t.profile.types)
      BY <1>4
    <3> HIDE DEF own
    <3> QED BY <3>1, <3>2, <3>3 DEF Asked
  <2> QED BY <1>4, <2>3, <2>5, <2>6 DEF OwnTransports
<1> QED BY <1>3, <1>4

\* What is tried is permitted and asked for, and nothing of it twice.
LEMMA PolicyFacts ==
  ASSUME NEW t \in Target
  PROVE  /\ ResolveTransportPolicy(t) \in Seq(Transports)
         /\ IsInjective(ResolveTransportPolicy(t))
         /\ ToSet(ResolveTransportPolicy(t)) \subseteq Permitted(t) \cap Asked(t)
<1> DEFINE own   == OwnTransports(t)
           extra == Keep(t.fallback, Supported(t) \cap Permitted(t))
           names == Dedup(own \o extra)
           rest  == Keep(names, Transports \ {t.preferred})
           first == IF t.preferred \in ToSet(names) THEN <<t.preferred>> \o rest ELSE names
           last  == IF t.telnet THEN Transports ELSE Transports \ Insecure
           OK    == Permitted(t) \cap Asked(t)
<1>1. own \in Seq(Transports) /\ ToSet(own) \subseteq OK
  BY OwnTransportsFacts
<1>2. extra \in Seq(Transports) /\ ToSet(extra) \subseteq OK
  <2>1. t.fallback \in Seq(Transports)
    BY DEF Target
  <2>2. extra \in Seq(Transports) /\ ToSet(extra) = ToSet(t.fallback) \cap (Supported(t) \cap Permitted(t))
    BY <2>1, KeepFacts
  <2>3. Permitted(t) \subseteq Transports
    BY DEF Permitted
  <2>4. ToSet(t.fallback) \cap (Supported(t) \cap Permitted(t)) \subseteq OK
    BY <2>3 DEF Supported, Asked
  <2> QED BY <2>2, <2>4
<1>3. ResolveTransportPolicy(t) = Keep(first, last)
  BY DEF ResolveTransportPolicy
<1> HIDE DEF own, extra, last
<1>4. own \o extra \in Seq(Transports) /\ ToSet(own \o extra) \subseteq OK
  <2>1. own \o extra \in Seq(Transports) /\ ToSet(own \o extra) = ToSet(own) \cup ToSet(extra)
    BY <1>1, <1>2, ConcatFacts
  <2> QED BY <1>1, <1>2, <2>1
<1>5. names \in Seq(Transports) /\ ToSet(names) \subseteq OK /\ IsInjective(names)
  BY <1>4, DedupFacts
<1> HIDE DEF names
<1>6. /\ rest \in Seq(Transports) /\ IsInjective(rest)
      /\ ToSet(rest) = ToSet(names) \cap (Transports \ {t.preferred})
  BY <1>5, KeepFacts
<1> HIDE DEF rest
<1>7. first \in Seq(Transports) /\ ToSet(first) \subseteq OK /\ IsInjective(first)
  <2>1. CASE t.preferred \in ToSet(names)
    <3> DEFINE one == <<t.preferred>>
    <3>1. t.preferred \in Transports
      BY <1>5, <2>1 DEF Permitted
    <3>2. one \in Seq(Transports) /\ IsInjective(one) /\ ToSet(one) = {t.preferred}
      BY <3>1, ShortFacts
    <3>3. ToSet(one) \cap ToSet(rest) = {}
      BY <1>6, <3>2
    <3> HIDE DEF one
    <3>4. /\ one \o rest \in Seq(Transports) /\ IsInjective(one \o rest)
          /\ ToSet(one \o rest) = ToSet(one) \cup ToSet(rest)
      BY <1>6, <3>2, <3>3, ConcatFacts
    <3>5. first = one \o rest
      BY <2>1 DEF one
    <3> QED BY <1>5, <1>6, <2>1, <3>2, <3>4, <3>5
  <2>2. CASE t.preferred \notin ToSet(names)
    BY <1>5, <2>2
  <2> QED BY <2>1, <2>2
<1> HIDE DEF first
<1>8. /\ Keep(first, last) \in Seq(Transports)
      /\ ToSet(Keep(first, last)) = ToSet(first) \cap last
      /\ IsInjective(Keep(first, last))
  BY <1>7, KeepFacts
<1> QED BY <1>3, <1>7, <1>8

\* The chain of transports is allowed and repeats none.
LEMMA ConfigFacts ==
  ASSUME NEW t \in Target
  PROVE  /\ BuildTransportConfigs(t) \in Seq(Transports)
         /\ IsInjective(BuildTransportConfigs(t))
         /\ ToSet(BuildTransportConfigs(t)) \subseteq Allowed(t)
         /\ UnsupportedCredentials(t) \in Seq(Transports)
<1> DEFINE r == ResolveTransportPolicy(t)
<1>1. r \in Seq(Transports) /\ IsInjective(r) /\ ToSet(r) \subseteq Permitted(t) \cap Asked(t)
  BY PolicyFacts
<1> HIDE DEF r
<1>2. \A S : /\ Keep(r, S) \in Seq(Transports) /\ IsInjective(Keep(r, S))
             /\ ToSet(Keep(r, S)) = ToSet(r) \cap S
  BY <1>1, KeepFacts
<1>3. ToSet(r) \cap CredentialCompatible(t) \subseteq Allowed(t)
  BY <1>1 DEF Allowed, Asked
<1> QED BY <1>2, <1>3 DEF r, BuildTransportConfigs, UnsupportedCredentials
-----------------------------------------------------------------------------
(* Facts about the rows and the classification                             *)

\* The inductive invariant.
IInv == Inv /\ SuccessIsComplete /\ VerdictIsExplained

LEMMA ResultTyped ==
  ASSUME NEW st \in {"running", "succeeded", "failed", "cancelled"},
         NEW r \in ResultState \cup {NULL}, NEW x \in Transports \cup {NULL}
  PROVE  /\ [st |-> st, result |-> r, transport |-> x] \in Result
         /\ [st |-> st, result |-> r, transport |-> x] # NULL
<1>1. [st |-> st, result |-> r, transport |-> x] \in Result
  BY DEF Result
<1> QED BY <1>1, NullAssumption

LEMMA ClassTyped ==
  /\ \A c : StateOfCode(c) \in ResultState
  /\ \A tr : FromFailureAndSuccess(tr) \in ResultState
<1>1. ASSUME NEW c PROVE StateOfCode(c) \in ResultState
  BY DEF StateOfCode, ResultState
<1>2. ASSUME NEW tr PROVE FromFailureAndSuccess(tr) \in ResultState
  BY DEF FromFailureAndSuccess, ResultState
<1> QED BY <1>1, <1>2

LEMMA SelectedTyped ==
  ASSUME TypeOK
  PROVE  Selected \in Transports \cup {NULL}
<1>1. Succeeded => tried[Len(tried)] \in Outcome
  BY DEF TypeOK, Succeeded
<1> QED BY <1>1 DEF TypeOK, Selected, Outcome, Target

\* One attempt more, in the list and in the table.
LEMMA ShowsAppend ==
  ASSUME NEW att \in Seq(Attempt), NEW tr \in Seq(Outcome), Shows(att, tr),
         NEW x, NEW ok \in BOOLEAN, NEW c
  PROVE  Shows(Append(att, [transport |-> x, order |-> Len(tr) + 1,
                            res |-> IF ok THEN "success" ELSE "failed"]),
               Append(tr, [transport |-> x, ok |-> ok, code |-> c]))
<1> DEFINE a == [transport |-> x, order |-> Len(tr) + 1,
                 res |-> IF ok THEN "success" ELSE "failed"]
           b == [transport |-> x, ok |-> ok, code |-> c]
           A == Append(att, a)
           B == Append(tr, b)
           n == Len(att) - Len(tr)
<1>1. /\ Len(att) \in Nat /\ Len(tr) \in Nat /\ n \in Nat
      /\ DOMAIN tr = 1 .. Len(tr)
  BY DEF Shows
<1>2. /\ Len(A) = Len(att) + 1 /\ \A i \in 1 .. Len(att) : A[i] = att[i]
      /\ A[Len(att) + 1] = a
  <2> HIDE DEF a
  <2> QED OBVIOUS
<1>3. /\ Len(B) = Len(tr) + 1 /\ DOMAIN B = 1 .. Len(tr) + 1
      /\ \A i \in 1 .. Len(tr) : B[i] = tr[i]
      /\ B[Len(tr) + 1] = b
  <2> HIDE DEF b
  <2> QED OBVIOUS
<1>4. b.transport = x /\ b.ok = ok
  OBVIOUS
<1> HIDE DEF A, B
<1>5. Len(A) - Len(B) = n
  BY <1>1, <1>2, <1>3
<1>6. \A i \in 1 .. n : A[i].order = 0 /\ A[i].res = "failed"
  <2>1. \A i \in 1 .. n : i \in 1 .. Len(att)
    BY <1>1
  <2> QED BY <1>2, <2>1 DEF Shows
<1>7. ASSUME NEW i \in DOMAIN B
      PROVE  A[n + i] = [transport |-> B[i].transport, order |-> i,
                         res |-> IF B[i].ok THEN "success" ELSE "failed"]
  <2>1. CASE i = Len(tr) + 1
    <3>1. n + i = Len(att) + 1
      BY <1>1, <2>1
    <3> QED BY <1>2, <1>3, <1>4, <2>1, <3>1
  <2>2. CASE i \in 1 .. Len(tr)
    <3>1. n + i \in 1 .. Len(att)
      BY <1>1, <2>2
    <3>2. B[i] = tr[i] /\ A[n + i] = att[n + i]
      BY <1>2, <1>3, <2>2, <3>1
    <3> QED BY <1>1, <2>2, <3>2 DEF Shows
  <2>3. i = Len(tr) + 1 \/ i \in 1 .. Len(tr)
    BY <1>1, <1>3
  <2> QED BY <2>1, <2>2, <2>3
<1>8. Shows(A, B)
  BY <1>1, <1>5, <1>6, <1>7 DEF Shows
<1> QED BY <1>8 DEF A, B

\* The table of a chain that ends with its only success selects it.
LEMMA ShowsSelects ==
  ASSUME NEW att \in Seq(Attempt), NEW tr \in Seq(Outcome), Shows(att, tr),
         tr # <<>>, tr[Len(tr)].ok, \A i \in DOMAIN tr : tr[i].ok => i = Len(tr)
  PROVE  Selects(att, tr[Len(tr)].transport)
<1> DEFINE n == Len(att) - Len(tr)
<1>1. /\ Len(att) \in Nat /\ Len(tr) \in Nat /\ n \in Nat /\ Len(tr) > 0
      /\ DOMAIN tr = 1 .. Len(tr) /\ DOMAIN att = 1 .. Len(att)
  BY DEF Shows
<1> SUFFICES ASSUME NEW i \in DOMAIN att
             PROVE  att[i].res = "success" <=>
                      i = Len(att) /\ att[i].transport = tr[Len(tr)].transport
  BY DEF Selects
<1>2. CASE i <= n
  <2>1. i \in 1 .. n /\ i # Len(att)
    BY <1>1, <1>2
  <2>2. att[i].res = "failed"
    BY <2>1 DEF Shows
  <2> QED BY <2>1, <2>2
<1>3. CASE i > n
  <2> DEFINE j == i - n
  <2>1. j \in DOMAIN tr /\ i = n + j /\ (i = Len(att) <=> j = Len(tr))
    BY <1>1, <1>3
  <2> HIDE DEF j
  <2>2. att[i] = [transport |-> tr[j].transport, order |-> j,
                  res |-> IF tr[j].ok THEN "success" ELSE "failed"]
    BY <2>1 DEF Shows
  <2>3. att[i].transport = tr[j].transport
        /\ att[i].res = IF tr[j].ok THEN "success" ELSE "failed"
    BY <2>2
  <2>4. att[i].res = "success" <=> tr[j].ok
    BY <2>3
  <2>5. tr[j].ok <=> j = Len(tr)
    BY <2>1
  <2> QED BY <2>1, <2>3, <2>4, <2>5
<1> QED BY <1>1, <1>2, <1>3

\* The way through a failure code and back keeps the verdict.
LEMMA VerdictKept ==
  ASSUME NEW tr \in Seq(Outcome)
  PROVE  Explains(tr, StateOfCode(FailureCode(tr, FromFailureAndSuccess(tr))))
<1> SUFFICES ASSUME \A i \in DOMAIN tr : ~ tr[i].ok /\ tr[i].code # "TRANSPORT_UNAVAILABLE"
             PROVE  LET r == StateOfCode(FailureCode(tr, FromFailureAndSuccess(tr)))
                    IN  /\ r = "unreachable" <=> \A i \in DOMAIN tr : ~ Reaches(tr[i])
                        /\ r = "authentication_failed" <=>
                              \E i \in DOMAIN tr : tr[i].code = "AUTHENTICATION_FAILED"
  BY DEF Explains
<1> DEFINE st == FromFailureAndSuccess(tr)
           auth == \E i \in DOMAIN tr : tr[i].code = "AUTHENTICATION_FAILED"
           reach == \E i \in DOMAIN tr : Reaches(tr[i])
<1>1. /\ auth => st = "authentication_failed"
      /\ ~ auth /\ reach => st = "reachable_no_management"
      /\ ~ auth /\ ~ reach => st = "unreachable"
  BY DEF FromFailureAndSuccess, ClassifyTransportFailure, Reaches
<1>2. auth => reach
  BY DEF Reaches, ClassifyTransportFailure
<1> HIDE DEF st, auth, reach
<1>3. st = "unreachable" => StateOfCode(FailureCode(tr, st)) = "unreachable"
  BY DEF FailureCode, StateOfCode
<1>4. st = "authentication_failed" => StateOfCode(FailureCode(tr, st)) = "authentication_failed"
  BY DEF FailureCode, StateOfCode
<1>5. st = "reachable_no_management" =>
        StateOfCode(FailureCode(tr, st)) = "reachable_no_management"
  BY DEF FailureCode, StateOfCode
<1>6. /\ reach <=> ~ \A i \in DOMAIN tr : ~ Reaches(tr[i])
      /\ auth <=> \E i \in DOMAIN tr : tr[i].code = "AUTHENTICATION_FAILED"
  BY DEF reach, auth
<1> QED BY <1>1, <1>2, <1>3, <1>4, <1>5, <1>6 DEF st

-----------------------------------------------------------------------------
(* Every step keeps the invariant                                          *)

LEMMA PatchTargetStep ==
  ASSUME IInv, PatchTarget
  PROVE  IInv'
<1> USE DEF PatchTarget, Local
<1>0. TypeOK
  BY DEF IInv, Inv
<1>1. TypeOK'
  <2>1. job' \in JobRow
    BY <1>0 DEF TypeOK, JobRow
  <2>2. view' \in Rows
    BY <1>0, NullAssumption DEF IInv, Inv, TypeOK, Rows, Result, Attempt, Collecting,
       Completing, Beginning
  <2>3. db' \in Rows
    BY <1>0, NullAssumption DEF IInv, Inv, TypeOK, Rows, Result, Attempt, Collecting,
       Completing, Beginning
  <2>4. pc' \in PCs /\ code' \in ExecutionCodes
    BY <1>0 DEF TypeOK, PCs, ExecutionCodes, ExecutionFailures, AttemptFailures
  <2> QED
    <3>1. target' \in Target
      BY <1>0, TargetsAssumption DEF TypeOK, Target
    <3>2. patches' \in 0 .. MaxPatches
      BY <1>0, BoundAssumption DEF TypeOK
    <3> QED BY <1>0, <2>1, <2>2, <2>3, <2>4, <3>1, <3>2 DEF TypeOK
<1>2. ChainIsAllowed'
  <2>1. tried' = <<>> /\ chain' = <<>>
    BY DEF IInv, Inv, Beginning
  <2> QED BY <2>1 DEF ChainIsAllowed, ChainedAreAllowed, IsInjective, ToSet
<1>3. AuditTrail'
  BY <1>0 DEF IInv, Inv, AuditTrail, Trying, TypeOK, Rows
<1>4. OutcomeIsReported' /\ DeletedStaysDeleted'
  BY <1>0, NullAssumption DEF IInv, Inv, OutcomeIsReported, DeletedStaysDeleted, Ending,
     Beginning, Trying, Collecting, Completing, TypeOK, Rows, JobRow, Result
<1>5. Beginning' /\ Ending'
  BY <1>0 DEF IInv, Inv, Beginning, Ending, Trying, Collecting, Completing, TypeOK, PCs,
     JobRow, Rows
<1>6. Collecting' /\ Completing'
  BY <1>0, NullAssumption DEF IInv, Inv, Beginning, Ending, Trying, Collecting, Completing,
     TypeOK, PCs, Selected, Succeeded, Rows, Result, JobRow
<1>7. Trying'
  BY <1>0, NullAssumption DEF IInv, Inv, Beginning, Ending, Trying, Collecting, Completing,
     TypeOK, PCs, Succeeded, Endable, Rows, Result, JobRow
<1>8. SuccessIsComplete'
  BY <1>0 DEF IInv, Inv, SuccessIsComplete, Ending, Completing, TypeOK, Rows, JobRow
<1>9. VerdictIsExplained'
  BY <1>0, NullAssumption DEF IInv, Inv, VerdictIsExplained, Ending, TypeOK, Rows, JobRow
<1>10. SingleIsPermitted' /\ (patches' = 0 => CreateTargetAccepts(target'))
  <2>1. patches' # 0
    BY <1>0, BoundAssumption DEF TypeOK
  <2> QED BY <2>1 DEF SingleIsPermitted
<1> QED
  BY <1>1, <1>2, <1>3, <1>4, <1>5, <1>6, <1>7, <1>8, <1>9, <1>10 DEF IInv, Inv

LEMMA StartStep ==
  ASSUME IInv, Start
  PROVE  IInv'
<1> USE DEF Start, Goto, Local, World
<1>0. TypeOK
  BY DEF IInv, Inv
<1>1. TypeOK'
  <2>1. job' \in JobRow
    BY <1>0 DEF TypeOK, JobRow
  <2>2. view' \in Rows
    BY <1>0, NullAssumption DEF IInv, Inv, TypeOK, Rows, Result, Attempt, Collecting,
       Completing, Beginning
  <2>3. db' \in Rows
    BY <1>0, NullAssumption DEF IInv, Inv, TypeOK, Rows, Result, Attempt, Collecting,
       Completing, Beginning
  <2>4. pc' \in PCs /\ code' \in ExecutionCodes
    BY <1>0 DEF TypeOK, PCs, ExecutionCodes, ExecutionFailures, AttemptFailures
  <2> QED
    BY <1>0, <2>1, <2>2, <2>3, <2>4 DEF TypeOK
<1>2. ChainIsAllowed'
  BY DEF IInv, Inv, ChainIsAllowed, ChainedAreAllowed
<1>3. AuditTrail'
  BY <1>0 DEF IInv, Inv, AuditTrail, Trying, TypeOK, Rows
<1>4. OutcomeIsReported' /\ DeletedStaysDeleted'
  BY <1>0, NullAssumption DEF IInv, Inv, OutcomeIsReported, DeletedStaysDeleted, Ending,
     Beginning, Trying, Collecting, Completing, TypeOK, Rows, JobRow, Result
<1>5. Beginning' /\ Ending'
  BY <1>0 DEF IInv, Inv, Beginning, Ending, Trying, Collecting, Completing, TypeOK, PCs,
     JobRow, Rows
<1>6. Collecting' /\ Completing'
  BY <1>0, NullAssumption DEF IInv, Inv, Beginning, Ending, Trying, Collecting, Completing,
     TypeOK, PCs, Selected, Succeeded, Rows, Result, JobRow
<1>7. Trying'
  BY <1>0, NullAssumption DEF IInv, Inv, Beginning, Ending, Trying, Collecting, Completing,
     TypeOK, PCs, Succeeded, Endable, Rows, Result, JobRow
<1>8. SuccessIsComplete'
  BY <1>0 DEF IInv, Inv, SuccessIsComplete, Ending, Completing, TypeOK, Rows, JobRow
<1>9. VerdictIsExplained'
  BY <1>0, NullAssumption DEF IInv, Inv, VerdictIsExplained, Ending, TypeOK, Rows, JobRow
<1>10. SingleIsPermitted' /\ (patches' = 0 => CreateTargetAccepts(target'))
  BY <1>0 DEF IInv, Inv, SingleIsPermitted, Trying, Beginning
<1> QED
  BY <1>1, <1>2, <1>3, <1>4, <1>5, <1>6, <1>7, <1>8, <1>9, <1>10 DEF IInv, Inv

LEMMA RequestCancellationStep ==
  ASSUME IInv, RequestCancellation
  PROVE  IInv'
<1> USE DEF RequestCancellation, Local, World
<1>0. TypeOK
  BY DEF IInv, Inv
<1>1. TypeOK'
  <2>1. job' \in JobRow
    BY <1>0 DEF TypeOK, JobRow
  <2>2. view' \in Rows
    BY <1>0, NullAssumption DEF IInv, Inv, TypeOK, Rows, Result, Attempt, Collecting,
       Completing, Beginning
  <2>3. db' \in Rows
    BY <1>0, NullAssumption DEF IInv, Inv, TypeOK, Rows, Result, Attempt, Collecting,
       Completing, Beginning
  <2>4. pc' \in PCs /\ code' \in ExecutionCodes
    BY <1>0 DEF TypeOK, PCs, ExecutionCodes, ExecutionFailures, AttemptFailures
  <2> QED
    BY <1>0, <2>1, <2>2, <2>3, <2>4 DEF TypeOK
<1>2. ChainIsAllowed'
  BY DEF IInv, Inv, ChainIsAllowed, ChainedAreAllowed
<1>3. AuditTrail'
  BY <1>0 DEF IInv, Inv, AuditTrail, Trying, TypeOK, Rows
<1>4. OutcomeIsReported' /\ DeletedStaysDeleted'
  BY <1>0, NullAssumption DEF IInv, Inv, OutcomeIsReported, DeletedStaysDeleted, Ending,
     Beginning, Trying, Collecting, Completing, TypeOK, Rows, JobRow, Result
<1>5. Beginning' /\ Ending'
  BY <1>0 DEF IInv, Inv, Beginning, Ending, Trying, Collecting, Completing, TypeOK, PCs,
     JobRow, Rows
<1>6. Collecting' /\ Completing'
  BY <1>0, NullAssumption DEF IInv, Inv, Beginning, Ending, Trying, Collecting, Completing,
     TypeOK, PCs, Selected, Succeeded, Rows, Result, JobRow
<1>7. Trying'
  BY <1>0, NullAssumption DEF IInv, Inv, Beginning, Ending, Trying, Collecting, Completing,
     TypeOK, PCs, Succeeded, Endable, Rows, Result, JobRow
<1>8. SuccessIsComplete'
  BY <1>0 DEF IInv, Inv, SuccessIsComplete, Ending, Completing, TypeOK, Rows, JobRow
<1>9. VerdictIsExplained'
  BY <1>0, NullAssumption DEF IInv, Inv, VerdictIsExplained, Ending, TypeOK, Rows, JobRow
<1>10. SingleIsPermitted' /\ (patches' = 0 => CreateTargetAccepts(target'))
  BY <1>0 DEF IInv, Inv, SingleIsPermitted, Trying, Beginning
<1> QED
  BY <1>1, <1>2, <1>3, <1>4, <1>5, <1>6, <1>7, <1>8, <1>9, <1>10 DEF IInv, Inv

LEMMA TakenAwayStep ==
  ASSUME IInv, TakenAway
  PROVE  IInv'
<1> USE DEF TakenAway, Reconcile, Local, World
<1>0. TypeOK
  BY DEF IInv, Inv
<1>1. TypeOK'
  <2>1. job' \in JobRow
    BY <1>0 DEF TypeOK, JobRow
  <2>2. view' \in Rows
    BY <1>0, NullAssumption DEF IInv, Inv, TypeOK, Rows, Result, Attempt, Collecting,
       Completing, Beginning
  <2>3. db' \in Rows
    BY <1>0, NullAssumption DEF IInv, Inv, TypeOK, Rows, Result, Attempt, Collecting,
       Completing, Beginning
  <2>4. pc' \in PCs /\ code' \in ExecutionCodes
    BY <1>0 DEF TypeOK, PCs, ExecutionCodes, ExecutionFailures, AttemptFailures
  <2> QED
    BY <1>0, <2>1, <2>2, <2>3, <2>4 DEF TypeOK
<1>2. ChainIsAllowed'
  BY DEF IInv, Inv, ChainIsAllowed, ChainedAreAllowed
<1>3. AuditTrail'
  BY <1>0 DEF IInv, Inv, AuditTrail, Trying, TypeOK, Rows
<1>4. OutcomeIsReported' /\ DeletedStaysDeleted'
  BY <1>0, NullAssumption DEF IInv, Inv, OutcomeIsReported, DeletedStaysDeleted, Ending,
     Beginning, Trying, Collecting, Completing, TypeOK, Rows, JobRow, Result
<1>5. Beginning' /\ Ending'
  BY <1>0 DEF IInv, Inv, Beginning, Ending, Trying, Collecting, Completing, TypeOK, PCs,
     JobRow, Rows
<1>6. Collecting' /\ Completing'
  BY <1>0, NullAssumption DEF IInv, Inv, Beginning, Ending, Trying, Collecting, Completing,
     TypeOK, PCs, Selected, Succeeded, Rows, Result, JobRow
<1>7. Trying'
  BY <1>0, NullAssumption DEF IInv, Inv, Beginning, Ending, Trying, Collecting, Completing,
     TypeOK, PCs, Succeeded, Endable, Rows, Result, JobRow
<1>8. SuccessIsComplete'
  BY <1>0 DEF IInv, Inv, SuccessIsComplete, Ending, Completing, TypeOK, Rows, JobRow
<1>9. VerdictIsExplained'
  BY <1>0, NullAssumption DEF IInv, Inv, VerdictIsExplained, Ending, TypeOK, Rows, JobRow
<1>10. SingleIsPermitted' /\ (patches' = 0 => CreateTargetAccepts(target'))
  BY <1>0 DEF IInv, Inv, SingleIsPermitted, Trying, Beginning
<1> QED
  BY <1>1, <1>2, <1>3, <1>4, <1>5, <1>6, <1>7, <1>8, <1>9, <1>10 DEF IInv, Inv

LEMMA HeartbeatLostStep ==
  ASSUME IInv, HeartbeatLost
  PROVE  IInv'
<1> USE DEF HeartbeatLost, Reconcile, World
<1>0. TypeOK
  BY DEF IInv, Inv
<1>1. TypeOK'
  <2>1. job' \in JobRow
    BY <1>0 DEF TypeOK, JobRow
  <2>2. view' \in Rows
    BY <1>0, NullAssumption DEF IInv, Inv, TypeOK, Rows, Result, Attempt, Collecting,
       Completing, Beginning
  <2>3. db' \in Rows
    BY <1>0, NullAssumption DEF IInv, Inv, TypeOK, Rows, Result, Attempt, Collecting,
       Completing, Beginning
  <2>4. pc' \in PCs /\ code' \in ExecutionCodes
    BY <1>0 DEF TypeOK, PCs, ExecutionCodes, ExecutionFailures, AttemptFailures
  <2> QED
    <3>1. faults' \in 0 .. MaxFaults
      BY <1>0, BoundAssumption DEF TypeOK
    <3> QED BY <1>0, <2>1, <2>2, <2>3, <2>4, <3>1 DEF TypeOK
<1>2. ChainIsAllowed'
  BY DEF IInv, Inv, ChainIsAllowed, ChainedAreAllowed
<1>3. AuditTrail'
  BY <1>0 DEF IInv, Inv, AuditTrail, Trying, TypeOK, Rows
<1>4. OutcomeIsReported' /\ DeletedStaysDeleted'
  BY <1>0, NullAssumption DEF IInv, Inv, OutcomeIsReported, DeletedStaysDeleted, Ending,
     Beginning, Trying, Collecting, Completing, TypeOK, Rows, JobRow, Result
<1>5. Beginning' /\ Ending'
  BY <1>0 DEF IInv, Inv, Beginning, Ending, Trying, Collecting, Completing, TypeOK, PCs,
     JobRow, Rows
<1>6. Collecting' /\ Completing'
  BY <1>0, NullAssumption DEF IInv, Inv, Beginning, Ending, Trying, Collecting, Completing,
     TypeOK, PCs, Selected, Succeeded, Rows, Result, JobRow
<1>7. Trying'
  BY <1>0, NullAssumption DEF IInv, Inv, Beginning, Ending, Trying, Collecting, Completing,
     TypeOK, PCs, Succeeded, Endable, Rows, Result, JobRow
<1>8. SuccessIsComplete'
  BY <1>0 DEF IInv, Inv, SuccessIsComplete, Ending, Completing, TypeOK, Rows, JobRow
<1>9. VerdictIsExplained'
  BY <1>0, NullAssumption DEF IInv, Inv, VerdictIsExplained, Ending, TypeOK, Rows, JobRow
<1>10. SingleIsPermitted' /\ (patches' = 0 => CreateTargetAccepts(target'))
  BY <1>0 DEF IInv, Inv, SingleIsPermitted, Trying, Beginning
<1> QED
  BY <1>1, <1>2, <1>3, <1>4, <1>5, <1>6, <1>7, <1>8, <1>9, <1>10 DEF IInv, Inv

LEMMA DeleteTargetStep ==
  ASSUME IInv, DeleteTarget
  PROVE  IInv'
<1> USE DEF DeleteTarget, Commit, Local, World, NoRows
<1>0. TypeOK
  BY DEF IInv, Inv
<1>1. TypeOK'
  <2>1. job' \in JobRow
    BY <1>0 DEF TypeOK, JobRow
  <2>2. view' \in Rows
    <3>1. NoRows \in Rows
      BY DEF Rows
    <3>2. db.run \in {"started", "succeeded", "failed"} /\ db.snapshot \in BOOLEAN
      BY <1>0 DEF TypeOK, Rows
    <3>3. [NoRows EXCEPT !.run = db.run, !.snapshot = db.snapshot] \in Rows
      BY <3>1, <3>2 DEF Rows
    <3> QED BY <3>3
  <2>3. db' \in Rows
    BY <2>2
  <2>4. pc' \in PCs /\ code' \in ExecutionCodes
    BY <1>0 DEF TypeOK, PCs, ExecutionCodes, ExecutionFailures, AttemptFailures
  <2> QED
    BY <1>0, <2>1, <2>2, <2>3, <2>4 DEF TypeOK
<1>2. ChainIsAllowed'
  BY DEF IInv, Inv, ChainIsAllowed, ChainedAreAllowed
<1>3. AuditTrail'
  BY <1>0 DEF IInv, Inv, AuditTrail, Trying, TypeOK, Rows
<1>4. OutcomeIsReported' /\ DeletedStaysDeleted'
  BY <1>0, NullAssumption DEF IInv, Inv, OutcomeIsReported, DeletedStaysDeleted, Ending,
     Beginning, Trying, Collecting, Completing, TypeOK, Rows, JobRow, Result
<1>5. Beginning' /\ Ending'
  BY <1>0 DEF IInv, Inv, Beginning, Ending, Trying, Collecting, Completing, TypeOK, PCs,
     JobRow, Rows
<1>6. Collecting' /\ Completing'
  BY <1>0, NullAssumption DEF IInv, Inv, Beginning, Ending, Trying, Collecting, Completing,
     TypeOK, PCs, Selected, Succeeded, Rows, Result, JobRow
<1>7. Trying'
  BY <1>0, NullAssumption DEF IInv, Inv, Beginning, Ending, Trying, Collecting, Completing,
     TypeOK, PCs, Succeeded, Endable, Rows, Result, JobRow
<1>8. SuccessIsComplete'
  BY <1>0 DEF IInv, Inv, SuccessIsComplete, Ending, Completing, TypeOK, Rows, JobRow
<1>9. VerdictIsExplained'
  BY <1>0, NullAssumption DEF IInv, Inv, VerdictIsExplained, Ending, TypeOK, Rows, JobRow
<1>10. SingleIsPermitted' /\ (patches' = 0 => CreateTargetAccepts(target'))
  BY <1>0 DEF IInv, Inv, SingleIsPermitted, Trying, Beginning
<1> QED
  BY <1>1, <1>2, <1>3, <1>4, <1>5, <1>6, <1>7, <1>8, <1>9, <1>10 DEF IInv, Inv

LEMMA BeginStep ==
  ASSUME IInv, Begin
  PROVE  IInv'
<1> USE DEF Begin, Goto, Checked, CancelSeen, World
<1>0. TypeOK
  BY DEF IInv, Inv
<1>1. TypeOK'
  <2>1. job' \in JobRow
    BY <1>0 DEF TypeOK, JobRow
  <2>2. view' \in Rows
    BY <1>0, NullAssumption DEF IInv, Inv, TypeOK, Rows, Result, Attempt, Collecting,
       Completing, Beginning
  <2>3. db' \in Rows
    BY <1>0, NullAssumption DEF IInv, Inv, TypeOK, Rows, Result, Attempt, Collecting,
       Completing, Beginning
  <2>4. pc' \in PCs /\ code' \in ExecutionCodes
    BY <1>0 DEF TypeOK, PCs, ExecutionCodes, ExecutionFailures, AttemptFailures
  <2> QED
    BY <1>0, <2>1, <2>2, <2>3, <2>4 DEF TypeOK
<1>2. ChainIsAllowed'
  BY DEF IInv, Inv, ChainIsAllowed, ChainedAreAllowed
<1>3. AuditTrail'
  BY <1>0 DEF IInv, Inv, AuditTrail, Trying, TypeOK, Rows
<1>4. OutcomeIsReported' /\ DeletedStaysDeleted'
  BY <1>0, NullAssumption DEF IInv, Inv, OutcomeIsReported, DeletedStaysDeleted, Ending,
     Beginning, Trying, Collecting, Completing, TypeOK, Rows, JobRow, Result
<1>5. Beginning' /\ Ending'
  BY <1>0 DEF IInv, Inv, Beginning, Ending, Trying, Collecting, Completing, TypeOK, PCs,
     JobRow, Rows
<1>6. Collecting' /\ Completing'
  BY <1>0, NullAssumption DEF IInv, Inv, Beginning, Ending, Trying, Collecting, Completing,
     TypeOK, PCs, Selected, Succeeded, Rows, Result, JobRow
<1>7. Trying'
  BY <1>0, NullAssumption DEF IInv, Inv, Beginning, Ending, Trying, Collecting, Completing,
     TypeOK, PCs, Succeeded, Endable, Rows, Result, JobRow
<1>8. SuccessIsComplete'
  BY <1>0 DEF IInv, Inv, SuccessIsComplete, Ending, Completing, TypeOK, Rows, JobRow
<1>9. VerdictIsExplained'
  BY <1>0, NullAssumption DEF IInv, Inv, VerdictIsExplained, Ending, TypeOK, Rows, JobRow
<1>10. SingleIsPermitted' /\ (patches' = 0 => CreateTargetAccepts(target'))
  BY <1>0 DEF IInv, Inv, SingleIsPermitted, Trying, Beginning
<1> QED
  BY <1>1, <1>2, <1>3, <1>4, <1>5, <1>6, <1>7, <1>8, <1>9, <1>10 DEF IInv, Inv

LEMMA PlanTransportsStep ==
  ASSUME IInv, PlanTransports
  PROVE  IInv'
<1> USE DEF PlanTransports, Commit, Rollback, Pending, Goto, World, NewResult, Planned
<1>0. TypeOK
  BY DEF IInv, Inv
<1> DEFINE u == UnsupportedCredentials(target)
           rows == Planned(target)
<1>a. /\ rows \in Rows /\ rows.dr # NULL /\ Shows(rows.att, <<>>)
      /\ rows.evidence = view.evidence
  <2> DEFINE added == [i \in DOMAIN u |-> [transport |-> u[i], order |-> 0, res |-> "failed"]]
  <2>1. u \in Seq(Transports)
    BY <1>0, ConfigFacts DEF TypeOK
  <2>2. added \in Seq(Attempt)
    <3>1. \A i \in DOMAIN u : u[i] \in Transports
      BY <2>1
    <3>2. \A i \in DOMAIN u : [transport |-> u[i], order |-> 0, res |-> "failed"] \in Attempt
      BY <3>1 DEF Attempt
    <3>3. DOMAIN u = 1 .. Len(u) /\ Len(u) \in Nat
      BY <2>1
    <3> HIDE DEF u
    <3> QED BY <3>2, <3>3
  <2>3. \A i \in DOMAIN added : added[i].order = 0 /\ added[i].res = "failed"
    OBVIOUS
  <2>4. view \in Rows /\ view.dr = NULL /\ view.att = <<>>
    BY <1>0 DEF IInv, Inv, TypeOK, Beginning
  <2>5. NewResult \in Result /\ NewResult # NULL
    BY ResultTyped
  <2>6. rows = [view EXCEPT !.dr = IF @ = NULL THEN NewResult ELSE @, !.att = @ \o added]
    OBVIOUS
  <2> HIDE DEF added, u, rows
  <2>7. view.att \o added = added
    BY <2>2, <2>4
  <2>8. rows.dr = NewResult /\ rows.att = added
    BY <2>4, <2>6, <2>7 DEF Rows
  <2>9. rows \in Rows /\ rows.evidence = view.evidence
    <3> HIDE DEF NewResult
    <3> QED BY <2>2, <2>4, <2>5, <2>6, <2>7 DEF Rows
  <2>10. Shows(added, <<>>)
    <3>1. Len(added) - Len(<<>>) = Len(added) /\ Len(added) \in Nat
          /\ DOMAIN <<>> = {} /\ DOMAIN added = 1 .. Len(added)
      BY <2>2
    <3> QED BY <2>3, <3>1 DEF Shows
  <2> QED BY <2>5, <2>8, <2>9, <2>10
<1> HIDE DEF u, rows, Planned
<1>b. rows = Planned(target)
  BY DEF rows
<1>1. TypeOK'
  <2>1. job' \in JobRow
    BY <1>0 DEF TypeOK, JobRow
  <2>2. view' \in Rows
    <3>1. db \in Rows /\ view \in Rows
      BY <1>0 DEF TypeOK
    <3> QED BY <1>a, <1>b, <3>1
  <2>3. db' \in Rows
    <3>1. db \in Rows /\ view \in Rows
      BY <1>0 DEF TypeOK
    <3> QED BY <1>a, <1>b, <3>1
  <2>4. pc' \in PCs /\ code' \in ExecutionCodes
    BY <1>0 DEF TypeOK, PCs, ExecutionCodes, ExecutionFailures, AttemptFailures
  <2> QED
    <3>1. chain' \in Seq(Transports)
      BY <1>0, ConfigFacts DEF TypeOK
    <3> QED BY <1>0, <2>1, <2>2, <2>3, <2>4, <3>1 DEF TypeOK
<1>2. ChainIsAllowed'
  <2>1. tried' = <<>> /\ target' = target
    BY DEF IInv, Inv, Beginning
  <2>2. IsInjective(chain') /\ ToSet(chain') \subseteq Allowed(target)
    BY <1>0, ConfigFacts DEF TypeOK
  <2> QED BY <2>1, <2>2 DEF ChainIsAllowed, ChainedAreAllowed, IsInjective, ToSet
<1>3. AuditTrail'
  BY DEF IInv, Inv, AuditTrail, Beginning
<1>4. OutcomeIsReported' /\ DeletedStaysDeleted'
  BY <1>0, <1>a, <1>b, NullAssumption DEF IInv, Inv, OutcomeIsReported, DeletedStaysDeleted, Ending,
     Beginning
<1>5. Beginning' /\ Ending'
  BY <1>a, <1>b DEF IInv, Inv, Beginning, Ending
<1>6. Collecting' /\ Completing'
  BY <1>a, <1>b DEF IInv, Inv, Beginning, Collecting, Completing
<1>7. Trying'
  <2>1. tried = <<>> /\ state = NULL /\ db.dr = NULL /\ multi
    BY DEF IInv, Inv, Beginning, Trying
  <2>2. Len(tried) = 0 /\ DOMAIN tried = {}
    BY <2>1
  <2>3. rows.run = view.run
    <3>1. view \in Rows
      BY <1>0 DEF TypeOK
    <3> QED BY <3>1 DEF rows, Planned, Rows
  <2>4. db'.run = "started" /\ view'.run = "started"
    BY <1>b, <2>3 DEF IInv, Inv, Trying
  <2> QED BY <1>a, <1>b, <2>1, <2>2, <2>4 DEF Trying
<1>8. SuccessIsComplete'
  BY <1>0 DEF IInv, Inv, SuccessIsComplete, Ending, Completing, TypeOK, Rows, JobRow
<1>9. VerdictIsExplained'
  BY <1>0, NullAssumption DEF IInv, Inv, VerdictIsExplained, Ending, TypeOK, Rows, JobRow
<1>10. SingleIsPermitted' /\ (patches' = 0 => CreateTargetAccepts(target'))
  BY <1>0 DEF IInv, Inv, SingleIsPermitted, Trying, Beginning
<1> QED
  BY <1>1, <1>2, <1>3, <1>4, <1>5, <1>6, <1>7, <1>8, <1>9, <1>10 DEF IInv, Inv

LEMMA TryTransportStep ==
  ASSUME IInv, TryTransport
  PROVE  IInv'
<1> USE DEF TryTransport, Pending, World
<1>0. TypeOK
  BY DEF IInv, Inv
<1>a. PICK ok \in BOOLEAN, c \in AttemptFailures :
         /\ tried' = Append(tried, [transport |-> Head(chain), ok |-> ok,
                                    code |-> IF ok THEN NULL ELSE c])
         /\ db' = db
         /\ view' = IF broken THEN view ELSE [view EXCEPT !.att = Append(@,
               [transport |-> Head(chain), order |-> Len(tried) + 1,
                res |-> IF ok THEN "success" ELSE "failed"])]
  OBVIOUS
<1> DEFINE o == [transport |-> Head(chain), ok |-> ok, code |-> IF ok THEN NULL ELSE c]
           a == [transport |-> Head(chain), order |-> Len(tried) + 1,
                 res |-> IF ok THEN "success" ELSE "failed"]
<1>b. o \in Outcome /\ a \in Attempt
  <2>1. Head(chain) \in Transports /\ Len(tried) + 1 \in Nat
    BY <1>0 DEF TypeOK
  <2> QED BY <2>1 DEF Outcome, Attempt
<1>1. TypeOK'
  <2>1. job' \in JobRow
    BY <1>0 DEF TypeOK, JobRow
  <2>2. view' \in Rows
    <3>1. [view EXCEPT !.att = Append(@, a)] \in Rows
      <4> HIDE DEF a
      <4>1. view \in Rows /\ view.att \in Seq(Attempt)
        BY <1>0 DEF TypeOK, Rows
      <4>2. Append(view.att, a) \in Seq(Attempt)
        BY <1>b, <4>1
      <4> QED BY <4>1, <4>2 DEF Rows
    <3> QED BY <1>0, <1>a, <3>1 DEF TypeOK
  <2>3. db' \in Rows
    BY <1>0, NullAssumption DEF IInv, Inv, TypeOK, Rows, Result, Attempt, Collecting,
       Completing, Beginning
  <2>4. pc' \in PCs /\ code' \in ExecutionCodes
    BY <1>0 DEF TypeOK, PCs, ExecutionCodes, ExecutionFailures, AttemptFailures
  <2> QED
    <3>1. tried' \in Seq(Outcome) /\ chain' \in Seq(Transports)
      BY <1>0, <1>a, <1>b DEF TypeOK
    <3> QED BY <1>0, <2>1, <2>2, <2>3, <2>4, <3>1 DEF TypeOK
<1>2. ChainIsAllowed'
  <2> DEFINE used == [i \in DOMAIN tried |-> tried[i].transport]
             used1 == [i \in DOMAIN tried' |-> tried'[i].transport]
  <2>1. /\ chain \in Seq(Transports) /\ chain # <<>> /\ chain' = Tail(chain)
        /\ tried \in Seq(Outcome) /\ tried' = Append(tried, o) /\ o.transport = Head(chain)
        /\ target' = target
    BY <1>0, <1>a DEF TypeOK
  <2>2. IsInjective(used) /\ ToSet(used) \subseteq Allowed(target)
    BY DEF IInv, Inv, ChainIsAllowed, ChainedAreAllowed
  <2>3. /\ IsInjective(chain) /\ ToSet(chain) \subseteq Allowed(target)
        /\ \A i \in DOMAIN tried : tried[i].transport \notin ToSet(chain)
    BY DEF IInv, Inv, ChainIsAllowed
  <2> HIDE DEF o, TryTransport
  <2>4. /\ Head(chain) = chain[1] /\ 1 \in DOMAIN chain
        /\ DOMAIN Tail(chain) = 1 .. Len(chain) - 1 /\ DOMAIN chain = 1 .. Len(chain)
        /\ \A i \in DOMAIN Tail(chain) : Tail(chain)[i] = chain[i + 1]
        /\ Len(chain) \in Nat
    BY <2>1
  <2>5. /\ DOMAIN tried' = 1 .. Len(tried) + 1 /\ DOMAIN tried = 1 .. Len(tried)
        /\ \A i \in DOMAIN tried : tried'[i] = tried[i]
        /\ tried'[Len(tried) + 1] = o /\ Len(tried) \in Nat
    BY <2>1
  <2>6. /\ \A i \in DOMAIN tried : tried'[i].transport = tried[i].transport
        /\ tried'[Len(tried) + 1].transport = chain[1]
        /\ \A i \in DOMAIN tried' : i \in DOMAIN tried \/ i = Len(tried) + 1
        /\ \A i \in DOMAIN tried : tried[i].transport # chain[1]
    BY <2>1, <2>3, <2>4, <2>5 DEF ToSet
  <2>7. \A i \in DOMAIN Tail(chain) : i + 1 \in DOMAIN chain /\ i + 1 # 1
    BY <2>4
  <2>8. IsInjective(used1)
    <3> SUFFICES ASSUME NEW i \in DOMAIN tried', NEW j \in DOMAIN tried',
                        tried'[i].transport = tried'[j].transport
                 PROVE  i = j
      BY DEF IsInjective
    <3> QED BY <2>2, <2>6 DEF IsInjective
  <2>9. ToSet(used1) \subseteq Allowed(target)
    <3>1. \A i \in DOMAIN tried : tried[i].transport \in Allowed(target)
      BY <2>2 DEF ToSet
    <3>2. chain[1] \in Allowed(target)
      BY <2>3, <2>4 DEF ToSet
    <3> QED BY <2>6, <3>1, <3>2 DEF ToSet
  <2>10. IsInjective(chain')
    <3> SUFFICES ASSUME NEW i \in DOMAIN Tail(chain), NEW j \in DOMAIN Tail(chain),
                        Tail(chain)[i] = Tail(chain)[j]
                 PROVE  i = j
      BY <2>1 DEF IsInjective
    <3>1. i + 1 = j + 1
      BY <2>3, <2>4, <2>7 DEF IsInjective
    <3> QED BY <2>4, <3>1
  <2>11. ToSet(chain') \subseteq ToSet(chain)
    BY <2>1, <2>4, <2>7 DEF ToSet
  <2>12. chain[1] \notin ToSet(chain')
    BY SMTT(30), <2>1, <2>3, <2>4, <2>7 DEF ToSet, IsInjective
  <2>13. \A i \in DOMAIN tried' : tried'[i].transport \notin ToSet(chain')
    BY <2>3, <2>6, <2>11, <2>12
  <2> QED BY <2>1, <2>3, <2>8, <2>9, <2>10, <2>11, <2>13
          DEF ChainIsAllowed, ChainedAreAllowed
<1>3. AuditTrail'
  BY DEF IInv, Inv, AuditTrail, Trying
<1>4. OutcomeIsReported' /\ DeletedStaysDeleted'
  BY DEF IInv, Inv, OutcomeIsReported, DeletedStaysDeleted
<1>5. Beginning' /\ Ending'
  <2>1. job.st = "gone" => broken
    BY DEF IInv, Inv, Trying
  <2> QED BY <1>a, <2>1 DEF IInv, Inv, Beginning, Ending
<1>6. Collecting' /\ Completing'
  BY DEF Collecting, Completing
<1>7. Trying'
  <2>1. /\ tried' = Append(tried, o) /\ tried \in Seq(Outcome) /\ view.att \in Seq(Attempt)
        /\ view \in Rows
    BY <1>0, <1>a DEF TypeOK, Rows
  <2>2. ~ broken => /\ job.st # "gone" /\ view'.dr # NULL /\ db.dr = NULL
                    /\ view'.att = Append(view.att, a) /\ Shows(view.att, tried)
    <3>1. ~ broken => view' = [view EXCEPT !.att = Append(@, a)]
      BY <1>a
    <3>2. ~ broken => view'.dr = view.dr /\ view'.att = Append(view.att, a)
      BY <2>1, <3>1 DEF Rows
    <3> QED BY <3>2 DEF IInv, Inv, Trying
  <2>3. ~ broken => Shows(view'.att, tried')
    BY <1>a, <2>1, <2>2, ShowsAppend
  <2>4. \A i \in DOMAIN tried' : tried'[i].ok => i = Len(tried')
    <3>1. \A i \in DOMAIN tried : ~ tried[i].ok
      BY DEF IInv, Inv, Trying, Succeeded
    <3> HIDE DEF o, TryTransport
    <3>2. /\ Len(tried') = Len(tried) + 1 /\ DOMAIN tried' = 1 .. Len(tried) + 1
          /\ \A i \in 1 .. Len(tried) : tried'[i] = tried[i]
          /\ DOMAIN tried = 1 .. Len(tried) /\ Len(tried) \in Nat
      BY <2>1
    <3>3. \A i \in DOMAIN tried' : i \in 1 .. Len(tried) \/ i = Len(tried) + 1
      BY <3>2
    <3> QED BY <3>1, <3>2, <3>3
  <2>5. multi /\ state = NULL
    BY DEF IInv, Inv, Trying
  <2>6. db'.run = "started" /\ view'.run = "started"
    <3>1. db.run = "started" /\ view.run = "started"
      BY DEF IInv, Inv, Trying
    <3>2. [view EXCEPT !.att = Append(@, a)].run = view.run
      BY <2>1 DEF Rows
    <3> QED BY <1>a, <3>1, <3>2
  <2> QED BY <2>2, <2>3, <2>4, <2>5, <2>6 DEF Trying
<1>8. SuccessIsComplete'
  BY DEF IInv, Inv, SuccessIsComplete, Ending
<1>9. VerdictIsExplained'
  BY DEF IInv, Inv, VerdictIsExplained, Ending
<1>10. SingleIsPermitted' /\ (patches' = 0 => CreateTargetAccepts(target'))
  BY <1>0 DEF IInv, Inv, SingleIsPermitted, Trying, Beginning
<1> QED
  BY <1>1, <1>2, <1>3, <1>4, <1>5, <1>6, <1>7, <1>8, <1>9, <1>10 DEF IInv, Inv

LEMMA RecordingFailsStep ==
  ASSUME IInv, RecordingFails
  PROVE  IInv'
<1> USE DEF RecordingFails, Rollback
<1>0. TypeOK
  BY DEF IInv, Inv
<1>1. TypeOK'
  <2>1. job' \in JobRow
    BY <1>0 DEF TypeOK, JobRow
  <2>2. view' \in Rows
    BY <1>0, NullAssumption DEF IInv, Inv, TypeOK, Rows, Result, Attempt, Collecting,
       Completing, Beginning
  <2>3. db' \in Rows
    BY <1>0, NullAssumption DEF IInv, Inv, TypeOK, Rows, Result, Attempt, Collecting,
       Completing, Beginning
  <2>4. pc' \in PCs /\ code' \in ExecutionCodes
    BY <1>0 DEF TypeOK, PCs, ExecutionCodes, ExecutionFailures, AttemptFailures
  <2> QED
    <3>1. faults' \in 0 .. MaxFaults
      BY <1>0, BoundAssumption DEF TypeOK
    <3> QED BY <1>0, <2>1, <2>2, <2>3, <2>4, <3>1 DEF TypeOK
<1>2. ChainIsAllowed'
  BY DEF IInv, Inv, ChainIsAllowed, ChainedAreAllowed
<1>3. AuditTrail'
  BY <1>0 DEF IInv, Inv, AuditTrail, Trying, TypeOK, Rows
<1>4. OutcomeIsReported' /\ DeletedStaysDeleted'
  BY <1>0, NullAssumption DEF IInv, Inv, OutcomeIsReported, DeletedStaysDeleted, Ending,
     Beginning, Trying, Collecting, Completing, TypeOK, Rows, JobRow, Result
<1>5. Beginning' /\ Ending'
  BY <1>0 DEF IInv, Inv, Beginning, Ending, Trying, Collecting, Completing, TypeOK, PCs,
     JobRow, Rows
<1>6. Collecting' /\ Completing'
  BY <1>0, NullAssumption DEF IInv, Inv, Beginning, Ending, Trying, Collecting, Completing,
     TypeOK, PCs, Selected, Succeeded, Rows, Result, JobRow
<1>7. Trying'
  BY <1>0, NullAssumption DEF IInv, Inv, Beginning, Ending, Trying, Collecting, Completing,
     TypeOK, PCs, Succeeded, Endable, Rows, Result, JobRow
<1>8. SuccessIsComplete'
  BY <1>0 DEF IInv, Inv, SuccessIsComplete, Ending, Completing, TypeOK, Rows, JobRow
<1>9. VerdictIsExplained'
  BY <1>0, NullAssumption DEF IInv, Inv, VerdictIsExplained, Ending, TypeOK, Rows, JobRow
<1>10. SingleIsPermitted' /\ (patches' = 0 => CreateTargetAccepts(target'))
  BY <1>0 DEF IInv, Inv, SingleIsPermitted, Trying, Beginning
<1> QED
  BY <1>1, <1>2, <1>3, <1>4, <1>5, <1>6, <1>7, <1>8, <1>9, <1>10 DEF IInv, Inv

LEMMA StoreAttemptsStep ==
  ASSUME IInv, StoreAttempts
  PROVE  IInv'
<1> USE DEF StoreAttempts, Commit, Rollback, Goto, World
<1>0. TypeOK
  BY DEF IInv, Inv
<1>1. TypeOK'
  <2>1. job' \in JobRow
    BY <1>0 DEF TypeOK, JobRow
  <2>2. view' \in Rows
    BY <1>0, NullAssumption DEF IInv, Inv, TypeOK, Rows, Result, Attempt, Collecting,
       Completing, Beginning
  <2>3. db' \in Rows
    BY <1>0, NullAssumption DEF IInv, Inv, TypeOK, Rows, Result, Attempt, Collecting,
       Completing, Beginning
  <2>4. pc' \in PCs /\ code' \in ExecutionCodes
    BY <1>0 DEF TypeOK, PCs, ExecutionCodes, ExecutionFailures, AttemptFailures
  <2> QED
    <3>1. state' \in ResultState \cup {NULL}
      BY <1>0, ClassTyped DEF TypeOK
    <3> QED BY <1>0, <2>1, <2>2, <2>3, <2>4, <3>1 DEF TypeOK
<1>2. ChainIsAllowed'
  BY DEF IInv, Inv, ChainIsAllowed, ChainedAreAllowed
<1>3. AuditTrail'
  BY <1>0 DEF IInv, Inv, AuditTrail, Trying, TypeOK, Rows
<1>4. OutcomeIsReported' /\ DeletedStaysDeleted'
  BY <1>0, NullAssumption DEF IInv, Inv, OutcomeIsReported, DeletedStaysDeleted, Ending,
     Beginning, Trying, Collecting, Completing, TypeOK, Rows, JobRow, Result
<1>5. Beginning' /\ Ending'
  BY <1>0 DEF IInv, Inv, Beginning, Ending, Trying, Collecting, Completing, TypeOK, PCs,
     JobRow, Rows
<1>6. Collecting' /\ Completing'
  BY <1>0, NullAssumption DEF IInv, Inv, Beginning, Ending, Trying, Collecting, Completing,
     TypeOK, PCs, Selected, Succeeded, Rows, Result, JobRow
<1>7. Trying'
  <2>1. multi /\ state = NULL /\ \A i \in DOMAIN tried : tried[i].ok => i = Len(tried)
    BY DEF IInv, Inv, Trying
  <2>5. db'.run = "started" /\ view'.run = "started"
    BY DEF IInv, Inv, Trying
  <2>2. FromFailureAndSuccess(tried) # NULL
    BY ClassTyped, NullAssumption
  <2>3. CASE broken
    BY <2>1, <2>3, <2>5 DEF Trying
  <2>4. CASE ~ broken
    BY <2>1, <2>2, <2>4, <2>5 DEF Trying, Succeeded
  <2> QED BY <2>3, <2>4
<1>8. SuccessIsComplete'
  BY <1>0 DEF IInv, Inv, SuccessIsComplete, Ending, Completing, TypeOK, Rows, JobRow
<1>9. VerdictIsExplained'
  BY <1>0, NullAssumption DEF IInv, Inv, VerdictIsExplained, Ending, TypeOK, Rows, JobRow
<1>10. SingleIsPermitted' /\ (patches' = 0 => CreateTargetAccepts(target'))
  BY <1>0 DEF IInv, Inv, SingleIsPermitted, Trying, Beginning
<1> QED
  BY <1>1, <1>2, <1>3, <1>4, <1>5, <1>6, <1>7, <1>8, <1>9, <1>10 DEF IInv, Inv

LEMMA FailMultiStep ==
  ASSUME IInv, FailMulti
  PROVE  IInv'
<1> USE DEF FailMulti, Commit, Rollback, Goto, Endable, EndJob, World
<1>0. TypeOK
  BY DEF IInv, Inv
<1> DEFINE d == [st |-> "failed", transport |-> Selected,
                 result |-> StateOfCode(FailureCode(tried, state))]
           rows == [db EXCEPT
                      !.run = IF state = "discovered" THEN "succeeded" ELSE "failed",
                      !.dr = d]
<1>a. d \in Result /\ d # NULL
  <2>1. d = [st |-> "failed", result |-> StateOfCode(FailureCode(tried, state)),
             transport |-> Selected]
    OBVIOUS
  <2> QED BY <1>0, <2>1, SelectedTyped, ClassTyped, ResultTyped
<1>b. rows \in Rows /\ rows.dr = d /\ rows.att = db.att
  <2> HIDE DEF d
  <2> QED BY <1>0, <1>a DEF TypeOK, Rows
<1>c. db' = IF Endable THEN rows ELSE db
  OBVIOUS
<1>1. TypeOK'
  <2>1. job' \in JobRow
    BY <1>0 DEF TypeOK, JobRow
  <2>2. view' \in Rows
    BY <1>0, <1>b DEF TypeOK
  <2>3. db' \in Rows
    BY <1>0, <1>b DEF TypeOK
  <2>4. pc' \in PCs /\ code' \in ExecutionCodes
    BY <1>0 DEF TypeOK, PCs, ExecutionCodes, ExecutionFailures, AttemptFailures
  <2> QED
    BY <1>0, <2>1, <2>2, <2>3, <2>4 DEF TypeOK
<1>2. ChainIsAllowed'
  BY DEF IInv, Inv, ChainIsAllowed, ChainedAreAllowed
<1>3. AuditTrail'
  <2> HIDE DEF rows
  <2>1. db'.att = db.att
    BY <1>b, <1>c
  <2> QED BY <2>1 DEF IInv, Inv, AuditTrail, Endable
<1>4. OutcomeIsReported' /\ DeletedStaysDeleted'
  <2>1. CASE Endable
    <3> HIDE DEF d, rows
    <3>1. db' = rows /\ job'.st = "failed" /\ rows.dr = d /\ d.st = "failed"
      BY <1>0, <1>a, <1>b, <1>c, <2>1 DEF TypeOK, JobRow, d
    <3> QED BY <1>a, <3>1 DEF OutcomeIsReported, DeletedStaysDeleted
  <2>2. CASE ~ Endable
    BY <2>2 DEF IInv, Inv, OutcomeIsReported, DeletedStaysDeleted
  <2> QED BY <2>1, <2>2
<1>5. Beginning' /\ Ending'
  BY <1>0 DEF IInv, Inv, Beginning, Ending, Trying, Collecting, Completing, TypeOK, PCs,
     JobRow, Rows
<1>6. Collecting' /\ Completing'
  BY <1>0, NullAssumption DEF IInv, Inv, Beginning, Ending, Trying, Collecting, Completing,
     TypeOK, PCs, Selected, Succeeded, Rows, Result, JobRow
<1>7. Trying'
  BY <1>0, NullAssumption DEF IInv, Inv, Beginning, Ending, Trying, Collecting, Completing,
     TypeOK, PCs, Succeeded, Endable, Rows, Result, JobRow
<1>8. SuccessIsComplete'
  BY <1>0 DEF IInv, Inv, SuccessIsComplete, Ending, Completing, TypeOK, Rows, JobRow
<1>9. VerdictIsExplained'
  <2>1. CASE Endable
    <3>1. state = FromFailureAndSuccess(tried)
      BY DEF IInv, Inv, Trying
    <3>2. d.result = StateOfCode(FailureCode(tried, FromFailureAndSuccess(tried)))
      BY <3>1
    <3>3. Explains(tried, d.result)
      BY <1>0, <3>2, VerdictKept DEF TypeOK
    <3> HIDE DEF d, rows
    <3>4. db'.dr = d /\ tried' = tried
      BY <1>b, <1>c, <2>1
    <3> QED BY <3>3, <3>4 DEF VerdictIsExplained
  <2>2. CASE ~ Endable
    BY <2>2 DEF IInv, Inv, VerdictIsExplained, Ending
  <2> QED BY <2>1, <2>2
<1>10. SingleIsPermitted' /\ (patches' = 0 => CreateTargetAccepts(target'))
  BY <1>0 DEF IInv, Inv, SingleIsPermitted, Trying, Beginning
<1> QED
  BY <1>1, <1>2, <1>3, <1>4, <1>5, <1>6, <1>7, <1>8, <1>9, <1>10 DEF IInv, Inv

LEMMA StartSingleStep ==
  ASSUME IInv, StartSingle
  PROVE  IInv'
<1> USE DEF StartSingle, Rollback, Pending, Goto, Checked, CancelSeen, World, NewResult
<1>0. TypeOK
  BY DEF IInv, Inv
<1> DEFINE one == [transport |-> target.preferred, order |-> 1, res |-> "running"]
           rows == [view EXCEPT !.dr = NewResult, !.att = <<one>>]
<1>a. rows \in Rows /\ rows.dr # NULL /\ Len(rows.att) = 1
  <2>1. one \in Attempt
    BY <1>0 DEF TypeOK, Target, Attempt
  <2>2. NewResult \in Result /\ NewResult # NULL
    BY ResultTyped
  <2> HIDE DEF one, NewResult
  <2>3. <<one>> \in Seq(Attempt) /\ Len(<<one>>) = 1
    BY <2>1
  <2> QED BY <1>0, <2>2, <2>3 DEF TypeOK, Rows
<1>b. db' = db /\ view' \in {view, db, rows} /\ (pc' = "collect" => view' = rows /\ job.st # "gone")
      /\ pc' \notin {"evidence", "process", "store", "end"}
  OBVIOUS
<1>1. TypeOK'
  <2>1. job' \in JobRow
    BY <1>0 DEF TypeOK, JobRow
  <2>2. view' \in Rows
    <3> HIDE DEF rows
    <3> QED BY <1>0, <1>a, <1>b DEF TypeOK
  <2>3. db' \in Rows
    BY <1>0, NullAssumption DEF IInv, Inv, TypeOK, Rows, Result, Attempt, Collecting,
       Completing, Beginning
  <2>4. pc' \in PCs /\ code' \in ExecutionCodes
    BY <1>0 DEF TypeOK, PCs, ExecutionCodes, ExecutionFailures, AttemptFailures
  <2> QED
    BY <1>0, <2>1, <2>2, <2>3, <2>4 DEF TypeOK
<1>2. ChainIsAllowed'
  BY DEF IInv, Inv, ChainIsAllowed, ChainedAreAllowed
<1>3. AuditTrail'
  BY <1>0 DEF IInv, Inv, AuditTrail, Trying, TypeOK, Rows
<1>4. OutcomeIsReported' /\ DeletedStaysDeleted'
  BY <1>0, NullAssumption DEF IInv, Inv, OutcomeIsReported, DeletedStaysDeleted, Ending,
     Beginning, Trying, Collecting, Completing, TypeOK, Rows, JobRow, Result
<1>5. Beginning' /\ Ending'
  BY <1>0 DEF IInv, Inv, Beginning, Ending, Trying, Collecting, Completing, TypeOK, PCs,
     JobRow, Rows
<1>6. Collecting' /\ Completing'
  <2> HIDE DEF rows
  <2>1. db.dr = NULL
    BY DEF IInv, Inv, Beginning
  <2> QED BY <1>a, <1>b, <2>1 DEF Collecting, Completing, Checked
<1>7. Trying'
  BY <1>0, NullAssumption DEF IInv, Inv, Beginning, Ending, Trying, Collecting, Completing,
     TypeOK, PCs, Succeeded, Endable, Rows, Result, JobRow
<1>8. SuccessIsComplete'
  BY <1>0 DEF IInv, Inv, SuccessIsComplete, Ending, Completing, TypeOK, Rows, JobRow
<1>9. VerdictIsExplained'
  BY <1>0, NullAssumption DEF IInv, Inv, VerdictIsExplained, Ending, TypeOK, Rows, JobRow
<1>10. SingleIsPermitted' /\ (patches' = 0 => CreateTargetAccepts(target'))
  <2>1. \A i \in DOMAIN rows.att : rows.att[i].transport = target.preferred
    BY <1>0 DEF TypeOK, Rows
  <2>2. patches = 0 => target.preferred \in Permitted(target) \cup {NULL}
    BY <1>0 DEF IInv, Inv, TypeOK, Target, CreateTargetAccepts, Permitted
  <2> HIDE DEF rows
  <2> QED BY <1>b, <2>1, <2>2 DEF IInv, Inv, SingleIsPermitted
<1> QED
  BY <1>1, <1>2, <1>3, <1>4, <1>5, <1>6, <1>7, <1>8, <1>9, <1>10 DEF IInv, Inv

LEMMA CollectStep ==
  ASSUME IInv, Collect
  PROVE  IInv'
<1> USE DEF Collect, Goto, Checked, CancelSeen, World
<1>0. TypeOK
  BY DEF IInv, Inv
<1> DEFINE rows == [view EXCEPT !.att[1].res = "success"]
<1>a. rows \in Rows /\ rows.dr = view.dr /\ view.dr # NULL
  <2>1. view \in Rows /\ view.att \in Seq(Attempt) /\ Len(view.att) = 1
    BY <1>0 DEF IInv, Inv, TypeOK, Collecting, Rows
  <2>2. [view.att EXCEPT ![1].res = "success"] \in Seq(Attempt)
    <3>1. view.att[1] \in Attempt
      BY <2>1
    <3>2. [view.att[1] EXCEPT !.res = "success"] \in Attempt
      BY <3>1 DEF Attempt
    <3> QED BY <2>1, <3>2
  <2>3. rows = [view EXCEPT !.att = [view.att EXCEPT ![1].res = "success"]]
    BY <2>1 DEF Rows
  <2>4. view.dr # NULL
    BY DEF IInv, Inv, Collecting
  <2> HIDE DEF rows
  <2> QED BY <2>1, <2>2, <2>3, <2>4 DEF Rows
<1>b. /\ db' = db /\ view' \in {view, rows} /\ (pc' = "collect" => view' = view)
      /\ pc' \notin {"process", "store", "end"} /\ (pc' = "evidence" => view' = rows)
  OBVIOUS
<1>1. TypeOK'
  <2>1. job' \in JobRow
    BY <1>0 DEF TypeOK, JobRow
  <2>2. view' \in Rows
    <3> HIDE DEF rows
    <3> QED BY <1>0, <1>a, <1>b DEF TypeOK
  <2>3. db' \in Rows
    BY <1>0, NullAssumption DEF IInv, Inv, TypeOK, Rows, Result, Attempt, Collecting,
       Completing, Beginning
  <2>4. pc' \in PCs /\ code' \in ExecutionCodes
    BY <1>0 DEF TypeOK, PCs, ExecutionCodes, ExecutionFailures, AttemptFailures
  <2> QED
    BY <1>0, <2>1, <2>2, <2>3, <2>4 DEF TypeOK
<1>2. ChainIsAllowed'
  BY DEF IInv, Inv, ChainIsAllowed, ChainedAreAllowed
<1>3. AuditTrail'
  BY <1>0 DEF IInv, Inv, AuditTrail, Trying, TypeOK, Rows
<1>4. OutcomeIsReported' /\ DeletedStaysDeleted'
  BY <1>0, NullAssumption DEF IInv, Inv, OutcomeIsReported, DeletedStaysDeleted, Ending,
     Beginning, Trying, Collecting, Completing, TypeOK, Rows, JobRow, Result
<1>5. Beginning' /\ Ending'
  BY <1>0 DEF IInv, Inv, Beginning, Ending, Trying, Collecting, Completing, TypeOK, PCs,
     JobRow, Rows
<1>6. Collecting' /\ Completing'
  <2> HIDE DEF rows
  <2> QED BY <1>a, <1>b DEF IInv, Inv, Collecting, Completing
<1>7. Trying'
  BY <1>0, NullAssumption DEF IInv, Inv, Beginning, Ending, Trying, Collecting, Completing,
     TypeOK, PCs, Succeeded, Endable, Rows, Result, JobRow
<1>8. SuccessIsComplete'
  BY <1>0 DEF IInv, Inv, SuccessIsComplete, Ending, Completing, TypeOK, Rows, JobRow
<1>9. VerdictIsExplained'
  BY <1>0, NullAssumption DEF IInv, Inv, VerdictIsExplained, Ending, TypeOK, Rows, JobRow
<1>10. SingleIsPermitted' /\ (patches' = 0 => CreateTargetAccepts(target'))
  <2>1. \A i \in DOMAIN rows.att :
          i \in DOMAIN view.att /\ rows.att[i].transport = view.att[i].transport
    <3>1. view \in Rows /\ view.att \in Seq(Attempt)
      BY <1>0 DEF TypeOK, Rows
    <3>2. rows.att = [view.att EXCEPT ![1].res = "success"]
      BY <3>1 DEF Rows
    <3>3. \A i \in DOMAIN view.att : view.att[i] \in Attempt
      BY <3>1
    <3> QED BY <3>1, <3>2, <3>3 DEF Attempt
  <2> HIDE DEF rows
  <2> QED BY <1>b, <2>1 DEF IInv, Inv, SingleIsPermitted
<1> QED
  BY <1>1, <1>2, <1>3, <1>4, <1>5, <1>6, <1>7, <1>8, <1>9, <1>10 DEF IInv, Inv

LEMMA StoreEvidenceStep ==
  ASSUME IInv, StoreEvidence
  PROVE  IInv'
<1> USE DEF StoreEvidence, Commit, Rollback, Pending, Goto, Checked, CancelSeen, Raise,
               World, Noted
<1>0. TypeOK
  BY DEF IInv, Inv
<1> DEFINE rows == [Noted EXCEPT !.evidence = TRUE]
<1>a. job.st # "gone" =>
        /\ Noted \in Rows /\ Noted.att = view.att
        /\ rows \in Rows /\ rows.att = view.att /\ rows.evidence
  <2> SUFFICES ASSUME job.st # "gone" PROVE Noted \in Rows /\ Noted.att = view.att
    <3> HIDE DEF Noted
    <3> QED BY DEF Rows
  <2> DEFINE d == [view.dr EXCEPT !.result = state, !.transport = Selected]
  <2>1. view \in Rows /\ view.dr \in Result
    BY <1>0 DEF IInv, Inv, Completing, TypeOK, Rows
  <2>2. d \in Result
    BY <1>0, <2>1, SelectedTyped DEF TypeOK, Result
  <2>3. Noted = IF multi THEN [view EXCEPT !.dr = d] ELSE view
    BY <2>1 DEF Rows, Result
  <2> HIDE DEF d, Noted
  <2> QED BY <2>1, <2>2, <2>3 DEF Rows
<1>b. /\ job' = job
      /\ \/ db' = db /\ view' = db /\ pc' \in {"fail", "except"}
         \/ /\ db' = db /\ view' = Noted /\ job.st # "gone"
            /\ pc' \in {"fail", "except", "leaseLost", "cancel"}
         \/ db' = rows /\ view' = rows /\ pc' = "process" /\ job.st # "gone"
  <2> HIDE DEF Noted
  <2> QED OBVIOUS
<1>1. TypeOK'
  <2>1. job' \in JobRow
    BY <1>0 DEF TypeOK, JobRow
  <2>2. view' \in Rows
    <3> HIDE DEF Noted
    <3> QED BY <1>0, <1>a, <1>b DEF TypeOK
  <2>3. db' \in Rows
    <3> HIDE DEF Noted
    <3> QED BY <1>0, <1>a, <1>b DEF TypeOK
  <2>4. pc' \in PCs /\ code' \in ExecutionCodes
    BY <1>0 DEF TypeOK, PCs, ExecutionCodes, ExecutionFailures, AttemptFailures
  <2> QED
    BY <1>0, <2>1, <2>2, <2>3, <2>4 DEF TypeOK
<1>2. ChainIsAllowed'
  BY DEF IInv, Inv, ChainIsAllowed, ChainedAreAllowed
<1>3. AuditTrail'
  <2> HIDE DEF Noted, rows
  <2>1. state' = state /\ tried' = tried /\ job' = job
    OBVIOUS
  <2>2. state # NULL => view.att = db.att
    BY DEF IInv, Inv, Trying
  <2>3. state # NULL /\ job.st # "gone" => db'.att = db.att
    BY <1>a, <1>b, <2>2
  <2> QED BY <2>1, <2>3 DEF IInv, Inv, AuditTrail
<1>4. OutcomeIsReported' /\ DeletedStaysDeleted'
  <2> HIDE DEF Noted
  <2> QED BY <1>0, <1>b DEF IInv, Inv, OutcomeIsReported, DeletedStaysDeleted, Ending
<1>5. Beginning' /\ Ending'
  <2> HIDE DEF Noted
  <2> QED BY <1>b DEF IInv, Inv, Beginning, Ending
<1>6. Collecting' /\ Completing'
  <2> HIDE DEF Noted
  <2> QED BY <1>a, <1>b DEF Collecting, Completing
<1>7. Trying'
  <2> HIDE DEF Noted
  <2>1. multi => state # NULL /\ Succeeded
    BY DEF IInv, Inv, Trying
  <2>2. (Succeeded <=> Succeeded') /\ multi' = multi /\ state' = state /\ tried' = tried
    BY DEF Succeeded
  <2>3. state # NULL => view'.att = db'.att
    BY <1>a, <1>b DEF IInv, Inv, Trying
  <2>4. pc' \notin {"plan", "try", "single", "collect"} /\ (pc' = "fail" => multi)
        /\ (pc' = "except" => ~ multi)
    OBVIOUS
  <2>5. db'.run = "started" /\ view'.run = "started"
    <3>1. db.run = "started" /\ view.run = "started"
      BY DEF IInv, Inv, Trying
    <3>2. job.st # "gone" => Noted.run = view.run /\ rows.run = view.run
      <4>1. view \in Rows
        BY <1>0 DEF TypeOK
      <4>2. Noted.run = view.run
        BY <4>1 DEF Noted, Rows
      <4>3. job.st # "gone" => rows.run = Noted.run
        BY <1>a DEF Rows
      <4> QED BY <4>2, <4>3
    <3> QED BY <1>b, <3>1, <3>2
  <2> HIDE DEF StoreEvidence
  <2> QED BY <2>1, <2>2, <2>3, <2>4, <2>5 DEF IInv, Inv, Trying
<1>8. SuccessIsComplete'
  <2> HIDE DEF Noted
  <2> QED BY DEF IInv, Inv, SuccessIsComplete, Ending
<1>9. VerdictIsExplained'
  <2> HIDE DEF Noted
  <2> QED BY DEF IInv, Inv, VerdictIsExplained, Ending
<1>10. SingleIsPermitted' /\ (patches' = 0 => CreateTargetAccepts(target'))
  <2> HIDE DEF Noted, rows
  <2>1. db'.att \in {db.att, view.att} /\ view'.att \in {db.att, view.att}
    BY <1>a, <1>b
  <2> QED BY <2>1 DEF IInv, Inv, SingleIsPermitted
<1> QED
  BY <1>1, <1>2, <1>3, <1>4, <1>5, <1>6, <1>7, <1>8, <1>9, <1>10 DEF IInv, Inv

LEMMA ProcessStep ==
  ASSUME IInv, Process
  PROVE  IInv'
<1> USE DEF Process, Goto, Checked, CancelSeen, Raise, World
<1>0. TypeOK
  BY DEF IInv, Inv
<1>1. TypeOK'
  <2>1. job' \in JobRow
    BY <1>0 DEF TypeOK, JobRow
  <2>2. view' \in Rows
    BY <1>0, NullAssumption DEF IInv, Inv, TypeOK, Rows, Result, Attempt, Collecting,
       Completing, Beginning
  <2>3. db' \in Rows
    BY <1>0, NullAssumption DEF IInv, Inv, TypeOK, Rows, Result, Attempt, Collecting,
       Completing, Beginning
  <2>4. pc' \in PCs /\ code' \in ExecutionCodes
    BY <1>0 DEF TypeOK, PCs, ExecutionCodes, ExecutionFailures, AttemptFailures
  <2> QED
    BY <1>0, <2>1, <2>2, <2>3, <2>4 DEF TypeOK
<1>2. ChainIsAllowed'
  BY DEF IInv, Inv, ChainIsAllowed, ChainedAreAllowed
<1>3. AuditTrail'
  BY <1>0 DEF IInv, Inv, AuditTrail, Trying, TypeOK, Rows
<1>4. OutcomeIsReported' /\ DeletedStaysDeleted'
  BY <1>0, NullAssumption DEF IInv, Inv, OutcomeIsReported, DeletedStaysDeleted, Ending,
     Beginning, Trying, Collecting, Completing, TypeOK, Rows, JobRow, Result
<1>5. Beginning' /\ Ending'
  BY <1>0 DEF IInv, Inv, Beginning, Ending, Trying, Collecting, Completing, TypeOK, PCs,
     JobRow, Rows
<1>6. Collecting' /\ Completing'
  BY <1>0, NullAssumption DEF IInv, Inv, Beginning, Ending, Trying, Collecting, Completing,
     TypeOK, PCs, Selected, Succeeded, Rows, Result, JobRow
<1>7. Trying'
  BY <1>0, NullAssumption DEF IInv, Inv, Beginning, Ending, Trying, Collecting, Completing,
     TypeOK, PCs, Succeeded, Endable, Rows, Result, JobRow
<1>8. SuccessIsComplete'
  BY <1>0 DEF IInv, Inv, SuccessIsComplete, Ending, Completing, TypeOK, Rows, JobRow
<1>9. VerdictIsExplained'
  BY <1>0, NullAssumption DEF IInv, Inv, VerdictIsExplained, Ending, TypeOK, Rows, JobRow
<1>10. SingleIsPermitted' /\ (patches' = 0 => CreateTargetAccepts(target'))
  BY <1>0 DEF IInv, Inv, SingleIsPermitted, Trying, Beginning
<1> QED
  BY <1>1, <1>2, <1>3, <1>4, <1>5, <1>6, <1>7, <1>8, <1>9, <1>10 DEF IInv, Inv

LEMMA StoreStep ==
  ASSUME IInv, Store
  PROVE  IInv'
<1> USE DEF Store, Rollback, Pending, Goto, Checked, CancelSeen, Raise, World
<1>0. TypeOK
  BY DEF IInv, Inv
<1> DEFINE d == [st |-> "succeeded", result |-> "discovered", transport |-> Selected]
           rows == [view EXCEPT !.snapshot = TRUE, !.dr = d]
<1>a. rows \in Rows
  <2>1. "discovered" \in ResultState
    BY DEF ResultState
  <2>2. d \in Result
    BY <1>0, <2>1, SelectedTyped, ResultTyped
  <2> HIDE DEF d
  <2> QED BY <1>0, <2>2 DEF TypeOK, Rows
<1>b. view' \in {db, rows}
  OBVIOUS
<1>1. TypeOK'
  <2>1. job' \in JobRow
    BY <1>0 DEF TypeOK, JobRow
  <2>2. view' \in Rows
    <3> HIDE DEF rows
    <3> QED BY <1>0, <1>a, <1>b DEF TypeOK
  <2>3. db' \in Rows
    BY <1>0, NullAssumption DEF IInv, Inv, TypeOK, Rows, Result, Attempt, Collecting,
       Completing, Beginning
  <2>4. pc' \in PCs /\ code' \in ExecutionCodes
    BY <1>0 DEF TypeOK, PCs, ExecutionCodes, ExecutionFailures, AttemptFailures
  <2> QED
    BY <1>0, <2>1, <2>2, <2>3, <2>4 DEF TypeOK
<1>2. ChainIsAllowed'
  BY DEF IInv, Inv, ChainIsAllowed, ChainedAreAllowed
<1>3. AuditTrail'
  BY <1>0 DEF IInv, Inv, AuditTrail, Trying, TypeOK, Rows
<1>4. OutcomeIsReported' /\ DeletedStaysDeleted'
  BY <1>0, NullAssumption DEF IInv, Inv, OutcomeIsReported, DeletedStaysDeleted, Ending,
     Beginning, Trying, Collecting, Completing, TypeOK, Rows, JobRow, Result
<1>5. Beginning' /\ Ending'
  BY <1>0 DEF IInv, Inv, Beginning, Ending, Trying, Collecting, Completing, TypeOK, PCs,
     JobRow, Rows
<1>6. Collecting' /\ Completing'
  BY ZenonT(60), <1>0, NullAssumption DEF IInv, Inv, Beginning, Ending, Trying, Collecting, Completing,
     TypeOK, PCs, Selected, Succeeded, Rows, Result, JobRow
<1>7. Trying'
  BY ZenonT(60), <1>0, NullAssumption DEF IInv, Inv, Beginning, Ending, Trying, Collecting, Completing,
     TypeOK, PCs, Succeeded, Endable, Rows, Result, JobRow
<1>8. SuccessIsComplete'
  BY <1>0 DEF IInv, Inv, SuccessIsComplete, Ending, Completing, TypeOK, Rows, JobRow
<1>9. VerdictIsExplained'
  BY <1>0, NullAssumption DEF IInv, Inv, VerdictIsExplained, Ending, TypeOK, Rows, JobRow
<1>10. SingleIsPermitted' /\ (patches' = 0 => CreateTargetAccepts(target'))
  <2>1. rows.att = view.att
    BY <1>0 DEF TypeOK, Rows
  <2> HIDE DEF rows
  <2> QED BY <1>b, <2>1 DEF IInv, Inv, SingleIsPermitted
<1> QED
  BY <1>1, <1>2, <1>3, <1>4, <1>5, <1>6, <1>7, <1>8, <1>9, <1>10 DEF IInv, Inv

LEMMA EndStep ==
  ASSUME IInv, End
  PROVE  IInv'
<1> USE DEF End, Commit, Rollback, Pending, Goto, Endable, EndJob, Raise, World
<1>0. TypeOK
  BY DEF IInv, Inv
<1>a. job.st # "gone" =>
        /\ view.dr = [st |-> "succeeded", result |-> "discovered", transport |-> Selected]
        /\ view.dr # NULL
  <2>1. "discovered" \in ResultState
    BY DEF ResultState
  <2>2. [st |-> "succeeded", result |-> "discovered", transport |-> Selected] # NULL
    BY <1>0, <2>1, SelectedTyped, ResultTyped
  <2> QED BY <2>2 DEF IInv, Inv, Completing
<1>1. TypeOK'
  <2>1. job' \in JobRow
    BY <1>0 DEF TypeOK, JobRow
  <2>2. view' \in Rows
    BY ZenonT(60), <1>0, NullAssumption DEF IInv, Inv, TypeOK, Rows, Result, Attempt, Collecting,
       Completing, Beginning
  <2>3. db' \in Rows
    BY <1>0, NullAssumption DEF IInv, Inv, TypeOK, Rows, Result, Attempt, Collecting,
       Completing, Beginning
  <2>4. pc' \in PCs /\ code' \in ExecutionCodes
    BY <1>0 DEF TypeOK, PCs, ExecutionCodes, ExecutionFailures, AttemptFailures
  <2> QED
    BY <1>0, <2>1, <2>2, <2>3, <2>4 DEF TypeOK
<1>2. ChainIsAllowed'
  BY DEF IInv, Inv, ChainIsAllowed, ChainedAreAllowed
<1>3. AuditTrail'
  BY <1>0 DEF IInv, Inv, AuditTrail, Trying, TypeOK, Rows
<1>4. OutcomeIsReported' /\ DeletedStaysDeleted'
  <2>1. CASE Endable
    <3>1. db'.dr = view.dr /\ job'.st = "succeeded"
      BY <1>0, <2>1 DEF TypeOK, Rows, JobRow
    <3>2. view.dr.st = "succeeded" /\ view.dr # NULL
      BY <1>a, <2>1
    <3> QED BY <3>1, <3>2 DEF OutcomeIsReported, DeletedStaysDeleted
  <2>2. CASE ~ Endable
    BY <2>2 DEF IInv, Inv, OutcomeIsReported, DeletedStaysDeleted
  <2> QED BY <2>1, <2>2
<1>5. Beginning' /\ Ending'
  BY <1>0 DEF IInv, Inv, Beginning, Ending, Trying, Collecting, Completing, TypeOK, PCs,
     JobRow, Rows
<1>6. Collecting' /\ Completing'
  BY <1>0, NullAssumption DEF IInv, Inv, Beginning, Ending, Trying, Collecting, Completing,
     TypeOK, PCs, Selected, Succeeded, Rows, Result, JobRow
<1>7. Trying'
  BY <1>0, NullAssumption DEF IInv, Inv, Beginning, Ending, Trying, Collecting, Completing,
     TypeOK, PCs, Succeeded, Endable, Rows, Result, JobRow
<1>8. SuccessIsComplete'
  <2>1. CASE Endable
    <3>1. db' = [view EXCEPT !.run = IF multi THEN "succeeded" ELSE @] /\ view \in Rows
      BY <1>0, <2>1 DEF TypeOK
    <3>2. /\ db'.dr = view.dr /\ db'.evidence = view.evidence /\ db'.snapshot = view.snapshot
          /\ db'.att = view.att /\ (multi => db'.run = "succeeded")
      <4> HIDE DEF End
      <4> QED BY <3>1 DEF Rows
    <3>3. view.evidence /\ view.snapshot
      BY <2>1 DEF IInv, Inv, Completing
    <3>4. view.dr.st = "succeeded" /\ view.dr.result = "discovered" /\ view.dr.transport = Selected
      BY <1>a, <2>1
    <3>5. multi => Selects(view.att, Selected)
      <4> SUFFICES ASSUME multi PROVE Selects(view.att, Selected)
        OBVIOUS
      <4>1. state # NULL /\ Succeeded /\ view.att = db.att
        BY DEF IInv, Inv, Trying
      <4>2. Shows(view.att, tried)
        BY <2>1, <4>1 DEF IInv, Inv, AuditTrail
      <4>3. \A i \in DOMAIN tried : tried[i].ok => i = Len(tried)
        BY DEF IInv, Inv, Trying
      <4>4. view.att \in Seq(Attempt) /\ tried \in Seq(Outcome)
        BY <1>0 DEF TypeOK, Rows
      <4>5. Selected = tried[Len(tried)].transport /\ tried # <<>> /\ tried[Len(tried)].ok
        BY <4>1 DEF Selected, Succeeded
      <4> QED BY <4>2, <4>3, <4>4, <4>5, ShowsSelects
    <3>6. multi' = multi
      OBVIOUS
    <3> QED BY <3>2, <3>3, <3>4, <3>5, <3>6 DEF SuccessIsComplete
  <2>2. CASE ~ Endable
    BY <2>2 DEF IInv, Inv, SuccessIsComplete, Ending
  <2> QED BY <2>1, <2>2
<1>9. VerdictIsExplained'
  BY <1>0, NullAssumption DEF IInv, Inv, VerdictIsExplained, Ending, TypeOK, Rows, JobRow
<1>10. SingleIsPermitted' /\ (patches' = 0 => CreateTargetAccepts(target'))
  <2>1. [view EXCEPT !.run = IF multi THEN "succeeded" ELSE @].att = view.att
    BY <1>0 DEF TypeOK, Rows
  <2>2. db'.att \in {db.att, view.att} /\ view'.att \in {db.att, view.att}
    BY <2>1
  <2> QED BY <2>2 DEF IInv, Inv, SingleIsPermitted
<1> QED
  BY <1>1, <1>2, <1>3, <1>4, <1>5, <1>6, <1>7, <1>8, <1>9, <1>10 DEF IInv, Inv

LEMMA HandleCancellationStep ==
  ASSUME IInv, HandleCancellation
  PROVE  IInv'
<1> USE DEF HandleCancellation, Commit, Rollback, Goto, EndJob, Finalisable, Finalise,
               Local, World, AttemptCancelled
<1>0. TypeOK
  BY DEF IInv, Inv
<1>a. /\ AttemptCancelled(view) \in Rows
      /\ AttemptCancelled(view).dr = view.dr
      /\ multi => AttemptCancelled(view).att = view.att
  <2>1. view \in Rows /\ view.att \in Seq(Attempt)
    BY <1>0 DEF TypeOK, Rows
  <2>2. CASE multi \/ view.att = <<>>
    BY <2>1, <2>2
  <2>3. CASE ~ multi /\ view.att # <<>>
    <3> DEFINE s == [view.att EXCEPT ![1].res = "cancelled"]
    <3>1. s \in Seq(Attempt)
      <4>1. view.att[1] \in Attempt /\ 1 \in 1 .. Len(view.att)
        BY <2>1, <2>3
      <4>2. [view.att[1] EXCEPT !.res = "cancelled"] \in Attempt
        BY <4>1 DEF Attempt
      <4> QED BY <2>1, <4>1, <4>2
    <3>2. AttemptCancelled(view) = [view EXCEPT !.att = s]
      BY <2>1, <2>3 DEF Rows
    <3> HIDE DEF s, AttemptCancelled
    <3> QED BY <2>1, <2>3, <3>1, <3>2 DEF Rows
  <2> QED BY <2>2, <2>3
<1> HIDE DEF AttemptCancelled
<1> DEFINE rows == [AttemptCancelled(view) EXCEPT
                      !.dr = IF @ = NULL
                             THEN [st |-> "cancelled", result |-> "unreachable",
                                   transport |-> NULL]
                             ELSE [@ EXCEPT !.st = "cancelled"]]
<1>b. rows \in Rows /\ (multi => rows.att = view.att)
  <2> DEFINE r == AttemptCancelled(view)
             d == IF r.dr = NULL
                  THEN [st |-> "cancelled", result |-> "unreachable", transport |-> NULL]
                  ELSE [r.dr EXCEPT !.st = "cancelled"]
  <2>1. r \in Rows /\ (multi => r.att = view.att)
    BY <1>a
  <2>2. d \in Result
    <3>1. "unreachable" \in ResultState
      BY DEF ResultState
    <3>2. r.dr = NULL \/ r.dr \in Result
      BY <2>1 DEF Rows
    <3> HIDE DEF r
    <3> QED BY <3>1, <3>2 DEF Result
  <2>3. rows = [r EXCEPT !.dr = d]
    BY <2>1 DEF Rows
  <2> HIDE DEF d, r, rows
  <2> QED BY <2>1, <2>2, <2>3 DEF Rows
<1>c. IF Finalisable THEN db' = rows /\ view' = rows ELSE db' = db /\ view' = db
  OBVIOUS
<1>1. TypeOK'
  <2>1. job' \in JobRow
    BY <1>0 DEF TypeOK, JobRow
  <2>2. view' \in Rows
    <3> HIDE DEF rows
    <3> QED BY <1>0, <1>b, <1>c DEF TypeOK
  <2>3. db' \in Rows
    <3> HIDE DEF rows
    <3> QED BY <1>0, <1>b, <1>c DEF TypeOK
  <2>4. pc' \in PCs /\ code' \in ExecutionCodes
    BY <1>0 DEF TypeOK, PCs, ExecutionCodes, ExecutionFailures, AttemptFailures
  <2> QED
    BY <1>0, <2>1, <2>2, <2>3, <2>4 DEF TypeOK
<1>2. ChainIsAllowed'
  BY DEF IInv, Inv, ChainIsAllowed, ChainedAreAllowed
<1>3. AuditTrail'
  <2> HIDE DEF rows
  <2>1. state # NULL => multi /\ view.att = db.att
    BY DEF IInv, Inv, Trying
  <2> QED BY <1>b, <1>c, <2>1 DEF IInv, Inv, AuditTrail
<1>4. OutcomeIsReported' /\ DeletedStaysDeleted'
  BY <1>0, NullAssumption DEF IInv, Inv, OutcomeIsReported, DeletedStaysDeleted, Ending,
     Beginning, Trying, Collecting, Completing, TypeOK, Rows, JobRow, Result
<1>5. Beginning' /\ Ending'
  BY <1>0 DEF IInv, Inv, Beginning, Ending, Trying, Collecting, Completing, TypeOK, PCs,
     JobRow, Rows
<1>6. Collecting' /\ Completing'
  BY <1>0, NullAssumption DEF IInv, Inv, Beginning, Ending, Trying, Collecting, Completing,
     TypeOK, PCs, Selected, Succeeded, Rows, Result, JobRow
<1>7. Trying'
  BY <1>0, NullAssumption DEF IInv, Inv, Beginning, Ending, Trying, Collecting, Completing,
     TypeOK, PCs, Succeeded, Endable, Rows, Result, JobRow
<1>8. SuccessIsComplete'
  BY <1>0 DEF IInv, Inv, SuccessIsComplete, Ending, Completing, TypeOK, Rows, JobRow
<1>9. VerdictIsExplained'
  BY <1>0, NullAssumption DEF IInv, Inv, VerdictIsExplained, Ending, TypeOK, Rows, JobRow
<1>10. SingleIsPermitted' /\ (patches' = 0 => CreateTargetAccepts(target'))
  <2>1. AttemptCancelled(view).att = view.att
        \/ \A i \in DOMAIN AttemptCancelled(view).att :
              i \in DOMAIN view.att
              /\ AttemptCancelled(view).att[i].transport = view.att[i].transport
    <3>1. view \in Rows /\ view.att \in Seq(Attempt)
      BY <1>0 DEF TypeOK, Rows
    <3>2. CASE multi \/ view.att = <<>>
      BY <3>1, <3>2 DEF AttemptCancelled
    <3>3. CASE ~ multi /\ view.att # <<>>
      <4>1. AttemptCancelled(view).att = [view.att EXCEPT ![1].res = "cancelled"]
        BY <3>1, <3>3 DEF AttemptCancelled, Rows
      <4>2. \A i \in DOMAIN view.att : view.att[i] \in Attempt
        BY <3>1
      <4> QED BY <3>1, <4>1, <4>2 DEF Attempt
    <3> QED BY <3>2, <3>3
  <2>2. rows.att = AttemptCancelled(view).att
    BY <1>a DEF Rows
  <2> HIDE DEF rows
  <2> QED BY <1>c, <2>1, <2>2 DEF IInv, Inv, SingleIsPermitted
<1> QED
  BY <1>1, <1>2, <1>3, <1>4, <1>5, <1>6, <1>7, <1>8, <1>9, <1>10 DEF IInv, Inv

LEMMA HandleLeaseLostStep ==
  ASSUME IInv, HandleLeaseLost
  PROVE  IInv'
<1> USE DEF HandleLeaseLost, Rollback, Goto, Local, World
<1>0. TypeOK
  BY DEF IInv, Inv
<1>1. TypeOK'
  <2>1. job' \in JobRow
    BY <1>0 DEF TypeOK, JobRow
  <2>2. view' \in Rows
    BY <1>0, NullAssumption DEF IInv, Inv, TypeOK, Rows, Result, Attempt, Collecting,
       Completing, Beginning
  <2>3. db' \in Rows
    BY <1>0, NullAssumption DEF IInv, Inv, TypeOK, Rows, Result, Attempt, Collecting,
       Completing, Beginning
  <2>4. pc' \in PCs /\ code' \in ExecutionCodes
    BY <1>0 DEF TypeOK, PCs, ExecutionCodes, ExecutionFailures, AttemptFailures
  <2> QED
    BY <1>0, <2>1, <2>2, <2>3, <2>4 DEF TypeOK
<1>2. ChainIsAllowed'
  BY DEF IInv, Inv, ChainIsAllowed, ChainedAreAllowed
<1>3. AuditTrail'
  BY <1>0 DEF IInv, Inv, AuditTrail, Trying, TypeOK, Rows
<1>4. OutcomeIsReported' /\ DeletedStaysDeleted'
  BY <1>0, NullAssumption DEF IInv, Inv, OutcomeIsReported, DeletedStaysDeleted, Ending,
     Beginning, Trying, Collecting, Completing, TypeOK, Rows, JobRow, Result
<1>5. Beginning' /\ Ending'
  BY <1>0 DEF IInv, Inv, Beginning, Ending, Trying, Collecting, Completing, TypeOK, PCs,
     JobRow, Rows
<1>6. Collecting' /\ Completing'
  BY <1>0, NullAssumption DEF IInv, Inv, Beginning, Ending, Trying, Collecting, Completing,
     TypeOK, PCs, Selected, Succeeded, Rows, Result, JobRow
<1>7. Trying'
  BY <1>0, NullAssumption DEF IInv, Inv, Beginning, Ending, Trying, Collecting, Completing,
     TypeOK, PCs, Succeeded, Endable, Rows, Result, JobRow
<1>8. SuccessIsComplete'
  BY <1>0 DEF IInv, Inv, SuccessIsComplete, Ending, Completing, TypeOK, Rows, JobRow
<1>9. VerdictIsExplained'
  BY <1>0, NullAssumption DEF IInv, Inv, VerdictIsExplained, Ending, TypeOK, Rows, JobRow
<1>10. SingleIsPermitted' /\ (patches' = 0 => CreateTargetAccepts(target'))
  BY <1>0 DEF IInv, Inv, SingleIsPermitted, Trying, Beginning
<1> QED
  BY <1>1, <1>2, <1>3, <1>4, <1>5, <1>6, <1>7, <1>8, <1>9, <1>10 DEF IInv, Inv

LEMMA HandleExceptionCancelledStep ==
  ASSUME IInv, HandleExceptionCancelled
  PROVE  IInv'
<1> USE DEF HandleExceptionCancelled, Commit, Rollback, Goto, CancelSeen, EndJob,
               Finalisable, Finalise, Local, World, AttemptCancelled
<1>0. TypeOK
  BY DEF IInv, Inv
<1>a. /\ AttemptCancelled(view) \in Rows
      /\ AttemptCancelled(view).dr = view.dr
      /\ multi => AttemptCancelled(view).att = view.att
  <2>1. view \in Rows /\ view.att \in Seq(Attempt)
    BY <1>0 DEF TypeOK, Rows
  <2>2. CASE multi \/ view.att = <<>>
    BY <2>1, <2>2
  <2>3. CASE ~ multi /\ view.att # <<>>
    <3> DEFINE s == [view.att EXCEPT ![1].res = "cancelled"]
    <3>1. s \in Seq(Attempt)
      <4>1. view.att[1] \in Attempt /\ 1 \in 1 .. Len(view.att)
        BY <2>1, <2>3
      <4>2. [view.att[1] EXCEPT !.res = "cancelled"] \in Attempt
        BY <4>1 DEF Attempt
      <4> QED BY <2>1, <4>1, <4>2
    <3>2. AttemptCancelled(view) = [view EXCEPT !.att = s]
      BY <2>1, <2>3 DEF Rows
    <3> HIDE DEF s, AttemptCancelled
    <3> QED BY <2>1, <2>3, <3>1, <3>2 DEF Rows
  <2> QED BY <2>2, <2>3
<1> HIDE DEF AttemptCancelled
<1>1. TypeOK'
  <2>1. job' \in JobRow
    BY <1>0 DEF TypeOK, JobRow
  <2>2. view' \in Rows
    BY <1>0, <1>a DEF TypeOK
  <2>3. db' \in Rows
    BY <1>0, <1>a DEF TypeOK
  <2>4. pc' \in PCs /\ code' \in ExecutionCodes
    BY <1>0 DEF TypeOK, PCs, ExecutionCodes, ExecutionFailures, AttemptFailures
  <2> QED
    BY <1>0, <2>1, <2>2, <2>3, <2>4 DEF TypeOK
<1>2. ChainIsAllowed'
  BY DEF IInv, Inv, ChainIsAllowed, ChainedAreAllowed
<1>3. AuditTrail'
  <2>1. state # NULL => multi /\ view.att = db.att
    BY DEF IInv, Inv, Trying
  <2> QED BY <1>a, <2>1 DEF IInv, Inv, AuditTrail
<1>4. OutcomeIsReported' /\ DeletedStaysDeleted'
  <2>1. job' = job \/ job'.st = "cancelled"
    BY <1>0 DEF TypeOK, JobRow
  <2>2. job.by # "execution" /\ job.st # "succeeded"
    BY DEF IInv, Inv, Ending
  <2> QED BY <2>1, <2>2 DEF IInv, Inv, OutcomeIsReported, DeletedStaysDeleted
<1>5. Beginning' /\ Ending'
  BY <1>0 DEF IInv, Inv, Beginning, Ending, Trying, Collecting, Completing, TypeOK, PCs,
     JobRow, Rows
<1>6. Collecting' /\ Completing'
  BY <1>0, NullAssumption DEF IInv, Inv, Beginning, Ending, Trying, Collecting, Completing,
     TypeOK, PCs, Selected, Succeeded, Rows, Result, JobRow
<1>7. Trying'
  BY <1>0, NullAssumption DEF IInv, Inv, Beginning, Ending, Trying, Collecting, Completing,
     TypeOK, PCs, Succeeded, Endable, Rows, Result, JobRow
<1>8. SuccessIsComplete'
  <2>1. job' = job \/ job'.st = "cancelled"
    BY <1>0 DEF TypeOK, JobRow
  <2>2. job.by # "execution" /\ job.st # "succeeded"
    BY DEF IInv, Inv, Ending
  <2> QED BY <2>1, <2>2 DEF SuccessIsComplete
<1>9. VerdictIsExplained'
  <2>1. job' = job \/ job'.st = "cancelled"
    BY <1>0 DEF TypeOK, JobRow
  <2>2. job.by # "execution" /\ job.st # "succeeded"
    BY DEF IInv, Inv, Ending
  <2> QED BY <2>1, <2>2 DEF VerdictIsExplained
<1>10. SingleIsPermitted' /\ (patches' = 0 => CreateTargetAccepts(target'))
  <2>1. AttemptCancelled(view).att = view.att
        \/ \A i \in DOMAIN AttemptCancelled(view).att :
              i \in DOMAIN view.att
              /\ AttemptCancelled(view).att[i].transport = view.att[i].transport
    <3>1. view \in Rows /\ view.att \in Seq(Attempt)
      BY <1>0 DEF TypeOK, Rows
    <3>2. CASE multi \/ view.att = <<>>
      BY <3>1, <3>2 DEF AttemptCancelled
    <3>3. CASE ~ multi /\ view.att # <<>>
      <4>1. AttemptCancelled(view).att = [view.att EXCEPT ![1].res = "cancelled"]
        BY <3>1, <3>3 DEF AttemptCancelled, Rows
      <4>2. \A i \in DOMAIN view.att : view.att[i] \in Attempt
        BY <3>1
      <4> QED BY <3>1, <4>1, <4>2 DEF Attempt
    <3> QED BY <3>2, <3>3
  <2> QED BY <2>1 DEF IInv, Inv, SingleIsPermitted
<1> QED
  BY <1>1, <1>2, <1>3, <1>4, <1>5, <1>6, <1>7, <1>8, <1>9, <1>10 DEF IInv, Inv

LEMMA HandleExceptionStep ==
  ASSUME IInv, HandleException
  PROVE  IInv'
<1> USE DEF HandleException, Goto, CancelSeen, Local, World
<1>0. TypeOK
  BY DEF IInv, Inv
<1>1. TypeOK'
  <2>1. job' \in JobRow
    BY <1>0 DEF TypeOK, JobRow
  <2>2. view' \in Rows
    BY <1>0, NullAssumption DEF IInv, Inv, TypeOK, Rows, Result, Attempt, Collecting,
       Completing, Beginning
  <2>3. db' \in Rows
    BY <1>0, NullAssumption DEF IInv, Inv, TypeOK, Rows, Result, Attempt, Collecting,
       Completing, Beginning
  <2>4. pc' \in PCs /\ code' \in ExecutionCodes
    BY <1>0 DEF TypeOK, PCs, ExecutionCodes, ExecutionFailures, AttemptFailures
  <2> QED
    BY <1>0, <2>1, <2>2, <2>3, <2>4 DEF TypeOK
<1>2. ChainIsAllowed'
  BY DEF IInv, Inv, ChainIsAllowed, ChainedAreAllowed
<1>3. AuditTrail'
  BY <1>0 DEF IInv, Inv, AuditTrail, Trying, TypeOK, Rows
<1>4. OutcomeIsReported' /\ DeletedStaysDeleted'
  BY <1>0, NullAssumption DEF IInv, Inv, OutcomeIsReported, DeletedStaysDeleted, Ending,
     Beginning, Trying, Collecting, Completing, TypeOK, Rows, JobRow, Result
<1>5. Beginning' /\ Ending'
  BY <1>0 DEF IInv, Inv, Beginning, Ending, Trying, Collecting, Completing, TypeOK, PCs,
     JobRow, Rows
<1>6. Collecting' /\ Completing'
  BY <1>0, NullAssumption DEF IInv, Inv, Beginning, Ending, Trying, Collecting, Completing,
     TypeOK, PCs, Selected, Succeeded, Rows, Result, JobRow
<1>7. Trying'
  BY <1>0, NullAssumption DEF IInv, Inv, Beginning, Ending, Trying, Collecting, Completing,
     TypeOK, PCs, Succeeded, Endable, Rows, Result, JobRow
<1>8. SuccessIsComplete'
  BY <1>0 DEF IInv, Inv, SuccessIsComplete, Ending, Completing, TypeOK, Rows, JobRow
<1>9. VerdictIsExplained'
  BY <1>0, NullAssumption DEF IInv, Inv, VerdictIsExplained, Ending, TypeOK, Rows, JobRow
<1>10. SingleIsPermitted' /\ (patches' = 0 => CreateTargetAccepts(target'))
  BY <1>0 DEF IInv, Inv, SingleIsPermitted, Trying, Beginning
<1> QED
  BY <1>1, <1>2, <1>3, <1>4, <1>5, <1>6, <1>7, <1>8, <1>9, <1>10 DEF IInv, Inv

LEMMA FailAfterExceptionStep ==
  ASSUME IInv, FailAfterException
  PROVE  IInv'
<1> USE DEF FailAfterException, Commit, Rollback, Goto, Endable, EndJob, Local, World
<1>0. TypeOK
  BY DEF IInv, Inv
<1> DEFINE d == [st |-> "failed", transport |-> target.preferred,
                 result |-> StateOfCode(code)]
           rows == [db EXCEPT !.dr = d]
<1>a. d \in Result /\ d # NULL
  <2>1. d = [st |-> "failed", result |-> StateOfCode(code), transport |-> target.preferred]
    OBVIOUS
  <2>2. target.preferred \in Transports \cup {NULL}
    BY <1>0 DEF TypeOK, Target
  <2> QED BY <2>1, <2>2, ClassTyped, ResultTyped
<1>b. rows \in Rows /\ rows.dr = d
  <2> HIDE DEF d
  <2> QED BY <1>0, <1>a DEF TypeOK, Rows
<1>c. IF Endable THEN db' = rows /\ view' = rows ELSE db' = db /\ view' = db
  OBVIOUS
<1>1. TypeOK'
  <2>1. job' \in JobRow
    BY <1>0 DEF TypeOK, JobRow
  <2>2. view' \in Rows
    BY <1>0, <1>b, <1>c DEF TypeOK
  <2>3. db' \in Rows
    BY <1>0, <1>b, <1>c DEF TypeOK
  <2>4. pc' \in PCs /\ code' \in ExecutionCodes
    BY <1>0 DEF TypeOK, PCs, ExecutionCodes, ExecutionFailures, AttemptFailures
  <2> QED
    BY <1>0, <2>1, <2>2, <2>3, <2>4 DEF TypeOK
<1>2. ChainIsAllowed'
  BY DEF IInv, Inv, ChainIsAllowed, ChainedAreAllowed
<1>3. AuditTrail'
  BY <1>0 DEF IInv, Inv, AuditTrail, Trying, TypeOK, Rows
<1>4. OutcomeIsReported' /\ DeletedStaysDeleted'
  <2>1. CASE Endable
    <3>1. db'.dr = d /\ job'.st = "failed" /\ d.st = "failed"
      BY <1>0, <1>b, <1>c, <2>1 DEF TypeOK, JobRow
    <3> HIDE DEF d
    <3> QED BY <1>a, <3>1 DEF OutcomeIsReported, DeletedStaysDeleted
  <2>2. CASE ~ Endable
    BY <2>2 DEF IInv, Inv, OutcomeIsReported, DeletedStaysDeleted
  <2> QED BY <2>1, <2>2
<1>5. Beginning' /\ Ending'
  BY <1>0 DEF IInv, Inv, Beginning, Ending, Trying, Collecting, Completing, TypeOK, PCs,
     JobRow, Rows
<1>6. Collecting' /\ Completing'
  BY <1>0, NullAssumption DEF IInv, Inv, Beginning, Ending, Trying, Collecting, Completing,
     TypeOK, PCs, Selected, Succeeded, Rows, Result, JobRow
<1>7. Trying'
  BY <1>0, NullAssumption DEF IInv, Inv, Beginning, Ending, Trying, Collecting, Completing,
     TypeOK, PCs, Succeeded, Endable, Rows, Result, JobRow
<1>8. SuccessIsComplete'
  BY <1>0 DEF IInv, Inv, SuccessIsComplete, Ending, Completing, TypeOK, Rows, JobRow
<1>9. VerdictIsExplained'
  <2>1. db.run = "started"
    BY DEF IInv, Inv, Trying
  <2>2. rows.run = db.run
    BY <1>0 DEF TypeOK, Rows
  <2>3. db'.run = "started"
    BY <1>c, <2>1, <2>2
  <2> QED BY <2>3 DEF VerdictIsExplained
<1>10. SingleIsPermitted' /\ (patches' = 0 => CreateTargetAccepts(target'))
  <2>1. rows.att = db.att
    BY <1>0 DEF TypeOK, Rows
  <2> HIDE DEF rows
  <2> QED BY <1>c, <2>1 DEF IInv, Inv, SingleIsPermitted
<1> QED
  BY <1>1, <1>2, <1>3, <1>4, <1>5, <1>6, <1>7, <1>8, <1>9, <1>10 DEF IInv, Inv

LEMMA WorkerFailsStep ==
  ASSUME IInv, WorkerFails
  PROVE  IInv'
<1> USE DEF WorkerFails, Rollback, Goto, Local, World
<1>0. TypeOK
  BY DEF IInv, Inv
<1>1. TypeOK'
  <2>1. job' \in JobRow
    BY <1>0 DEF TypeOK, JobRow
  <2>2. view' \in Rows
    BY <1>0, NullAssumption DEF IInv, Inv, TypeOK, Rows, Result, Attempt, Collecting,
       Completing, Beginning
  <2>3. db' \in Rows
    BY <1>0, NullAssumption DEF IInv, Inv, TypeOK, Rows, Result, Attempt, Collecting,
       Completing, Beginning
  <2>4. pc' \in PCs /\ code' \in ExecutionCodes
    BY <1>0 DEF TypeOK, PCs, ExecutionCodes, ExecutionFailures, AttemptFailures
  <2> QED
    BY <1>0, <2>1, <2>2, <2>3, <2>4 DEF TypeOK
<1>2. ChainIsAllowed'
  BY DEF IInv, Inv, ChainIsAllowed, ChainedAreAllowed
<1>3. AuditTrail'
  BY <1>0 DEF IInv, Inv, AuditTrail, Trying, TypeOK, Rows
<1>4. OutcomeIsReported' /\ DeletedStaysDeleted'
  BY ZenonT(60), <1>0, NullAssumption DEF IInv, Inv, OutcomeIsReported, DeletedStaysDeleted, Ending,
     Beginning, Trying, Collecting, Completing, TypeOK, Rows, JobRow, Result
<1>5. Beginning' /\ Ending'
  BY <1>0 DEF IInv, Inv, Beginning, Ending, Trying, Collecting, Completing, TypeOK, PCs,
     JobRow, Rows
<1>6. Collecting' /\ Completing'
  BY <1>0, NullAssumption DEF IInv, Inv, Beginning, Ending, Trying, Collecting, Completing,
     TypeOK, PCs, Selected, Succeeded, Rows, Result, JobRow
<1>7. Trying'
  BY <1>0, NullAssumption DEF IInv, Inv, Beginning, Ending, Trying, Collecting, Completing,
     TypeOK, PCs, Succeeded, Endable, Rows, Result, JobRow
<1>8. SuccessIsComplete'
  BY <1>0 DEF IInv, Inv, SuccessIsComplete, Ending, Completing, TypeOK, Rows, JobRow
<1>9. VerdictIsExplained'
  BY <1>0, NullAssumption DEF IInv, Inv, VerdictIsExplained, Ending, TypeOK, Rows, JobRow
<1>10. SingleIsPermitted' /\ (patches' = 0 => CreateTargetAccepts(target'))
  BY <1>0 DEF IInv, Inv, SingleIsPermitted, Trying, Beginning
<1> QED
  BY <1>1, <1>2, <1>3, <1>4, <1>5, <1>6, <1>7, <1>8, <1>9, <1>10 DEF IInv, Inv

LEMMA WorkerAbandonsStep ==
  ASSUME IInv, WorkerAbandons
  PROVE  IInv'
<1> USE DEF WorkerAbandons, Reconcile, Goto, Local, World
<1>0. TypeOK
  BY DEF IInv, Inv
<1>1. TypeOK'
  <2>1. job' \in JobRow
    BY <1>0 DEF TypeOK, JobRow
  <2>2. view' \in Rows
    BY <1>0, NullAssumption DEF IInv, Inv, TypeOK, Rows, Result, Attempt, Collecting,
       Completing, Beginning
  <2>3. db' \in Rows
    BY <1>0, NullAssumption DEF IInv, Inv, TypeOK, Rows, Result, Attempt, Collecting,
       Completing, Beginning
  <2>4. pc' \in PCs /\ code' \in ExecutionCodes
    BY <1>0 DEF TypeOK, PCs, ExecutionCodes, ExecutionFailures, AttemptFailures
  <2> QED
    BY <1>0, <2>1, <2>2, <2>3, <2>4 DEF TypeOK
<1>2. ChainIsAllowed'
  BY DEF IInv, Inv, ChainIsAllowed, ChainedAreAllowed
<1>3. AuditTrail'
  BY <1>0 DEF IInv, Inv, AuditTrail, Trying, TypeOK, Rows
<1>4. OutcomeIsReported' /\ DeletedStaysDeleted'
  BY ZenonT(60), <1>0, NullAssumption DEF IInv, Inv, OutcomeIsReported, DeletedStaysDeleted, Ending,
     Beginning, Trying, Collecting, Completing, TypeOK, Rows, JobRow, Result
<1>5. Beginning' /\ Ending'
  BY <1>0 DEF IInv, Inv, Beginning, Ending, Trying, Collecting, Completing, TypeOK, PCs,
     JobRow, Rows
<1>6. Collecting' /\ Completing'
  BY <1>0, NullAssumption DEF IInv, Inv, Beginning, Ending, Trying, Collecting, Completing,
     TypeOK, PCs, Selected, Succeeded, Rows, Result, JobRow
<1>7. Trying'
  BY <1>0, NullAssumption DEF IInv, Inv, Beginning, Ending, Trying, Collecting, Completing,
     TypeOK, PCs, Succeeded, Endable, Rows, Result, JobRow
<1>8. SuccessIsComplete'
  BY <1>0 DEF IInv, Inv, SuccessIsComplete, Ending, Completing, TypeOK, Rows, JobRow
<1>9. VerdictIsExplained'
  BY <1>0, NullAssumption DEF IInv, Inv, VerdictIsExplained, Ending, TypeOK, Rows, JobRow
<1>10. SingleIsPermitted' /\ (patches' = 0 => CreateTargetAccepts(target'))
  BY <1>0 DEF IInv, Inv, SingleIsPermitted, Trying, Beginning
<1> QED
  BY <1>1, <1>2, <1>3, <1>4, <1>5, <1>6, <1>7, <1>8, <1>9, <1>10 DEF IInv, Inv

LEMMA StopWorkerStep ==
  ASSUME IInv, StopWorker
  PROVE  IInv'
<1> USE DEF StopWorker, Local
<1>0. TypeOK
  BY DEF IInv, Inv
<1>1. TypeOK'
  <2>1. job' \in JobRow
    BY <1>0 DEF TypeOK, JobRow
  <2>2. view' \in Rows
    BY <1>0, NullAssumption DEF IInv, Inv, TypeOK, Rows, Result, Attempt, Collecting,
       Completing, Beginning
  <2>3. db' \in Rows
    BY <1>0, NullAssumption DEF IInv, Inv, TypeOK, Rows, Result, Attempt, Collecting,
       Completing, Beginning
  <2>4. pc' \in PCs /\ code' \in ExecutionCodes
    BY <1>0 DEF TypeOK, PCs, ExecutionCodes, ExecutionFailures, AttemptFailures
  <2> QED
    BY <1>0, <2>1, <2>2, <2>3, <2>4 DEF TypeOK
<1>2. ChainIsAllowed'
  BY DEF IInv, Inv, ChainIsAllowed, ChainedAreAllowed
<1>3. AuditTrail'
  BY <1>0 DEF IInv, Inv, AuditTrail, Trying, TypeOK, Rows
<1>4. OutcomeIsReported' /\ DeletedStaysDeleted'
  BY ZenonT(60), <1>0, NullAssumption DEF IInv, Inv, OutcomeIsReported, DeletedStaysDeleted, Ending,
     Beginning, Trying, Collecting, Completing, TypeOK, Rows, JobRow, Result
<1>5. Beginning' /\ Ending'
  BY <1>0 DEF IInv, Inv, Beginning, Ending, Trying, Collecting, Completing, TypeOK, PCs,
     JobRow, Rows
<1>6. Collecting' /\ Completing'
  BY <1>0, NullAssumption DEF IInv, Inv, Beginning, Ending, Trying, Collecting, Completing,
     TypeOK, PCs, Selected, Succeeded, Rows, Result, JobRow
<1>7. Trying'
  BY <1>0, NullAssumption DEF IInv, Inv, Beginning, Ending, Trying, Collecting, Completing,
     TypeOK, PCs, Succeeded, Endable, Rows, Result, JobRow
<1>8. SuccessIsComplete'
  BY <1>0 DEF IInv, Inv, SuccessIsComplete, Ending, Completing, TypeOK, Rows, JobRow
<1>9. VerdictIsExplained'
  BY <1>0, NullAssumption DEF IInv, Inv, VerdictIsExplained, Ending, TypeOK, Rows, JobRow
<1>10. SingleIsPermitted' /\ (patches' = 0 => CreateTargetAccepts(target'))
  BY <1>0 DEF IInv, Inv, SingleIsPermitted, Trying, Beginning
<1> QED
  BY <1>1, <1>2, <1>3, <1>4, <1>5, <1>6, <1>7, <1>8, <1>9, <1>10 DEF IInv, Inv

LEMMA DatabaseFailsStep ==
  ASSUME IInv, DatabaseFails
  PROVE  IInv'
<1> USE DEF DatabaseFails, StatementFails, SessionFails, WorkerCannot, InStep6, Rollback,
               Goto, Local
<1>0. TypeOK
  BY DEF IInv, Inv
<1>1. TypeOK'
  <2>1. job' \in JobRow
    BY <1>0 DEF TypeOK, JobRow
  <2>2. view' \in Rows
    BY <1>0, NullAssumption DEF IInv, Inv, TypeOK, Rows, Result, Attempt, Collecting,
       Completing, Beginning
  <2>3. db' \in Rows
    BY <1>0, NullAssumption DEF IInv, Inv, TypeOK, Rows, Result, Attempt, Collecting,
       Completing, Beginning
  <2>4. pc' \in PCs /\ code' \in ExecutionCodes
    BY <1>0 DEF TypeOK, PCs, ExecutionCodes, ExecutionFailures, AttemptFailures
  <2> QED
    <3>1. faults' \in 0 .. MaxFaults
      BY <1>0, BoundAssumption DEF TypeOK
    <3> QED BY <1>0, <2>1, <2>2, <2>3, <2>4, <3>1 DEF TypeOK
<1>2. ChainIsAllowed'
  BY DEF IInv, Inv, ChainIsAllowed, ChainedAreAllowed
<1>3. AuditTrail'
  BY <1>0 DEF IInv, Inv, AuditTrail, Trying, TypeOK, Rows
<1>4. OutcomeIsReported' /\ DeletedStaysDeleted'
  BY ZenonT(60), <1>0, NullAssumption DEF IInv, Inv, OutcomeIsReported, DeletedStaysDeleted, Ending,
     Beginning, Trying, Collecting, Completing, TypeOK, Rows, JobRow, Result
<1>5. Beginning' /\ Ending'
  BY <1>0 DEF IInv, Inv, Beginning, Ending, Trying, Collecting, Completing, TypeOK, PCs,
     JobRow, Rows
<1>6. Collecting' /\ Completing'
  BY <1>0, NullAssumption DEF IInv, Inv, Beginning, Ending, Trying, Collecting, Completing,
     TypeOK, PCs, Selected, Succeeded, Rows, Result, JobRow
<1>7. Trying'
  BY <1>0, NullAssumption DEF IInv, Inv, Beginning, Ending, Trying, Collecting, Completing,
     TypeOK, PCs, Succeeded, Endable, Rows, Result, JobRow
<1>8. SuccessIsComplete'
  BY <1>0 DEF IInv, Inv, SuccessIsComplete, Ending, Completing, TypeOK, Rows, JobRow
<1>9. VerdictIsExplained'
  BY <1>0, NullAssumption DEF IInv, Inv, VerdictIsExplained, Ending, TypeOK, Rows, JobRow
<1>10. SingleIsPermitted' /\ (patches' = 0 => CreateTargetAccepts(target'))
  BY <1>0 DEF IInv, Inv, SingleIsPermitted, Trying, Beginning
<1> QED
  BY <1>1, <1>2, <1>3, <1>4, <1>5, <1>6, <1>7, <1>8, <1>9, <1>10 DEF IInv, Inv

-----------------------------------------------------------------------------
(* The theorems                                                            *)

LEMMA InitInv ==
  Init => IInv
<1> SUFFICES ASSUME Init PROVE IInv
  OBVIOUS
<1> USE DEF Init
<1>1. TypeOK
  <2>1. NoRows \in Rows
    BY DEF NoRows, Rows
  <2>2. target \in Target
    BY TargetsAssumption
  <2>3. job \in JobRow /\ pc \in PCs /\ code \in ExecutionCodes
    BY DEF JobRow, PCs, ExecutionCodes
  <2>4. <<>> \in Seq(Transports) /\ <<>> \in Seq(Outcome)
    OBVIOUS
  <2>5. 0 \in 0 .. MaxPatches /\ 0 \in 0 .. MaxFaults
    BY BoundAssumption
  <2> QED BY <2>1, <2>2, <2>3, <2>4, <2>5 DEF TypeOK
<1>2. ChainIsAllowed /\ SingleIsPermitted /\ (patches = 0 => CreateTargetAccepts(target))
  BY TargetsAssumption DEF ChainIsAllowed, ChainedAreAllowed, SingleIsPermitted, IsInjective,
     ToSet, NoRows
<1>3. AuditTrail /\ OutcomeIsReported /\ DeletedStaysDeleted
  BY NullAssumption DEF AuditTrail, OutcomeIsReported, DeletedStaysDeleted
<1>4. Beginning /\ Collecting /\ Completing /\ Ending
  BY NullAssumption DEF Beginning, Collecting, Completing, Ending, NoRows
<1>5. Trying
  BY DEF Trying, NoRows
<1>6. SuccessIsComplete /\ VerdictIsExplained
  BY DEF SuccessIsComplete, VerdictIsExplained
<1> QED BY <1>1, <1>2, <1>3, <1>4, <1>5, <1>6 DEF IInv, Inv

LEMMA StutterInv ==
  ASSUME IInv, UNCHANGED vars
  PROVE  IInv'
<1> USE DEF vars
<1>1. TypeOK' /\ ChainIsAllowed' /\ SingleIsPermitted'
      /\ (patches' = 0 => CreateTargetAccepts(target'))
  BY DEF IInv, Inv, TypeOK, ChainIsAllowed, ChainedAreAllowed, SingleIsPermitted
<1>2. AuditTrail' /\ OutcomeIsReported' /\ DeletedStaysDeleted' /\ Beginning' /\ Ending'
  BY DEF IInv, Inv, AuditTrail, OutcomeIsReported, DeletedStaysDeleted, Beginning, Ending
<1>3. Trying' /\ Collecting' /\ Completing'
  BY DEF IInv, Inv, Trying, Collecting, Completing, Succeeded, Selected, Endable
<1>4. SuccessIsComplete' /\ VerdictIsExplained'
  BY DEF IInv, SuccessIsComplete, VerdictIsExplained
<1> QED BY <1>1, <1>2, <1>3, <1>4 DEF IInv, Inv

\* Every step keeps the inductive invariant.
LEMMA NextInv ==
  IInv /\ [Next]_vars => IInv'
<1> SUFFICES ASSUME IInv, [Next]_vars PROVE IInv'
  OBVIOUS
<1>1. CASE Start
  BY <1>1, StartStep
<1>2. CASE Begin
  BY <1>2, BeginStep
<1>3. CASE PlanTransports
  BY <1>3, PlanTransportsStep
<1>4. CASE TryTransport
  BY <1>4, TryTransportStep
<1>5. CASE StoreAttempts
  BY <1>5, StoreAttemptsStep
<1>6. CASE FailMulti
  BY <1>6, FailMultiStep
<1>7. CASE StartSingle
  BY <1>7, StartSingleStep
<1>8. CASE Collect
  BY <1>8, CollectStep
<1>9. CASE StoreEvidence
  BY <1>9, StoreEvidenceStep
<1>10. CASE Process
  BY <1>10, ProcessStep
<1>11. CASE Store
  BY <1>11, StoreStep
<1>12. CASE End
  BY <1>12, EndStep
<1>13. CASE HandleCancellation
  BY <1>13, HandleCancellationStep
<1>14. CASE HandleLeaseLost
  BY <1>14, HandleLeaseLostStep
<1>15. CASE HandleExceptionCancelled
  BY <1>15, HandleExceptionCancelledStep
<1>16. CASE HandleException
  BY <1>16, HandleExceptionStep
<1>17. CASE FailAfterException
  BY <1>17, FailAfterExceptionStep
<1>18. CASE WorkerFails
  BY <1>18, WorkerFailsStep
<1>19. CASE RecordingFails
  BY <1>19, RecordingFailsStep
<1>20. CASE PatchTarget
  BY <1>20, PatchTargetStep
<1>21. CASE RequestCancellation
  BY <1>21, RequestCancellationStep
<1>22. CASE TakenAway
  BY <1>22, TakenAwayStep
<1>23. CASE HeartbeatLost
  BY <1>23, HeartbeatLostStep
<1>24. CASE DeleteTarget
  BY <1>24, DeleteTargetStep
<1>25. CASE UNCHANGED vars
  BY <1>25, StutterInv
<1>26. CASE WorkerAbandons
  BY <1>26, WorkerAbandonsStep
<1>27. CASE StopWorker
  BY <1>27, StopWorkerStep
<1>28. CASE DatabaseFails
  BY <1>28, DatabaseFailsStep
<1> QED
  BY <1>1, <1>2, <1>3, <1>4, <1>5, <1>6, <1>7, <1>8, <1>9, <1>10, <1>11, <1>12, <1>13,
     <1>14, <1>15, <1>16, <1>17, <1>18, <1>19, <1>20, <1>21, <1>22, <1>23, <1>24, <1>25,
     <1>26, <1>27, <1>28
     DEF Next, Execution

\* Wherever the execution is and whatever operators and another worker do
\* meanwhile, its session, the committed rows and its place in the code agree
\* (DiscoveryExecutionService.execute).
THEOREM ExecutionInvariance ==
  Spec => []IInv
<1>1. Init => IInv
  BY InitInv
<1>2. IInv /\ [Next]_vars => IInv'
  BY NextInv
<1> QED BY <1>1, <1>2, PTL DEF Spec

\* For any targets, profiles, number of updates and of database errors: the
\* attempts of a chain stay in the table once they are stored, a job that its
\* execution ended has a result in the same state, and a deleted target's rows do
\* not come back (execution.py).
THEOREM RowsAreKept ==
  Spec => []Inv
<1>1. IInv => Inv
  BY DEF IInv
<1> QED BY <1>1, ExecutionInvariance, PTL

\* A succeeded job has its evidence, its snapshot and its result, and the stored
\* attempts name the selected transport (execution.py).
THEOREM SuccessIsAlwaysComplete ==
  Spec => []SuccessIsComplete
<1>1. IInv => SuccessIsComplete
  BY DEF IInv
<1> QED BY <1>1, ExecutionInvariance, PTL

\* No chain tries a transport that flags, credential and profile do not allow, and
\* none twice, whatever transports profiles and targets list and in whatever order;
\* without a chain the attempt goes over a transport the target permits, as long as
\* nobody has updated the target (transport_policy.py, _build_transport_configs,
\* CiscoTransportSelector.select).
THEOREM OnlyAllowedTransports ==
  Spec => []TriedTransportsAreAllowed
<1>1. IInv => TriedTransportsAreAllowed
  BY DEF IInv, Inv, ChainIsAllowed, TriedTransportsAreAllowed
<1> QED BY <1>1, ExecutionInvariance, PTL

\* The classification of a failed chain survives its way through a failure code
\* and back, for chains of any length (result_states.py, execution.py).
THEOREM VerdictsAreExplained ==
  Spec => []VerdictIsExplained
<1>1. IInv => VerdictIsExplained
  BY DEF IInv
<1> QED BY <1>1, ExecutionInvariance, PTL
=============================================================================
