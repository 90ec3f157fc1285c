----------------------------- MODULE LoopFacts -----------------------------
(***************************************************************************)
(* Induction and recursion over natural numbers, and what follows for the  *)
(* flattening of sequences and for numbers of two digits.                  *)
(*                                                                         *)
(* The induction theorems of the library have operators as parameters,     *)
(* which the provers cannot instantiate.  Here a set takes the place of    *)
(* the predicate, and a function that of the operator; both follow from    *)
(* the one theorem about well-founded relations that has sets only.        *)
(***************************************************************************)
EXTENDS Integers, WellFoundedInduction, SequenceTheorems, SequencesExt, TLAPS

-----------------------------------------------------------------------------
(* Induction and recursion *)

\* A set of natural numbers that is not empty has a smallest member.
LEMMA SmallestMember ==
  ASSUME NEW T \in SUBSET Nat, T # {}
  PROVE  \E m \in T : \A n \in T : m <= n
<1> DEFINE R == {ss \in Nat \X Nat : ss[1] < ss[2]}
<1>1. R = OpToRel(<, Nat)
  BY DEF OpToRel
<1>2. IsWellFoundedOn(R, Nat)
  BY <1>1, NatLessThanWellFounded
<1>3. T \subseteq Nat
  OBVIOUS
<1>4. \E m \in T : \A n \in T : ~ (<<n, m>> \in R)
  <2> HIDE DEF R
  <2>. QED  BY <1>2, <1>3, WFMin
<1>5. PICK m \in T : \A n \in T : ~ (<<n, m>> \in R)
  BY <1>4
<1>6. ASSUME NEW n \in T PROVE m <= n
  <2>1. m \in Nat /\ n \in Nat
    BY <1>3
  <2>2. ~ (<<n, m>> \in R)
    BY <1>5
  <2>3. ~ (n < m)
    BY <2>1, <2>2
  <2>. QED  BY <2>1, <2>3
<1>. QED  BY <1>6

\* What holds of 0 and of the successor of whatever it holds of, holds of all.
LEMMA SetInduction ==
  ASSUME NEW S, 0 \in S, \A n \in Nat : n \in S => n + 1 \in S
  PROVE  Nat \subseteq S
<1> SUFFICES ASSUME NEW x \in Nat, x \notin S PROVE FALSE
  OBVIOUS
<1> DEFINE T == Nat \ S
<1>1. PICK m \in T : \A n \in T : m <= n
  <2>1. T \in SUBSET Nat /\ T # {}
    OBVIOUS
  <2>. HIDE DEF T
  <2>. QED  BY <2>1, SmallestMember
<1>2. m # 0
  BY <1>1
<1>3. m - 1 \in Nat /\ m - 1 \notin T
  BY <1>1, <1>2
<1>. QED  BY <1>1, <1>3

\* Phi's value at x depends on g at places of smaller rank only.
IsRecursion(D, V, rank, Phi) ==
  /\ V # {}
  /\ rank \in [D -> Nat]
  /\ Phi \in [D \X [D -> V] -> V]
  /\ \A x \in D : \A g, h \in [D -> V] :
       (\A y \in D : rank[y] < rank[x] => g[y] = h[y]) => Phi[<<x, g>>] = Phi[<<x, h>>]

\* There is a function that such a recursion defines.
LEMMA RecursiveFunction ==
  ASSUME NEW D, NEW V, NEW rank, NEW Phi, IsRecursion(D, V, rank, Phi)
  PROVE  \E f \in [D -> V] : \A x \in D : f[x] = Phi[<<x, f>>]
<1> SUFFICES ASSUME NEW v0 \in V, rank \in [D -> Nat],
         Phi \in [D \X [D -> V] -> V],
         \A x \in D : \A g, h \in [D -> V] :
           (\A y \in D : rank[y] < rank[x] => g[y] = h[y]) => Phi[<<x, g>>] = Phi[<<x, h>>]
  PROVE  \E f \in [D -> V] : \A x \in D : f[x] = Phi[<<x, f>>]
  BY Zenon DEF IsRecursion
<1> DEFINE Upto(g, n) == g \in [D -> V] /\ \A x \in D : rank[x] < n => g[x] = Phi[<<x, g>>]
<1>1. ASSUME NEW g, NEW h, NEW n \in Nat, Upto(g, n), Upto(h, n)
      PROVE  \A x \in D : rank[x] < n => g[x] = h[x]
  <2> DEFINE S == {m \in Nat : \A x \in D : rank[x] < m /\ rank[x] < n => g[x] = h[x]}
  <2>1. 0 \in S
    OBVIOUS
  <2>2. ASSUME NEW m \in Nat, m \in S PROVE m + 1 \in S
    <3>1. SUFFICES ASSUME NEW x \in D, rank[x] < m + 1, rank[x] < n PROVE g[x] = h[x]
      OBVIOUS
    <3>2. \A y \in D : rank[y] < rank[x] => g[y] = h[y]
      <4> SUFFICES ASSUME NEW y \in D, rank[y] < rank[x] PROVE g[y] = h[y]
        OBVIOUS
      <4>1. rank[x] \in Nat /\ rank[y] \in Nat
        OBVIOUS
      <4>2. rank[y] < m /\ rank[y] < n
        BY <3>1, <4>1
      <4>. QED  BY <2>2, <4>2
    <3>3. Phi[<<x, g>>] = Phi[<<x, h>>]
      BY <3>2, <1>1
    <3>. QED  BY <1>1, <3>1, <3>3
  <2>3. Nat \subseteq S
    <3> HIDE DEF S
    <3>. QED  BY <2>1, <2>2, SetInduction
  <2>4. n \in S
    BY <2>3
  <2>. QED  BY <2>4
<1>2. \A n \in Nat : \E g : Upto(g, n)
  <2> DEFINE S == {n \in Nat : \E g : Upto(g, n)}
  <2>1. 0 \in S
    <3>1. Upto([x \in D |-> v0], 0)
      OBVIOUS
    <3>. QED  BY <3>1
  <2>2. ASSUME NEW n \in Nat, n \in S PROVE n + 1 \in S
    <3>1. PICK g : Upto(g, n)
      BY <2>2
    <3> DEFINE h == [x \in D |-> Phi[<<x, g>>]]
    <3>2. h \in [D -> V]
      BY <3>1
    <3>3. \A x \in D : rank[x] < n => h[x] = g[x]
      BY <3>1
    <3>4. ASSUME NEW x \in D, rank[x] < n + 1 PROVE h[x] = Phi[<<x, h>>]
      <4>1. \A y \in D : rank[y] < rank[x] => g[y] = h[y]
        <5> SUFFICES ASSUME NEW y \in D, rank[y] < rank[x] PROVE g[y] = h[y]
          OBVIOUS
        <5>1. rank[x] \in Nat /\ rank[y] \in Nat
          OBVIOUS
        <5>2. rank[y] < n
          BY <3>4, <5>1
        <5> HIDE DEF h
        <5>. QED  BY <3>3, <5>2
      <4>2. h[x] = Phi[<<x, g>>]
        OBVIOUS
      <4> HIDE DEF h
      <4>. QED  BY <3>1, <3>2, <4>1, <4>2
    <3>5. Upto(h, n + 1)
      <4> HIDE DEF h
      <4>. QED  BY <3>2, <3>4
    <3>6. \E gg : Upto(gg, n + 1)
      <4> HIDE DEF h, Upto
      <4>. QED  BY <3>5
    <3>7. n + 1 \in Nat
      OBVIOUS
    <3> HIDE DEF Upto
    <3>. QED  BY <3>6, <3>7
  <2>3. Nat \subseteq S
    <3> HIDE DEF S
    <3>. QED  BY <2>1, <2>2, SetInduction
  <2>. QED  BY <2>3
<1> DEFINE G(n) == CHOOSE g : Upto(g, n)
           f == [x \in D |-> G(rank[x] + 1)[x]]
<1>3. \A n \in Nat : Upto(G(n), n)
  <2> HIDE DEF Upto
  <2>. QED  BY <1>2
<1>4. f \in [D -> V]
  <2> SUFFICES ASSUME NEW x \in D PROVE G(rank[x] + 1)[x] \in V
    OBVIOUS
  <2>1. rank[x] + 1 \in Nat
    OBVIOUS
  <2>2. Upto(G(rank[x] + 1), rank[x] + 1)
    BY <1>3, <2>1
  <2> HIDE DEF G
  <2>. QED  BY <2>2
<1>5. ASSUME NEW x \in D PROVE f[x] = Phi[<<x, f>>]
  <2>1. PICK n \in Nat : n = rank[x] + 1
    OBVIOUS
  <2>2. PICK g : g = G(n) /\ Upto(g, n)
    BY <1>3
  <2>3. f[x] = g[x]
    BY <2>1, <2>2
  <2>4. g \in [D -> V] /\ g[x] = Phi[<<x, g>>]
    <3>1. rank[x] < n
      BY <2>1
    <3> HIDE DEF G, f
    <3>. QED  BY <2>2, <3>1
  <2>5. ASSUME NEW y \in D, rank[y] < rank[x] PROVE g[y] = f[y]
    <3>1. PICK m \in Nat : m = rank[y] + 1
      OBVIOUS
    <3>2. m < n /\ rank[y] < m /\ rank[y] \in Nat /\ rank[x] \in Nat
      <4> HIDE DEF G, f
      <4>. QED  BY <3>1, <2>1, <2>5
    <3> HIDE DEF G, f, Upto
    <3>6. Upto(G(m), m)
      BY <1>3
    <3>3. Upto(g, m)
      <4> USE DEF Upto
      <4>1. g \in [D -> V]
        BY <2>2
      <4>2. ASSUME NEW z \in D, rank[z] < m PROVE g[z] = Phi[<<z, g>>]
        <5>1. rank[z] \in Nat
          OBVIOUS
        <5>2. rank[z] < n
          <6> HIDE DEF Upto
          <6>. QED  BY <3>2, <4>2, <5>1
        <5>. QED  BY <2>2, <5>2
      <4>. QED  BY <4>1, <4>2
    <3>4. G(m)[y] = g[y]
      BY <3>2, <3>3, <3>6, <1>1
    <3>5. f[y] = G(m)[y]
      BY <3>1 DEF f
    <3>. QED  BY <3>4, <3>5
  <2> HIDE DEF f, G
  <2>6. Phi[<<x, g>>] = Phi[<<x, f>>]
    BY <1>4, <2>4, <2>5
  <2>. QED  BY <2>3, <2>4, <2>6
<1> HIDE DEF f
<1>. QED  BY <1>4, <1>5

-----------------------------------------------------------------------------
(* Sequences *)

\* What FlattenSeq computes, one sequence after the other.
LEMMA FlattenDef ==
  ASSUME NEW B, NEW s \in Seq(Seq(B)), s # <<>>
  PROVE  \E f \in [1 .. Len(s) -> Seq(B)] :
           /\ \A i \in 1 .. Len(s) : f[i] = IF i = 1 THEN s[i] ELSE f[i-1] \o s[i]
           /\ FlattenSeq(s) = f[Len(s)]
<1> DEFINE D == 1 .. Len(s)
           V == Seq(B)
           rank == [i \in D |-> i]
           Phi == [xg \in D \X [D -> V] |->
                     IF xg[1] = 1 THEN s[xg[1]] ELSE xg[2][xg[1] - 1] \o s[xg[1]]]
<1>1. rank \in [D -> Nat] /\ <<>> \in V
  OBVIOUS
<1>2. Phi \in [D \X [D -> V] -> V]
  <2> SUFFICES ASSUME NEW i \in D, NEW g \in [D -> V]
               PROVE  (IF i = 1 THEN s[i] ELSE g[i - 1] \o s[i]) \in V
    OBVIOUS
  <2>1. s[i] \in V
    OBVIOUS
  <2>2. i # 1 => i - 1 \in D
    OBVIOUS
  <2>. QED  BY <2>1, <2>2, ConcatProperties
<1>3. ASSUME NEW x \in D, NEW g \in [D -> V], NEW h \in [D -> V],
             \A y \in D : rank[y] < rank[x] => g[y] = h[y]
      PROVE  Phi[<<x, g>>] = Phi[<<x, h>>]
  <2>1. x # 1 => g[x - 1] = h[x - 1]
    <3>1. x # 1 => x - 1 \in D /\ rank[x - 1] < rank[x]
      OBVIOUS
    <3>. QED  BY <3>1, <1>3
  <2>. QED  BY <2>1
<1>7. \A x \in D : \A g, h \in [D -> V] :
        (\A y \in D : rank[y] < rank[x] => g[y] = h[y]) => Phi[<<x, g>>] = Phi[<<x, h>>]
  <2> HIDE DEF D, V, rank, Phi
  <2>. QED  BY <1>3
<1>8. IsRecursion(D, V, rank, Phi)
  <2> HIDE DEF D, V, rank, Phi
  <2>. QED  BY <1>1, <1>2, <1>7 DEF IsRecursion
<1>4. \E f \in [D -> V] : \A x \in D : f[x] = Phi[<<x, f>>]
  <2> HIDE DEF D, V, rank, Phi
  <2>. QED  BY <1>8, RecursiveFunction
<1>5. PICK f \in [D -> V] : \A x \in D : f[x] = Phi[<<x, f>>]
  BY <1>4
<1>6. ASSUME NEW i \in D PROVE f[i] = IF i = 1 THEN s[i] ELSE f[i-1] \o s[i]
  BY <1>5
<1> DEFINE F == CHOOSE g : g = [i \in 1 .. Len(s) |-> IF i = 1 THEN s[i] ELSE g[i-1] \o s[i]]
<1>9. f = [i \in 1 .. Len(s) |-> IF i = 1 THEN s[i] ELSE f[i-1] \o s[i]]
  BY <1>6
<1>10. F = [i \in 1 .. Len(s) |-> IF i = 1 THEN s[i] ELSE F[i-1] \o s[i]]
  BY <1>9, Zenon
<1>11. FlattenSeq(s) = F[Len(s)]
  BY DEF FlattenSeq
<1>12. \A i \in D : F[i] = f[i]
  <2> DEFINE S == {n \in Nat : \A i \in D : i <= n => F[i] = f[i]}
  <2> HIDE DEF F
  <2>1. 0 \in S
    OBVIOUS
  <2>2. ASSUME NEW n \in Nat, n \in S PROVE n + 1 \in S
    <3> SUFFICES ASSUME NEW i \in D, i <= n + 1 PROVE F[i] = f[i]
      OBVIOUS
    <3>1. i # 1 => F[i - 1] = f[i - 1]
      BY <2>2
    <3>2. F[i] = IF i = 1 THEN s[i] ELSE F[i-1] \o s[i]
      BY <1>10
    <3>. QED  BY <3>1, <3>2, <1>6
  <2>3. Nat \subseteq S
    <3> HIDE DEF S
    <3>. QED  BY <2>1, <2>2, SetInduction
  <2> SUFFICES ASSUME NEW i \in D PROVE F[i] = f[i]
    OBVIOUS
  <2>4. i \in Nat
    OBVIOUS
  <2>5. i \in S
    <3> HIDE DEF S
    <3>. QED  BY <2>3, <2>4
  <2>. QED  BY <2>5
<1>13. Len(s) \in D
  OBVIOUS
<1>. QED  BY <1>6, <1>11, <1>12, <1>13

\* Append, Tail and the members of a sequence.
LEMMA SeqFacts ==
  ASSUME NEW Q
  PROVE  /\ \A s \in Seq(Q), t \in Q :
              /\ Append(s, t) \in Seq(Q) /\ Len(Append(s, t)) = Len(s) + 1
              /\ \A i \in 1 .. Len(s) : Append(s, t)[i] = s[i]
              /\ Append(s, t)[Len(s) + 1] = t
         /\ \A s \in Seq(Q) : Len(s) = 1 =>
              s = Append(<<>>, s[1]) /\ Tail(s) = <<>> /\ s[1] \in Q
         /\ \A s \in Seq(Q) : s # <<>> =>
              \E v \in Seq(Q), t \in Q : s = Append(v, t)
         /\ \A s \in Seq(Q) : s # <<>> => Len(s) \in Nat \ {0} /\ s[1] \in Q
         /\ \A v \in Seq(Q), t \in Q : v # <<>> =>
              /\ Append(v, t)[1] = v[1]
              /\ Tail(v) \in Seq(Q)
              /\ Tail(Append(v, t)) = Append(Tail(v), t)
<1>1. \A s \in Seq(Q), t \in Q :
              /\ Append(s, t) \in Seq(Q) /\ Len(Append(s, t)) = Len(s) + 1
              /\ \A i \in 1 .. Len(s) : Append(s, t)[i] = s[i]
              /\ Append(s, t)[Len(s) + 1] = t
  OBVIOUS
<1>2. ASSUME NEW s \in Seq(Q), Len(s) = 1
      PROVE  s = Append(<<>>, s[1]) /\ Tail(s) = <<>> /\ s[1] \in Q
  <2>1. s[1] \in Q /\ s # <<>>
    BY <1>2
  <2>2. <<>> \in Seq(Q) /\ Len(<<>>) = 0
    BY EmptySeq
  <2>3. PICK u : u = Append(<<>>, s[1])
    OBVIOUS
  <2>4. u \in Seq(Q) /\ Len(u) = 1 /\ u[1] = s[1]
    BY <2>1, <2>2, <2>3, AppendProperties
  <2>5. \A i \in 1 .. Len(s) : s[i] = u[i]
    BY <1>2, <2>4
  <2>6. s = u
    BY <1>2, <2>4, <2>5, SeqEqual
  <2>7. Tail(s) \in Seq(Q) /\ Len(Tail(s)) = 0
    BY <1>2, <2>1, HeadTailProperties
  <2>8. Tail(s) = <<>>
    BY <2>7, EmptySeq
  <2>. QED  BY <2>1, <2>3, <2>6, <2>8
<1>3. \A s \in Seq(Q) : s # <<>> =>
              \E v \in Seq(Q), t \in Q : s = Append(v, t)
  BY SequenceEmptyOrAppend
<1>4. \A s \in Seq(Q) : s # <<>> => Len(s) \in Nat \ {0} /\ s[1] \in Q
  OBVIOUS
<1>5. \A v \in Seq(Q), t \in Q : v # <<>> =>
              /\ Append(v, t)[1] = v[1]
              /\ Tail(v) \in Seq(Q)
              /\ Tail(Append(v, t)) = Append(Tail(v), t)
  BY HeadTailAppend
<1>. QED  BY <1>1, <1>2, <1>3, <1>4, <1>5

\* A flattened sequence of sequences is a sequence, and grows at its end.
LEMMA FlattenFacts ==
  ASSUME NEW B
  PROVE  /\ FlattenSeq(<<>>) = <<>>
         /\ \A s \in Seq(Seq(B)) : FlattenSeq(s) \in Seq(B)
         /\ \A s \in Seq(Seq(B)), t \in Seq(B) :
              FlattenSeq(Append(s, t)) = FlattenSeq(s) \o t
<1> DEFINE Q == Seq(B)
<1>1. FlattenSeq(<<>>) = <<>>
  BY DEF FlattenSeq
<1>0. ASSUME NEW s \in Seq(Q), s # <<>>
      PROVE  \E f \in [1 .. Len(s) -> Q] :
           /\ \A i \in 1 .. Len(s) : f[i] = IF i = 1 THEN s[i] ELSE f[i-1] \o s[i]
           /\ FlattenSeq(s) = f[Len(s)]
  BY <1>0, FlattenDef
<1>4. <<>> \in Q /\ \A s \in Q : <<>> \o s = s
  BY ConcatEmptySeq
<1> HIDE DEF Q
<1>2. ASSUME NEW s \in Seq(Q) PROVE FlattenSeq(s) \in Q
  <2>1. CASE s = <<>>
    BY <2>1, <1>1, <1>4
  <2>2. CASE s # <<>>
    <3>1. PICK f \in [1 .. Len(s) -> Q] : FlattenSeq(s) = f[Len(s)]
      BY <2>2, <1>0
    <3>2. Len(s) \in 1 .. Len(s)
      BY <2>2
    <3>. QED  BY <3>1, <3>2
  <2>. QED  BY <2>1, <2>2
<1>3. ASSUME NEW s \in Seq(Q), NEW t \in Q
      PROVE  FlattenSeq(Append(s, t)) = FlattenSeq(s) \o t
  <2>0. PICK u : u = Append(s, t)
    OBVIOUS
  <2>1. /\ u \in Seq(Q) /\ Len(u) = Len(s) + 1 /\ u # <<>>
        /\ \A i \in 1 .. Len(s) : u[i] = s[i]
        /\ u[Len(s) + 1] = t
    BY <2>0, AppendProperties
  <2>2. PICK f \in [1 .. Len(u) -> Q] :
           /\ \A i \in 1 .. Len(u) : f[i] = IF i = 1 THEN u[i] ELSE f[i-1] \o u[i]
           /\ FlattenSeq(u) = f[Len(u)]
    BY <2>1, <1>0
  <2>3. CASE s = <<>>
    <3>1. f[1] = t /\ Len(u) = 1
      BY <2>1, <2>2, <2>3
    <3>2. FlattenSeq(u) = t /\ FlattenSeq(s) = <<>>
      BY <2>2, <2>3, <3>1, <1>1
    <3>. QED  BY <2>0, <3>2, <1>4
  <2>4. CASE s # <<>>
    <3>1. PICK g \in [1 .. Len(s) -> Q] :
             /\ \A i \in 1 .. Len(s) : g[i] = IF i = 1 THEN s[i] ELSE g[i-1] \o s[i]
             /\ FlattenSeq(s) = g[Len(s)]
      BY <2>4, <1>0
    <3>5. PICK n \in Nat : n = Len(s) /\ n # 0 /\ Len(u) = n + 1
      BY <2>1, <2>4
    <3>2. \A i \in 1 .. n : f[i] = g[i]
      <4> DEFINE S == {k \in Nat : \A i \in 1 .. n : i <= k => f[i] = g[i]}
      <4>1. 0 \in S
        OBVIOUS
      <4>2. ASSUME NEW k \in Nat, k \in S PROVE k + 1 \in S
        <5> SUFFICES ASSUME NEW i \in 1 .. n, i <= k + 1 PROVE f[i] = g[i]
          OBVIOUS
        <5>1. i # 1 => f[i - 1] = g[i - 1]
          <6>1. i # 1 => i - 1 \in 1 .. n /\ i - 1 <= k
            OBVIOUS
          <6>. QED  BY <4>2, <6>1
        <5>2. i \in 1 .. Len(u) /\ u[i] = s[i]
          BY <2>1, <3>5
        <5>3. f[i] = IF i = 1 THEN u[i] ELSE f[i-1] \o u[i]
          BY <2>2, <5>2
        <5>4. g[i] = IF i = 1 THEN s[i] ELSE g[i-1] \o s[i]
          BY <3>1, <3>5
        <5>. QED  BY <5>1, <5>2, <5>3, <5>4
      <4>3. Nat \subseteq S
        <5> HIDE DEF S
        <5>. QED  BY <4>1, <4>2, SetInduction
      <4>4. n \in S
        BY <4>3
      <4>. QED  BY <4>4
    <3>3. n \in 1 .. n /\ n + 1 \in 1 .. Len(u) /\ n + 1 # 1 /\ (n + 1) - 1 = n
      BY <3>5
    <3>4. f[n + 1] = f[n] \o u[n + 1]
      BY <2>2, <3>3
    <3>6. f[n] = g[n]
      BY <3>2, <3>3
    <3>. QED  BY <2>0, <2>1, <2>2, <3>1, <3>5, <3>6, <3>4
  <2>. QED  BY <2>3, <2>4
<1>. QED  BY <1>1, <1>2, <1>3 DEF Q

\* The bytes of a concatenation: sequence k begins where those before it end.
LEMMA FlattenLayout ==
  ASSUME NEW B, NEW s \in Seq(Seq(B))
  PROVE  \E off \in [0 .. Len(s) -> Nat] :
           /\ off[0] = 0
           /\ off[Len(s)] = Len(FlattenSeq(s))
           /\ \A k \in 1 .. Len(s) :
                /\ off[k] = off[k - 1] + Len(s[k])
                /\ off[k] <= Len(FlattenSeq(s))
                /\ \A j \in 1 .. Len(s[k]) : FlattenSeq(s)[off[k - 1] + j] = s[k][j]
<1> DEFINE Q == Seq(B)
           LaidIn(u, n, f) == \E off \in [0 .. n -> Nat] :
             /\ off[0] = 0
             /\ off[n] = Len(f)
             /\ \A k \in 1 .. n :
                  /\ off[k] = off[k - 1] + Len(u[k])
                  /\ off[k] <= Len(f)
                  /\ \A j \in 1 .. Len(u[k]) : f[off[k - 1] + j] = u[k][j]
           Laid(u) == LaidIn(u, Len(u), FlattenSeq(u))
           S == {n \in Nat : \A u \in Seq(Q) : Len(u) = n => Laid(u)}
<1>1. /\ FlattenSeq(<<>>) = <<>>
      /\ \A u \in Seq(Q) : FlattenSeq(u) \in Q
      /\ \A u \in Seq(Q), t \in Q : FlattenSeq(Append(u, t)) = FlattenSeq(u) \o t
  BY FlattenFacts
<1>2. \A t \in Q : Len(t) \in Nat
  OBVIOUS
<1>3. \A t, u \in Q : /\ Len(t \o u) = Len(t) + Len(u)
                      /\ \A j \in 1 .. Len(t) : (t \o u)[j] = t[j]
                      /\ \A j \in 1 .. Len(u) : (t \o u)[Len(t) + j] = u[j]
  OBVIOUS
<1>4. s \in Seq(Q)
  OBVIOUS
<1>5. ASSUME NEW u \in Seq(Q), Len(u) = 0 PROVE Laid(u)
  <2>1. u = <<>> /\ Len(FlattenSeq(u)) = 0
    BY <1>1, <1>5, EmptySeq
  <2>2. PICK off : off = [k \in 0 .. 0 |-> 0]
    OBVIOUS
  <2>3. off \in [0 .. Len(u) -> Nat] /\ off[0] = 0 /\ off[Len(u)] = 0
    BY <1>5, <2>2
  <2>4. \A k \in 1 .. Len(u) : FALSE
    BY <1>5
  <2>. QED  BY <2>1, <2>3, <2>4
<1>6. ASSUME NEW v \in Seq(Q), NEW t \in Q, Laid(v) PROVE Laid(Append(v, t))
  <2> HIDE DEF Q
  <2>1. PICK n \in Nat : n = Len(v)
    OBVIOUS
  <2>2. PICK u : u = Append(v, t)
    OBVIOUS
  <2>3. PICK fv \in Q : fv = FlattenSeq(v)
    BY <1>1
  <2>4. PICK fu \in Q : fu = FlattenSeq(u) /\ fu = fv \o t
    <3>1. u \in Seq(Q)
      BY <2>2, SeqFacts
    <3>. QED  BY <1>1, <2>2, <2>3, <3>1
  <2>5. PICK lv \in Nat, lt \in Nat : lv = Len(fv) /\ lt = Len(t)
    BY <1>2, <2>3
  <2>6. /\ Len(fu) = lv + lt
        /\ \A j \in 1 .. lv : fu[j] = fv[j]
        /\ \A j \in 1 .. lt : fu[lv + j] = t[j]
    BY <1>3, <2>3, <2>4, <2>5
  <2>7. /\ Len(u) = n + 1 /\ u[n + 1] = t
        /\ \A k \in 1 .. n : u[k] = v[k] /\ v[k] \in Q
    <3>1. \A k \in 1 .. n : v[k] \in Q
      BY <2>1
    <3>. QED  BY <2>1, <2>2, SeqFacts, <3>1
  <2>8. PICK off \in [0 .. n -> Nat] :
             /\ off[0] = 0
             /\ off[n] = lv
             /\ \A k \in 1 .. n :
                  /\ off[k] = off[k - 1] + Len(v[k])
                  /\ off[k] <= lv
                  /\ \A j \in 1 .. Len(v[k]) : fv[off[k - 1] + j] = v[k][j]
    BY <1>6, <2>1, <2>3, <2>5
  <2>9. PICK off2 : off2 = [k \in 0 .. n + 1 |-> IF k <= n THEN off[k] ELSE lv + lt]
    OBVIOUS
  <2>10. off2 \in [0 .. n + 1 -> Nat] /\ off2[0] = 0 /\ off2[n + 1] = lv + lt /\ off2[n] = lv
    BY <2>8, <2>9
  <2>11. ASSUME NEW k \in 1 .. n + 1
         PROVE  /\ off2[k] = off2[k - 1] + Len(u[k])
                /\ off2[k] <= lv + lt
                /\ \A j \in 1 .. Len(u[k]) : fu[off2[k - 1] + j] = u[k][j]
    <3>1. CASE k = n + 1
      <4>1. k - 1 = n /\ off2[k - 1] = lv /\ off2[k] = lv + lt /\ u[k] = t
        BY <2>7, <2>10, <3>1
      <4>2. \A j \in 1 .. lt : fu[lv + j] = t[j]
        BY <2>6
      <4>. QED  BY <2>5, <4>1, <4>2
    <3>2. CASE k \in 1 .. n
      <4>1. off2[k] = off[k] /\ off2[k - 1] = off[k - 1] /\ u[k] = v[k] /\ off[k - 1] \in Nat
            /\ off[k] \in Nat
        BY <2>7, <2>9, <3>2
      <4>2. Len(v[k]) \in Nat
        BY <1>2, <2>7, <3>2
      <4>5. off[k] = off[k - 1] + Len(v[k]) /\ off[k] <= lv
        BY <2>8, <3>2
      <4>3. \A j \in 1 .. Len(v[k]) : off[k - 1] + j \in 1 .. lv
        <5>1. \A a, b, c \in Nat : a = b + c /\ a <= lv => \A j \in 1 .. c : b + j \in 1 .. lv
          OBVIOUS
        <5>. QED  BY <4>1, <4>2, <4>5, <5>1
      <4>4. \A j \in 1 .. Len(v[k]) : fu[off[k - 1] + j] = v[k][j]
        <5>1. \A j \in 1 .. Len(v[k]) : fv[off[k - 1] + j] = v[k][j]
          BY <2>8, <3>2
        <5>. QED  BY <2>6, <4>3, <5>1
      <4>6. off[k] <= lv + lt
        BY <4>1, <4>5
      <4>. QED  BY <4>1, <4>4, <4>5, <4>6
    <3>. QED  BY <3>1, <3>2
  <2>12. Laid(u)
    <3>1. \A k \in 1 .. n + 1 :
            /\ off2[k] = off2[k - 1] + Len(u[k])
            /\ off2[k] <= Len(fu)
            /\ \A j \in 1 .. Len(u[k]) : fu[off2[k - 1] + j] = u[k][j]
      BY <2>6, <2>11
    <3>2. off2[n + 1] = Len(fu)
      BY <2>6, <2>10
    <3>3. LaidIn(u, n + 1, fu)
      BY <2>10, <3>1, <3>2, Zenon
    <3>4. fu = FlattenSeq(u) /\ Len(u) = n + 1
      BY <2>4, <2>7
    <3> HIDE DEF LaidIn
    <3>. QED  BY <3>3, <3>4
  <2>. QED  BY <2>2, <2>12
<1>7. 0 \in S
  BY <1>5
<1>8. ASSUME NEW n \in Nat, n \in S PROVE n + 1 \in S
  <2> HIDE DEF Q, Laid
  <2> SUFFICES ASSUME NEW u \in Seq(Q), Len(u) = n + 1 PROVE Laid(u)
    OBVIOUS
  <2>1. PICK v \in Seq(Q), t \in Q : u = Append(v, t)
    <3>1. u # <<>>
      OBVIOUS
    <3>. QED  BY <3>1, SequenceEmptyOrAppend, Zenon
  <2>2. Len(v) = n
    BY <2>1
  <2>. QED  BY <1>6, <1>8, <2>1, <2>2
<1>9. Nat \subseteq S
  <2> HIDE DEF S
  <2>. QED  BY <1>7, <1>8, SetInduction
<1>10. Len(s) \in S
  <2> HIDE DEF S, Q
  <2>1. Len(s) \in Nat
    BY <1>4
  <2>. QED  BY <1>9, <2>1
<1>11. Laid(s)
  <2> HIDE DEF Laid, Q
  <2>. QED  BY <1>4, <1>10
<1>. QED  BY <1>11

-----------------------------------------------------------------------------
(* Numbers of two digits *)

\* Division with remainder.
LEMMA DivMod ==
  ASSUME NEW m \in Nat \ {0}, NEW v \in Nat
  PROVE  v = m * (v \div m) + (v % m) /\ v \div m \in Nat /\ v % m \in 0 .. m - 1
OBVIOUS

\* The remainder is determined by its range.
LEMMA Remainder ==
  ASSUME NEW m \in Nat \ {0}, NEW q \in Nat, NEW c \in 0 .. m - 1
  PROVE  (m * q + c) % m = c
<1>1. m * q \in Nat
  OBVIOUS
<1>2. PICK v \in Nat : v = m * q + c
  BY <1>1
<1>3. PICK p \in Nat, r \in 0 .. m - 1 : v = m * p + r /\ r = v % m
  BY DivMod
<1>4. \A d \in Nat : d >= 1 => m * d >= m
  OBVIOUS
<1>5. CASE p > q
  <2>1. PICK d \in Nat : p = q + d /\ d >= 1
    BY <1>5
  <2>2. m * p = m * q + m * d /\ m * d >= m
    BY <2>1, <1>4
  <2>. QED  BY <1>1, <1>2, <1>3, <2>2
<1>6. CASE p < q
  <2>1. PICK d \in Nat : q = p + d /\ d >= 1
    BY <1>6
  <2>2. m * q = m * p + m * d /\ m * d >= m /\ m * p \in Nat
    BY <2>1, <1>4
  <2>. QED  BY <1>2, <1>3, <2>2
<1>7. CASE p = q
  <2>1. m * p = m * q
    BY <1>7
  <2>2. v = m * q + r /\ v = m * q + c
    BY <1>2, <1>3, <2>1
  <2>3. \A x \in Nat : v = x + r /\ v = x + c => r = c
    OBVIOUS
  <2>4. r = c
    BY <1>1, <2>2, <2>3
  <2>. QED  BY <1>2, <1>3, <2>4
<1>. QED  BY <1>5, <1>6, <1>7

\* The two low digits of a number make it up, modulo the square of the radix.
LEMMA TwoDigits ==
  ASSUME NEW m \in Nat \ {0}, NEW v \in Nat
  PROVE  /\ (v % m) + m * ((v \div m) % m) = v % (m * m)
         /\ v % (m * m) \in Nat /\ v % (m * m) <= v
         /\ v < m * m => v % (m * m) = v
<1>1. PICK q \in Nat, a \in 0 .. m - 1 : v = m * q + a /\ q = v \div m /\ a = v % m
  BY DivMod
<1>2. PICK p \in Nat, b \in 0 .. m - 1 : q = m * p + b /\ b = q % m
  BY DivMod
<1>3. PICK w \in Nat \ {0} : w = m * m
  <2>1. m * m >= m
    OBVIOUS
  <2>. QED  BY <2>1
<1>4. PICK c \in 0 .. w - 1 : c = a + m * b
  <2>1. m * b \in Nat /\ m * b <= m * (m - 1) /\ m * (m - 1) = m * m - m
    OBVIOUS
  <2>. QED  BY <2>1, <1>3
<1>5. v = w * p + c /\ w * p \in Nat
  <2>1. m * q = m * (m * p) + m * b
    BY <1>2
  <2>2. m * (m * p) = w * p
    BY <1>3
  <2>. QED  BY <1>1, <1>4, <2>1, <2>2
<1>6. v % w = c
  BY <1>5, Remainder
<1>7. v < w => p = 0
  <2>1. p >= 1 => w * p >= w
    OBVIOUS
  <2>. QED  BY <1>5, <2>1
<1>8. (v % m) + m * ((v \div m) % m) = c
  BY <1>1, <1>2, <1>4
<1>9. c \in Nat /\ c <= v /\ (v < w => c = v)
  <2>1. \A x \in Nat : v = x + c => c <= v
    OBVIOUS
  <2>2. p = 0 => w * p = 0
    OBVIOUS
  <2>3. v < w => v = 0 + c
    BY <1>5, <1>7, <2>2
  <2>. QED  BY <1>5, <2>1, <2>3
<1>. QED  BY <1>3, <1>6, <1>8, <1>9
=============================================================================
