--------------------------- MODULE WorkflowProofs ---------------------------
(***************************************************************************)
(* What the workflow graph is of, for ledgers of any length: the fold of   *)
(* the rows agrees with that of the Python tools, names everything that is *)
(* named and counts the trials that failed in a row.  The loops of the     *)
(* fold are recursions along sequences; each is brought to what one more   *)
(* element changes (OnlyAppend, DistinctAppend, StatsAppend), and what     *)
(* holds of all sequences follows by induction along them                  *)
(* (AppendingReaches).  And of its routes: the search goes by the distance *)
(* of the nodes (IsDistance), so that what it has found leads back along a *)
(* shortest walk; its corridor is what lies between the ends.              *)
(***************************************************************************)
EXTENDS WorkflowLedgers, SequenceTheorems, FiniteSetTheorems, WellFoundedInduction, TLAPS

-----------------------------------------------------------------------------
(* The loops of the fold: recursions along a sequence.                     *)

LEMMA LeastOfNat ==
    ASSUME NEW T \in SUBSET Nat, T # {}
    PROVE  \E m \in T : \A k \in T : m <= k
<1> DEFINE R == {ss \in Nat \X Nat : ss[1] < ss[2]}
<1>1. IsWellFoundedOn(R, Nat)
  BY NatLessThanWellFounded DEF OpToRel
<1> HIDE DEF R
<1>2. PICK m \in T : \A y \in T : ~ (<<y, m>> \in R)
  BY <1>1, WFMin
<1>3. \A y \in T : ~(y < m)
  BY <1>2 DEF R
<1> QED BY <1>3

\* Induction along the numbers up to n, of a set of numbers.
LEMMA CountingReaches ==
    ASSUME NEW n \in Nat, NEW T, 0 \in T, \A i \in 1 .. n : i - 1 \in T => i \in T
    PROVE  0 .. n \subseteq T
<1> DEFINE R == {i \in 0 .. n : i \notin T}
<1>1. SUFFICES ASSUME R # {} PROVE FALSE
  OBVIOUS
<1>2. R \in SUBSET Nat
  OBVIOUS
<1>3. PICK m \in R : \A k \in R : m <= k
  <2> HIDE DEF R
  <2> QED BY <1>1, <1>2, LeastOfNat
<1>4. m \in 1 .. n /\ m \notin T
  <2>1. m \in 0 .. n /\ m \notin T
    OBVIOUS
  <2> QED BY <2>1
<1>5. m - 1 \in T
  <2>1. m - 1 \in 0 .. n
    BY <1>4
  <2>2. m - 1 \in R => m <= m - 1
    BY <1>3
  <2> QED BY <1>4, <2>1, <2>2
<1> QED BY <1>4, <1>5

\* What solves a recursion along the numbers up to n; something does.
Solutions(S, start, n, G) ==
    {h \in [0 .. n -> S] : h[0] = start /\ \A i \in 1 .. n : h[i] = G[<<i, h[i - 1]>>]}

LEMMA RecursionHas ==
    ASSUME NEW S, NEW start \in S, NEW n \in Nat, NEW G \in [(1 .. n) \X S -> S]
    PROVE  Solutions(S, start, n, G) # {}
<1> DEFINE Solves(h, m) == h \in [0 .. m -> S] /\ h[0] = start /\ \A i \in 1 .. m : h[i] = G[<<i, h[i - 1]>>]
           T == {m \in 0 .. n : \E h : Solves(h, m)}
<1>1. 0 \in T
  <2> DEFINE h == [i \in 0 .. 0 |-> start]
  <2>1. Solves(h, 0)
    OBVIOUS
  <2> HIDE DEF Solves
  <2> QED BY <2>1
<1>2. ASSUME NEW m \in 1 .. n, m - 1 \in T PROVE m \in T
  <2>1. PICK g : Solves(g, m - 1)
    BY <1>2
  <2> DEFINE h == [i \in 0 .. m |-> IF i = m THEN G[<<m, g[m - 1]>>] ELSE g[i]]
  <2>2. m \in Nat /\ m # 0 /\ m - 1 \in 0 .. m - 1
    OBVIOUS
  <2>3. \A i \in 0 .. m - 1 : h[i] = g[i] /\ g[i] \in S
    BY <2>1, <2>2
  <2>4. h[m] = G[<<m, h[m - 1]>>] /\ h[m] \in S
    <3>1. h[m - 1] = g[m - 1] /\ g[m - 1] \in S
      BY <2>2, <2>3
    <3>2. h[m] = G[<<m, g[m - 1]>>]
      BY <2>2
    <3> HIDE DEF h
    <3>3. <<m, g[m - 1]>> \in (1 .. n) \X S
      BY <3>1
    <3> QED BY <3>1, <3>2, <3>3
  <2>5. h \in [0 .. m -> S]
    <3>1. \A i \in 0 .. m : i = m \/ i \in 0 .. m - 1
      BY <2>2
    <3>2. \A i \in 0 .. m : h[i] \in S
      BY <2>3, <2>4, <3>1
    <3>3. h = [i \in 0 .. m |-> h[i]]
      OBVIOUS
    <3> HIDE DEF h
    <3> QED BY <3>2, <3>3
  <2>6. h[0] = start
    BY <2>1, <2>2, <2>3
  <2>7. \A i \in 1 .. m : h[i] = G[<<i, h[i - 1]>>]
    <3> SUFFICES ASSUME NEW i \in 1 .. m PROVE h[i] = G[<<i, h[i - 1]>>]
      OBVIOUS
    <3>1. CASE i = m
      <4> HIDE DEF h
      <4> QED BY <2>4, <3>1
    <3>2. CASE i # m
      <4>1. i \in 1 .. m - 1 /\ i \in 0 .. m - 1 /\ i - 1 \in 0 .. m - 1
        BY <2>2, <3>2
      <4>2. g[i] = G[<<i, g[i - 1]>>]
        BY <2>1, <4>1
      <4> HIDE DEF h
      <4> QED BY <2>3, <4>1, <4>2
    <3> QED BY <3>1, <3>2
  <2>8. Solves(h, m)
    <3> HIDE DEF h
    <3> QED BY <2>5, <2>6, <2>7
  <2> HIDE DEF Solves, h
  <2> QED BY <2>2, <2>8
<1>3. n \in T
  <2> HIDE DEF T
  <2>1. 0 .. n \subseteq T /\ n \in 0 .. n
    BY <1>1, <1>2, CountingReaches
  <2> QED BY <2>1
<1> QED BY <1>3 DEF Solutions

\* Induction along a sequence, of a set of sequences.
LEMMA AppendingReaches ==
    ASSUME NEW A, NEW T, <<>> \in T, \A s \in T \cap Seq(A), x \in A : Append(s, x) \in T
    PROVE  Seq(A) \subseteq T
<1> SUFFICES ASSUME NEW s \in Seq(A) PROVE s \in T
  OBVIOUS
<1> DEFINE begun == [i \in 0 .. Len(s) |-> SubSeq(s, 1, i)]
           P     == {i \in 0 .. Len(s) : begun[i] \in T}
<1>1. Len(s) \in Nat
  OBVIOUS
<1>2. begun[0] = <<>> /\ begun[Len(s)] = s
  <2>1. SubSeq(s, 1, 0) = <<>> /\ SubSeq(s, 1, Len(s)) = s
    OBVIOUS
  <2>2. 0 \in 0 .. Len(s) /\ Len(s) \in 0 .. Len(s)
    BY <1>1
  <2> QED BY <2>1, <2>2, Zenon
<1>3. ASSUME NEW i \in 1 .. Len(s)
      PROVE  /\ i \in 0 .. Len(s) /\ i - 1 \in 0 .. Len(s)
             /\ begun[i - 1] \in Seq(A) /\ s[i] \in A
             /\ begun[i] = Append(begun[i - 1], s[i])
  <2>1. SubSeq(s, 1, i - 1) \in Seq(A) /\ s[i] \in A
    OBVIOUS
  <2>2. SubSeq(s, 1, i) = Append(SubSeq(s, 1, i - 1), s[i])
    BY <1>1
  <2>3. i \in 0 .. Len(s) /\ i - 1 \in 0 .. Len(s)
    BY <1>1
  <2>4. begun[i] = SubSeq(s, 1, i) /\ begun[i - 1] = SubSeq(s, 1, i - 1)
    BY <2>3, Zenon
  <2> HIDE DEF begun
  <2> QED BY <2>1, <2>2, <2>3, <2>4, Zenon
<1> HIDE DEF begun
<1>4. 0 \in P
  BY <1>1, <1>2
<1>5. ASSUME NEW i \in 1 .. Len(s), i - 1 \in P PROVE i \in P
  BY <1>3, <1>5
<1>6. Len(s) \in P
  <2> HIDE DEF P
  <2>1. 0 .. Len(s) \subseteq P
    BY <1>1, <1>4, <1>5, CountingReaches
  <2>2. Len(s) \in 0 .. Len(s)
    BY <1>1
  <2> QED BY <2>1, <2>2
<1> QED BY <1>2, <1>6

\* Only, from one element to the next.
LEMMA KeepingIs ==
    ASSUME NEW A, NEW s \in Seq(A), NEW x \in A, NEW S
    PROVE  Keeping(s, x, S) \in Seq(A)
BY DEF Keeping

KeptFrom(A, s, S) ==
    {h \in [0 .. Len(s) -> Seq(A)] :
        /\ h[0] = <<>> /\ Only(s, S) = h[Len(s)]
        /\ \A i \in 1 .. Len(s) : h[i] = Keeping(h[i - 1], s[i], S)}

LEMMA OnlyIs ==
    ASSUME NEW A, NEW s \in Seq(A), NEW S
    PROVE  KeptFrom(A, s, S) # {}
<1> DEFINE n == Len(s)
           none == <<>>
           L == Seq(A)
           G == [p \in (1 .. n) \X L |-> Keeping(p[2], s[p[1]], S)]
           Kept(f) == f = [i \in 0 .. n |-> IF i = 0 THEN none ELSE Keeping(f[i - 1], s[i], S)]
<1>1. n \in Nat /\ none \in L /\ \A i \in 1 .. n : s[i] \in A
  OBVIOUS
<1>2. G \in [(1 .. n) \X L -> L]
  <2>1. \A p \in (1 .. n) \X L : Keeping(p[2], s[p[1]], S) \in L
    BY <1>1, KeepingIs
  <2> QED BY <2>1
<1>3. \A i \in 1 .. n, l \in L : G[<<i, l>>] = Keeping(l, s[i], S)
  <2> SUFFICES ASSUME NEW i \in 1 .. n, NEW l \in L PROVE G[<<i, l>>] = Keeping(l, s[i], S)
    OBVIOUS
  <2>1. <<i, l>> \in (1 .. n) \X L
    OBVIOUS
  <2> HIDE DEF L, n
  <2> QED BY <2>1
<1>4. Only(s, S) = (CHOOSE f : Kept(f))[n]
  BY DEF Only
<1> HIDE DEF n, none, L, G
<1>5. PICK h \in [0 .. n -> L] : h[0] = none /\ \A i \in 1 .. n : h[i] = G[<<i, h[i - 1]>>]
  <2>1. Solutions(L, none, n, G) # {}
    <3> HIDE DEF Kept
    <3> QED BY <1>1, <1>2, RecursionHas, Zenon
  <2> HIDE DEF Kept
  <2> QED BY <2>1 DEF Solutions
<1>6. \A i \in 1 .. n : i - 1 \in 0 .. n /\ h[i] = Keeping(h[i - 1], s[i], S)
  <2>1. \A i \in 1 .. n : i - 1 \in 0 .. n
    BY <1>1
  <2> QED BY <1>3, <1>5, <2>1
<1>7. Kept(h)
  BY <1>1, <1>5, <1>6
<1> DEFINE k == CHOOSE f : Kept(f)
<1>8. Kept(k)
  <2> HIDE DEF Kept
  <2> QED BY <1>7
<1>9. Only(s, S) = k[n]
  BY <1>4
<1> HIDE DEF k
<1>10. k[0] = none /\ \A i \in 1 .. n : k[i] = Keeping(k[i - 1], s[i], S)
  <2>1. 0 \in 0 .. n /\ \A i \in 1 .. n : i \in 0 .. n /\ i # 0
    BY <1>1
  <2> QED BY <1>8, <2>1
<1>11. k \in [0 .. n -> L]
  <2> DEFINE T == {i \in 0 .. n : k[i] \in L}
  <2>1. 0 \in T
    BY <1>1, <1>10
  <2>2. ASSUME NEW i \in 1 .. n, i - 1 \in T PROVE i \in T
    <3>1. Keeping(k[i - 1], s[i], S) \in L
      BY <1>1, <2>2, KeepingIs DEF L
    <3> QED BY <1>1, <1>10, <3>1
  <2>3. 0 .. n \subseteq T
    <3> HIDE DEF T
    <3> QED BY <1>1, <2>1, <2>2, CountingReaches
  <2>4. k = [i \in 0 .. n |-> k[i]]
    BY <1>8
  <2> QED BY <2>3, <2>4
<1> HIDE DEF Kept
<1> QED BY <1>9, <1>10, <1>11 DEF n, L, none, KeptFrom

LEMMA OnlyNone == ASSUME NEW S PROVE Only(<<>>, S) = <<>>
<1>1. <<>> \in Seq({}) /\ Len(<<>>) = 0
  OBVIOUS
<1> DEFINE none == <<>>
<1>2. KeptFrom({}, none, S) # {}
  <2>1. none \in Seq({})
    BY <1>1
  <2> HIDE DEF none
  <2> QED BY <2>1, OnlyIs, Zenon
<1> QED BY <1>1, <1>2 DEF KeptFrom

LEMMA OnlyAppend ==
    ASSUME NEW A, NEW s \in Seq(A), NEW x \in A, NEW S
    PROVE  Only(Append(s, x), S) = Keeping(Only(s, S), x, S)
<1> DEFINE n == Len(s)
           t == Append(s, x)
<1>1. /\ n \in Nat /\ t \in Seq(A) /\ Len(t) = n + 1 /\ t[n + 1] = x
      /\ \A i \in 1 .. n : t[i] = s[i]
  OBVIOUS
<1> HIDE DEF t
<1>2. PICK h \in [0 .. n -> Seq(A)] :
         /\ h[0] = <<>> /\ Only(s, S) = h[n]
         /\ \A i \in 1 .. n : h[i] = Keeping(h[i - 1], s[i], S)
  <2>1. KeptFrom(A, s, S) # {}
    BY OnlyIs, Zenon
  <2> QED BY <2>1 DEF KeptFrom
<1>3. PICK k \in [0 .. n + 1 -> Seq(A)] :
         /\ k[0] = <<>> /\ Only(t, S) = k[n + 1]
         /\ \A i \in 1 .. n + 1 : k[i] = Keeping(k[i - 1], t[i], S)
  <2>1. KeptFrom(A, t, S) # {}
    BY <1>1, OnlyIs, Zenon
  <2> QED BY <1>1, <2>1 DEF KeptFrom
<1> HIDE DEF n
<1>4. h[n] = k[n]
  <2> DEFINE T == {i \in 0 .. n : h[i] = k[i]}
  <2>1. 0 \in T
    BY <1>1, <1>2, <1>3
  <2>2. ASSUME NEW i \in 1 .. n, i - 1 \in T PROVE i \in T
    <3>1. i \in 1 .. n + 1 /\ i \in 0 .. n /\ t[i] = s[i]
      BY <1>1
    <3>2. h[i] = Keeping(h[i - 1], s[i], S) /\ k[i] = Keeping(k[i - 1], t[i], S)
      BY <1>2, <1>3, <3>1
    <3> QED BY <2>2, <3>1, <3>2
  <2>3. 0 .. n \subseteq T
    <3> HIDE DEF T
    <3> QED BY <1>1, <2>1, <2>2, CountingReaches
  <2>4. n \in 0 .. n
    BY <1>1
  <2> QED BY <2>3, <2>4
<1>5. n + 1 \in 1 .. n + 1 /\ n + 1 - 1 = n
  BY <1>1
<1>6. k[n + 1] = Keeping(k[n], x, S)
  BY <1>1, <1>3, <1>5
<1>7. Only(t, S) = Keeping(Only(s, S), x, S)
  BY <1>2, <1>3, <1>4, <1>6
<1> QED BY <1>7 DEF t

\* The elements of a sequence and of what is appended to it.
LEMMA ElementsAre ==
    ASSUME NEW A, NEW s \in Seq(A)
    PROVE  /\ ToSet(s) \subseteq A /\ ToSet(<<>>) = {}
           /\ \A x \in A : ToSet(Append(s, x)) = ToSet(s) \cup {x}
           /\ \A t \in Seq(A) : ToSet(s \o t) = ToSet(s) \cup ToSet(t)
           /\ \A x : Contains(s, x) <=> x \in ToSet(s)
<1>1. ToSet(s) \subseteq A /\ ToSet(<<>>) = {}
  BY DEF ToSet
<1>2. ASSUME NEW x \in A PROVE ToSet(Append(s, x)) = ToSet(s) \cup {x}
  <2>1. /\ DOMAIN Append(s, x) = DOMAIN s \cup {Len(s) + 1}
        /\ Append(s, x)[Len(s) + 1] = x
        /\ \A i \in DOMAIN s : Append(s, x)[i] = s[i]
    OBVIOUS
  <2> QED BY <2>1 DEF ToSet
<1>3. ASSUME NEW t \in Seq(A) PROVE ToSet(s \o t) = ToSet(s) \cup ToSet(t)
  <2>1. /\ DOMAIN (s \o t) = 1 .. Len(s) + Len(t) /\ DOMAIN s = 1 .. Len(s) /\ DOMAIN t = 1 .. Len(t)
        /\ Len(s) \in Nat /\ Len(t) \in Nat
        /\ \A i \in 1 .. Len(s) : (s \o t)[i] = s[i]
        /\ \A i \in 1 .. Len(t) : (s \o t)[Len(s) + i] = t[i]
    OBVIOUS
  <2> DEFINE u == s \o t
  <2> HIDE DEF u
  <2>2. \A i \in 1 .. Len(s) + Len(t) : i \in 1 .. Len(s) \/ \E j \in 1 .. Len(t) : i = Len(s) + j
    <3> SUFFICES ASSUME NEW i \in 1 .. Len(s) + Len(t), i \notin 1 .. Len(s)
                 PROVE  \E j \in 1 .. Len(t) : i = Len(s) + j
      OBVIOUS
    <3>1. i - Len(s) \in 1 .. Len(t) /\ i = Len(s) + (i - Len(s))
      BY <2>1
    <3> QED BY <3>1
  <2>3. \A j \in 1 .. Len(t) : Len(s) + j \in 1 .. Len(s) + Len(t)
    BY <2>1
  <2>4. \A i \in 1 .. Len(s) : i \in 1 .. Len(s) + Len(t)
    BY <2>1
  <2>5. \A i \in DOMAIN u : u[i] \in ToSet(s) \cup ToSet(t)
    BY <2>1, <2>2 DEF u, ToSet
  <2>6. \A i \in DOMAIN s : s[i] \in ToSet(u)
    BY <2>1, <2>4 DEF u, ToSet
  <2>7. \A i \in DOMAIN t : t[i] \in ToSet(u)
    <3> SUFFICES ASSUME NEW i \in DOMAIN t PROVE t[i] \in ToSet(u)
      OBVIOUS
    <3>1. Len(s) + i \in DOMAIN u /\ u[Len(s) + i] = t[i]
      BY <2>1, <2>3 DEF u
    <3> QED BY <3>1 DEF ToSet
  <2>8. ToSet(u) = ToSet(s) \cup ToSet(t)
    BY <2>5, <2>6, <2>7 DEF ToSet
  <2> QED BY <2>8 DEF u
<1>4. \A x : Contains(s, x) <=> x \in ToSet(s)
  BY DEF Contains, ToSet
<1> QED BY <1>1, <1>2, <1>3, <1>4

LEMMA OnlyTypes ==
    ASSUME NEW A, NEW s \in Seq(A), NEW S
    PROVE  Only(s, S) \in Seq(A) /\ ToSet(Only(s, S)) = ToSet(s) \cap S
<1> DEFINE T == {t \in Seq(A) : Only(t, S) \in Seq(A) /\ ToSet(Only(t, S)) = ToSet(t) \cap S}
<1>1. <<>> \in T
  <2>1. <<>> \in Seq(A) /\ ToSet(<<>>) = {}
    BY ElementsAre
  <2> QED BY <2>1, OnlyNone
<1>2. ASSUME NEW t \in T \cap Seq(A), NEW x \in A PROVE Append(t, x) \in T
  <2> DEFINE o == Only(t, S)
             u == Append(t, x)
  <2>1. t \in Seq(A) /\ o \in Seq(A) /\ ToSet(o) = ToSet(t) \cap S /\ u \in Seq(A)
    OBVIOUS
  <2>2. Only(u, S) = Keeping(o, x, S)
    BY OnlyAppend
  <2>3. ToSet(u) = ToSet(t) \cup {x} /\ ToSet(Append(o, x)) = ToSet(o) \cup {x} /\ Append(o, x) \in Seq(A)
    <3> HIDE DEF o
    <3> QED BY <2>1, ElementsAre DEF u
  <2> HIDE DEF o, u
  <2>4. Only(u, S) \in Seq(A) /\ ToSet(Only(u, S)) = ToSet(u) \cap S
    BY <2>1, <2>2, <2>3 DEF Keeping
  <2> QED BY <2>1, <2>4 DEF u
<1>3. Seq(A) \subseteq T
  <2> HIDE DEF T
  <2> QED BY <1>1, <1>2, AppendingReaches
<1> QED BY <1>3

\* Where the same elements of a sequence are in two sets, the same are left.
LEMMA OnlySame ==
    ASSUME NEW A, NEW s \in Seq(A), NEW S, NEW R, \A x \in ToSet(s) : x \in S <=> x \in R
    PROVE  Only(s, S) = Only(s, R)
<1> DEFINE T == {t \in Seq(A) : (\A x \in ToSet(t) : x \in S <=> x \in R) => Only(t, S) = Only(t, R)}
<1>1. <<>> \in T
  BY OnlyNone
<1>2. ASSUME NEW t \in T \cap Seq(A), NEW x \in A PROVE Append(t, x) \in T
  <2> DEFINE u == Append(t, x)
  <2>1. ToSet(u) = ToSet(t) \cup {x} /\ u \in Seq(A)
    BY ElementsAre
  <2>2. Only(u, S) = Keeping(Only(t, S), x, S) /\ Only(u, R) = Keeping(Only(t, R), x, R)
    BY OnlyAppend
  <2> HIDE DEF u
  <2>3. ASSUME \A y \in ToSet(u) : y \in S <=> y \in R PROVE Only(u, S) = Only(u, R)
    <3>1. Only(t, S) = Only(t, R) /\ (x \in S <=> x \in R)
      BY <1>2, <2>1, <2>3
    <3> QED BY <2>2, <3>1 DEF Keeping
  <2>4. u \in T
    BY <2>1, <2>3
  <2> QED BY <2>4 DEF u
<1>3. Seq(A) \subseteq T
  <2> HIDE DEF T
  <2> QED BY <1>1, <1>2, AppendingReaches
<1> QED BY <1>3

LEMMA OnlyAll ==
    ASSUME NEW A, NEW s \in Seq(A), NEW S, ToSet(s) \subseteq S
    PROVE  Only(s, S) = s
<1> DEFINE T == {t \in Seq(A) : ToSet(t) \subseteq S => Only(t, S) = t}
<1>1. <<>> \in T
  BY OnlyNone
<1>2. ASSUME NEW t \in T \cap Seq(A), NEW x \in A PROVE Append(t, x) \in T
  <2>1. ToSet(Append(t, x)) = ToSet(t) \cup {x} /\ Append(t, x) \in Seq(A)
    BY ElementsAre
  <2>2. Only(Append(t, x), S) = Keeping(Only(t, S), x, S)
    BY OnlyAppend
  <2> QED BY <2>1, <2>2 DEF Keeping
<1>3. Seq(A) \subseteq T
  <2> HIDE DEF T
  <2> QED BY <1>1, <1>2, AppendingReaches
<1> QED BY <1>3

LEMMA OnlyOnly ==
    ASSUME NEW A, NEW s \in Seq(A), NEW S, NEW R
    PROVE  Only(Only(s, S), R) = Only(s, S \cap R)
<1> DEFINE T == {t \in Seq(A) : Only(Only(t, S), R) = Only(t, S \cap R)}
<1>1. <<>> \in T
  BY OnlyNone
<1>2. ASSUME NEW t \in T \cap Seq(A), NEW x \in A PROVE Append(t, x) \in T
  <2> DEFINE o == Only(t, S)
             u == Append(t, x)
  <2>1. t \in Seq(A) /\ o \in Seq(A) /\ u \in Seq(A) /\ Only(o, R) = Only(t, S \cap R)
    BY OnlyTypes
  <2>2. Only(u, S) = Keeping(o, x, S) /\ Only(u, S \cap R) = Keeping(Only(t, S \cap R), x, S \cap R)
    BY OnlyAppend
  <2> HIDE DEF o, u
  <2>3. Only(Append(o, x), R) = Keeping(Only(o, R), x, R)
    BY <2>1, OnlyAppend
  <2>4. Only(Only(u, S), R) = Only(u, S \cap R)
    <3>1. CASE x \in S
      <4>1. Only(u, S) = Append(o, x)
        BY <2>2, <3>1 DEF Keeping
      <4>2. Keeping(Only(o, R), x, R) = Keeping(Only(t, S \cap R), x, S \cap R)
        BY <2>1, <3>1 DEF Keeping
      <4> QED BY <2>2, <2>3, <4>1, <4>2
    <3>2. CASE x \notin S
      BY <2>1, <2>2, <3>2 DEF Keeping
    <3> QED BY <3>1, <3>2
  <2> QED BY <2>1, <2>4 DEF u
<1>3. Seq(A) \subseteq T
  <2> HIDE DEF T
  <2> QED BY <1>1, <1>2, AppendingReaches
<1> QED BY <1>3

\* Distinct, from one element to the next.
LEMMA ListingIs ==
    ASSUME NEW A, NEW s \in Seq(A), NEW x \in A
    PROVE  /\ Listing(s, x) \in Seq(A) /\ ToSet(Listing(s, x)) = ToSet(s) \cup {x}
           /\ x \in ToSet(s) => Listing(s, x) = s
           /\ x \notin ToSet(s) => Listing(s, x) = Append(s, x)
<1>1. Contains(s, x) <=> x \in ToSet(s)
  BY ElementsAre
<1>2. ToSet(Append(s, x)) = ToSet(s) \cup {x}
  BY ElementsAre
<1> QED BY <1>1, <1>2 DEF Listing

ListedFrom(A, s) ==
    {h \in [0 .. Len(s) -> Seq(A)] :
        /\ h[0] = <<>> /\ Distinct(s) = h[Len(s)]
        /\ \A i \in 1 .. Len(s) : h[i] = Listing(h[i - 1], s[i])}

LEMMA DistinctIs ==
    ASSUME NEW A, NEW s \in Seq(A)
    PROVE  ListedFrom(A, s) # {}
<1> DEFINE n == Len(s)
           none == <<>>
           L == Seq(A)
           G == [p \in (1 .. n) \X L |-> Listing(p[2], s[p[1]])]
           Kept(f) == f = [i \in 0 .. n |-> IF i = 0 THEN none ELSE Listing(f[i - 1], s[i])]
<1>1. n \in Nat /\ none \in L /\ \A i \in 1 .. n : s[i] \in A
  OBVIOUS
<1>2. G \in [(1 .. n) \X L -> L]
  <2>1. \A p \in (1 .. n) \X L : Listing(p[2], s[p[1]]) \in L
    BY <1>1, ListingIs
  <2> QED BY <2>1
<1>3. \A i \in 1 .. n, l \in L : G[<<i, l>>] = Listing(l, s[i])
  <2> SUFFICES ASSUME NEW i \in 1 .. n, NEW l \in L PROVE G[<<i, l>>] = Listing(l, s[i])
    OBVIOUS
  <2>1. <<i, l>> \in (1 .. n) \X L
    OBVIOUS
  <2> HIDE DEF L, n
  <2> QED BY <2>1
<1>4. Distinct(s) = (CHOOSE f : Kept(f))[n]
  BY DEF Distinct
<1> HIDE DEF n, none, L, G
<1>5. PICK h \in [0 .. n -> L] : h[0] = none /\ \A i \in 1 .. n : h[i] = G[<<i, h[i - 1]>>]
  <2>1. Solutions(L, none, n, G) # {}
    <3> HIDE DEF Kept
    <3> QED BY <1>1, <1>2, RecursionHas, Zenon
  <2> HIDE DEF Kept
  <2> QED BY <2>1 DEF Solutions
<1>6. \A i \in 1 .. n : i - 1 \in 0 .. n /\ h[i] = Listing(h[i - 1], s[i])
  <2>1. \A i \in 1 .. n : i - 1 \in 0 .. n
    BY <1>1
  <2> QED BY <1>3, <1>5, <2>1
<1>7. Kept(h)
  BY <1>1, <1>5, <1>6
<1> DEFINE k == CHOOSE f : Kept(f)
<1>8. Kept(k)
  <2> HIDE DEF Kept
  <2> QED BY <1>7
<1>9. Distinct(s) = k[n]
  BY <1>4
<1> HIDE DEF k
<1>10. k[0] = none /\ \A i \in 1 .. n : k[i] = Listing(k[i - 1], s[i])
  <2>1. 0 \in 0 .. n /\ \A i \in 1 .. n : i \in 0 .. n /\ i # 0
    BY <1>1
  <2> QED BY <1>8, <2>1
<1>11. k \in [0 .. n -> L]
  <2> DEFINE T == {i \in 0 .. n : k[i] \in L}
  <2>1. 0 \in T
    BY <1>1, <1>10
  <2>2. ASSUME NEW i \in 1 .. n, i - 1 \in T PROVE i \in T
    <3>1. Listing(k[i - 1], s[i]) \in L
      BY <1>1, <2>2, ListingIs DEF L
    <3> QED BY <1>1, <1>10, <3>1
  <2>3. 0 .. n \subseteq T
    <3> HIDE DEF T
    <3> QED BY <1>1, <2>1, <2>2, CountingReaches
  <2>4. k = [i \in 0 .. n |-> k[i]]
    BY <1>8
  <2> QED BY <2>3, <2>4
<1> HIDE DEF Kept
<1> QED BY <1>9, <1>10, <1>11 DEF n, L, none, ListedFrom

LEMMA DistinctNone == Distinct(<<>>) = <<>>
<1>1. <<>> \in Seq({}) /\ Len(<<>>) = 0
  OBVIOUS
<1> DEFINE none == <<>>
<1>2. ListedFrom({}, none) # {}
  <2>1. none \in Seq({})
    BY <1>1
  <2> HIDE DEF none
  <2> QED BY <2>1, DistinctIs, Zenon
<1> QED BY <1>1, <1>2 DEF ListedFrom

LEMMA DistinctAppend ==
    ASSUME NEW A, NEW s \in Seq(A), NEW x \in A
    PROVE  Distinct(Append(s, x)) = Listing(Distinct(s), x)
<1> DEFINE n == Len(s)
           t == Append(s, x)
<1>1. /\ n \in Nat /\ t \in Seq(A) /\ Len(t) = n + 1 /\ t[n + 1] = x
      /\ \A i \in 1 .. n : t[i] = s[i]
  OBVIOUS
<1> HIDE DEF t
<1>2. PICK h \in [0 .. n -> Seq(A)] :
         /\ h[0] = <<>> /\ Distinct(s) = h[n]
         /\ \A i \in 1 .. n : h[i] = Listing(h[i - 1], s[i])
  <2>1. ListedFrom(A, s) # {}
    BY DistinctIs, Zenon
  <2> QED BY <2>1 DEF ListedFrom
<1>3. PICK k \in [0 .. n + 1 -> Seq(A)] :
         /\ k[0] = <<>> /\ Distinct(t) = k[n + 1]
         /\ \A i \in 1 .. n + 1 : k[i] = Listing(k[i - 1], t[i])
  <2>1. ListedFrom(A, t) # {}
    BY <1>1, DistinctIs, Zenon
  <2> QED BY <1>1, <2>1 DEF ListedFrom
<1> HIDE DEF n
<1>4. h[n] = k[n]
  <2> DEFINE T == {i \in 0 .. n : h[i] = k[i]}
  <2>1. 0 \in T
    BY <1>1, <1>2, <1>3
  <2>2. ASSUME NEW i \in 1 .. n, i - 1 \in T PROVE i \in T
    <3>1. i \in 1 .. n + 1 /\ i \in 0 .. n /\ t[i] = s[i]
      BY <1>1
    <3>2. h[i] = Listing(h[i - 1], s[i]) /\ k[i] = Listing(k[i - 1], t[i])
      BY <1>2, <1>3, <3>1
    <3> QED BY <2>2, <3>1, <3>2
  <2>3. 0 .. n \subseteq T
    <3> HIDE DEF T
    <3> QED BY <1>1, <2>1, <2>2, CountingReaches
  <2>4. n \in 0 .. n
    BY <1>1
  <2> QED BY <2>3, <2>4
<1>5. n + 1 \in 1 .. n + 1 /\ n + 1 - 1 = n
  BY <1>1
<1>6. k[n + 1] = Listing(k[n], x)
  BY <1>1, <1>3, <1>5
<1>7. Distinct(t) = Listing(Distinct(s), x)
  BY <1>2, <1>3, <1>4, <1>6
<1> QED BY <1>7 DEF t

LEMMA DistinctTypes ==
    ASSUME NEW A, NEW s \in Seq(A)
    PROVE  Distinct(s) \in Seq(A) /\ ToSet(Distinct(s)) = ToSet(s)
<1> DEFINE T == {t \in Seq(A) : Distinct(t) \in Seq(A) /\ ToSet(Distinct(t)) = ToSet(t)}
<1>1. <<>> \in T
  <2>1. <<>> \in Seq(A) /\ ToSet(<<>>) = {}
    BY ElementsAre
  <2> QED BY <2>1, DistinctNone
<1>2. ASSUME NEW t \in T \cap Seq(A), NEW x \in A PROVE Append(t, x) \in T
  <2> DEFINE o == Distinct(t)
             u == Append(t, x)
  <2>1. t \in Seq(A) /\ o \in Seq(A) /\ ToSet(o) = ToSet(t) /\ u \in Seq(A)
    OBVIOUS
  <2>2. Distinct(u) = Listing(o, x)
    BY DistinctAppend
  <2>3. ToSet(u) = ToSet(t) \cup {x}
    BY ElementsAre
  <2> HIDE DEF o, u
  <2>4. Listing(o, x) \in Seq(A) /\ ToSet(Listing(o, x)) = ToSet(o) \cup {x}
    BY <2>1, ListingIs
  <2> QED BY <2>1, <2>2, <2>3, <2>4 DEF u
<1>3. Seq(A) \subseteq T
  <2> HIDE DEF T
  <2> QED BY <1>1, <1>2, AppendingReaches
<1> QED BY <1>3

\* Appending t leaves alone what is listed of s, and what is in S with it.
LEMMA DistinctJoined ==
    ASSUME NEW A, NEW s \in Seq(A), NEW t \in Seq(A), NEW S, S \subseteq ToSet(s)
    PROVE  Only(Distinct(s \o t), S) = Only(Distinct(s), S)
<1> DEFINE T == {u \in Seq(A) : Only(Distinct(s \o u), S) = Only(Distinct(s), S)}
<1>1. <<>> \in T
  <2>1. s \o <<>> = s
    OBVIOUS
  <2> QED BY <2>1
<1>2. ASSUME NEW u \in T \cap Seq(A), NEW x \in A PROVE Append(u, x) \in T
  <2> DEFINE v == s \o u
             d == Distinct(v)
  <2>1. s \o Append(u, x) = Append(v, x) /\ v \in Seq(A) /\ u \in Seq(A) /\ Append(u, x) \in Seq(A)
    OBVIOUS
  <2>2. Only(d, S) = Only(Distinct(s), S)
    OBVIOUS
  <2>3. ToSet(v) = ToSet(s) \cup ToSet(u)
    BY ElementsAre
  <2> HIDE DEF v
  <2>4. d \in Seq(A) /\ ToSet(d) = ToSet(v) /\ Distinct(Append(v, x)) = Listing(d, x)
    BY <2>1, DistinctTypes, DistinctAppend
  <2> HIDE DEF d
  <2>5. Only(Listing(d, x), S) = Only(d, S)
    <3>1. CASE x \in ToSet(d)
      BY <2>4, <3>1, ListingIs
    <3>2. CASE x \notin ToSet(d)
      <4>1. x \notin S
        BY <2>3, <2>4, <3>2
      <4>2. Listing(d, x) = Append(d, x)
        BY <2>4, <3>2, ListingIs
      <4>3. Only(Append(d, x), S) = Keeping(Only(d, S), x, S)
        BY <2>4, OnlyAppend
      <4> QED BY <4>1, <4>2, <4>3 DEF Keeping
    <3> QED BY <3>1, <3>2
  <2> QED BY <2>1, <2>2, <2>4, <2>5
<1>3. Seq(A) \subseteq T
  <2> HIDE DEF T
  <2> QED BY <1>1, <1>2, AppendingReaches
<1> QED BY <1>3

LEMMA DistinctTwice ==
    ASSUME NEW A, NEW s \in Seq(A)
    PROVE  Distinct(Distinct(s)) = Distinct(s)
<1> DEFINE T == {t \in Seq(A) : Distinct(Distinct(t)) = Distinct(t)}
<1>1. <<>> \in T
  BY DistinctNone
<1>2. ASSUME NEW t \in T \cap Seq(A), NEW x \in A PROVE Append(t, x) \in T
  <2> DEFINE d == Distinct(t)
  <2>1. t \in Seq(A) /\ Append(t, x) \in Seq(A) /\ Distinct(d) = d
    OBVIOUS
  <2>2. d \in Seq(A) /\ Distinct(Append(t, x)) = Listing(d, x)
    BY <2>1, DistinctTypes, DistinctAppend
  <2> HIDE DEF d
  <2>3. Distinct(Listing(d, x)) = Listing(d, x)
    <3>1. CASE x \in ToSet(d)
      BY <2>1, <2>2, <3>1, ListingIs
    <3>2. CASE x \notin ToSet(d)
      <4>1. Listing(d, x) = Append(d, x)
        BY <2>2, <3>2, ListingIs
      <4>2. Distinct(Append(d, x)) = Listing(Distinct(d), x)
        BY <2>2, DistinctAppend
      <4> QED BY <2>1, <4>1, <4>2
    <3> QED BY <3>1, <3>2
  <2> QED BY <2>1, <2>2, <2>3
<1>3. Seq(A) \subseteq T
  <2> HIDE DEF T
  <2> QED BY <1>1, <1>2, AppendingReaches
<1> QED BY <1>3

\* Joined has the elements of all lists.
LEMMA JoinedTypes ==
    ASSUME NEW A, NEW lists \in Seq(Seq(A))
    PROVE  /\ Joined(lists) \in Seq(A)
           /\ \A i \in DOMAIN lists : ToSet(lists[i]) \subseteq ToSet(Joined(lists))
<1> DEFINE n == Len(lists)
           none == <<>>
           L == Seq(A)
           G == [p \in (1 .. n) \X L |-> p[2] \o lists[p[1]]]
           Kept(f) == f = [i \in 0 .. n |-> IF i = 0 THEN none ELSE f[i - 1] \o lists[i]]
<1>1. n \in Nat /\ none \in L /\ DOMAIN lists = 1 .. n /\ \A i \in 1 .. n : lists[i] \in L
  OBVIOUS
<1>2. \A l \in L, m \in L : l \o m \in L
  OBVIOUS
<1>3. Joined(lists) = (CHOOSE f : Kept(f))[n]
  BY DEF Joined
<1>4. \A l \in L, m \in L : ToSet(l \o m) = ToSet(l) \cup ToSet(m)
  BY ElementsAre
<1> HIDE DEF n, none, L
<1>5. G \in [(1 .. n) \X L -> L]
  <2>1. \A p \in (1 .. n) \X L : p[2] \o lists[p[1]] \in L
    BY <1>1, <1>2
  <2> QED BY <2>1
<1>6. \A i \in 1 .. n, l \in L : G[<<i, l>>] = l \o lists[i]
  <2> SUFFICES ASSUME NEW i \in 1 .. n, NEW l \in L PROVE G[<<i, l>>] = l \o lists[i]
    OBVIOUS
  <2>1. <<i, l>> \in (1 .. n) \X L
    OBVIOUS
  <2> QED BY <2>1
<1> HIDE DEF G
<1>7. PICK h \in [0 .. n -> L] : h[0] = none /\ \A i \in 1 .. n : h[i] = G[<<i, h[i - 1]>>]
  <2>1. Solutions(L, none, n, G) # {}
    <3> HIDE DEF Kept
    <3> QED BY <1>1, <1>5, RecursionHas, Zenon
  <2> HIDE DEF Kept
  <2> QED BY <2>1 DEF Solutions
<1>8. \A i \in 1 .. n : i - 1 \in 0 .. n /\ h[i] = h[i - 1] \o lists[i]
  <2>1. \A i \in 1 .. n : i - 1 \in 0 .. n
    BY <1>1
  <2> QED BY <1>6, <1>7, <2>1
<1>9. Kept(h)
  <2>1. h = [i \in 0 .. n |-> h[i]]
    BY <1>7
  <2>2. ASSUME NEW i \in 0 .. n PROVE h[i] = IF i = 0 THEN none ELSE h[i - 1] \o lists[i]
    <3>1. i = 0 \/ i \in 1 .. n
      BY <1>1
    <3>2. CASE i = 0
      BY <1>7, <3>2
    <3>3. CASE i \in 1 .. n /\ i # 0
      <4>1. h[i] = h[i - 1] \o lists[i]
        BY <1>8, <3>3
      <4> QED BY <3>3, <4>1, Zenon
    <3> QED BY <3>1, <3>2, <3>3
  <2> QED BY <2>1, <2>2, Zenon
<1> DEFINE k == CHOOSE f : Kept(f)
<1>10. Kept(k)
  <2> HIDE DEF Kept
  <2> QED BY <1>9
<1>11. Joined(lists) = k[n]
  BY <1>3
<1> HIDE DEF k
<1>12. k[0] = none /\ \A i \in 1 .. n : k[i] = k[i - 1] \o lists[i]
  <2>1. 0 \in 0 .. n /\ \A i \in 1 .. n : i \in 0 .. n /\ i # 0
    BY <1>1
  <2> QED BY <1>10, <2>1
<1> HIDE DEF Kept
<1> DEFINE T == {i \in 0 .. n : k[i] \in L /\ \A j \in 1 .. i : ToSet(lists[j]) \subseteq ToSet(k[i])}
<1>13. 0 \in T
  <2>1. 0 \in 0 .. n /\ 1 .. 0 = {}
    BY <1>1
  <2> QED BY <1>1, <1>12, <2>1
<1>14. ASSUME NEW i \in 1 .. n, i - 1 \in T PROVE i \in T
  <2>1. i \in 0 .. n /\ \A j \in 1 .. i : j = i \/ j \in 1 .. i - 1
    BY <1>1
  <2>2. lists[i] \in L /\ k[i - 1] \in L /\ k[i] = k[i - 1] \o lists[i]
    BY <1>1, <1>12, <1>14
  <2>3. k[i] \in L /\ ToSet(k[i]) = ToSet(k[i - 1]) \cup ToSet(lists[i])
    BY <1>2, <1>4, <2>2
  <2>4. \A j \in 1 .. i : ToSet(lists[j]) \subseteq ToSet(k[i])
    BY <1>14, <2>1, <2>3
  <2> QED BY <2>1, <2>3, <2>4
<1>15. 0 .. n \subseteq T /\ n \in 0 .. n
  <2>1. 0 .. n \subseteq T
    <3> HIDE DEF T
    <3> QED BY <1>1, <1>13, <1>14, CountingReaches
  <2>2. n \in 0 .. n
    BY <1>1
  <2> QED BY <2>1, <2>2
<1> QED BY <1>1, <1>11, <1>15 DEF L

\* A sequence, element by element.
Mapped(f, s) == [i \in DOMAIN s |-> f[s[i]]]

LEMMA MappedIs ==
    ASSUME NEW A, NEW B, NEW f \in [A -> B], NEW s \in Seq(A)
    PROVE  Mapped(f, s) \in Seq(B) /\ Len(Mapped(f, s)) = Len(s)
<1>1. Len(s) \in Nat /\ DOMAIN s = 1 .. Len(s) /\ \A i \in 1 .. Len(s) : s[i] \in A
  OBVIOUS
<1>2. Mapped(f, s) \in [1 .. Len(s) -> B]
  BY <1>1 DEF Mapped
<1> QED BY <1>1, <1>2

LEMMA MappedElements ==
    ASSUME NEW f, NEW s
    PROVE  ToSet(Mapped(f, s)) = {f[a] : a \in ToSet(s)} /\ Mapped(f, <<>>) = <<>>
BY DEF ToSet, Mapped

LEMMA MappedAppend ==
    ASSUME NEW A, NEW B, NEW f \in [A -> B], NEW s \in Seq(A), NEW x \in A
    PROVE  Mapped(f, Append(s, x)) = Append(Mapped(f, s), f[x])
<1> DEFINE u == Append(s, x)
           m == Mapped(f, s)
           v == Append(m, f[x])
<1>1. /\ DOMAIN u = 1 .. Len(s) + 1 /\ u[Len(s) + 1] = x
      /\ \A i \in 1 .. Len(s) : u[i] = s[i]
      /\ Len(s) \in Nat /\ DOMAIN s = 1 .. Len(s)
  OBVIOUS
<1>2. m \in Seq(B) /\ Len(m) = Len(s) /\ \A i \in 1 .. Len(s) : m[i] = f[s[i]]
  <2>1. \A i \in 1 .. Len(s) : m[i] = f[s[i]]
    BY <1>1 DEF Mapped
  <2>2. m \in Seq(B)
    <3> HIDE DEF u, v
    <3> QED BY MappedIs
  <2>3. Len(m) = Len(s)
    <3>1. DOMAIN m = DOMAIN s
      BY DEF Mapped
    <3> HIDE DEF m
    <3> QED BY <2>2, <3>1
  <2> QED BY <2>1, <2>2, <2>3
<1> HIDE DEF u, m
<1>3. /\ v \in Seq(B) /\ DOMAIN v = 1 .. Len(s) + 1 /\ v[Len(s) + 1] = f[x]
      /\ \A i \in 1 .. Len(s) : v[i] = m[i]
  BY <1>1, <1>2
<1>4. v = [i \in 1 .. Len(s) + 1 |-> v[i]]
  BY <1>3
<1> HIDE DEF v
<1>5. \A i \in 1 .. Len(s) + 1 : i = Len(s) + 1 \/ i \in 1 .. Len(s)
  BY <1>1
<1>6. \A i \in 1 .. Len(s) + 1 : f[u[i]] = v[i]
  BY <1>1, <1>2, <1>3, <1>5
<1>7. Mapped(f, u) = v
  BY <1>1, <1>4, <1>6 DEF Mapped
<1> QED BY <1>7 DEF u, v, m

KeepsMapped(f, s, S, R) == Only(Mapped(f, s), S) = Mapped(f, Only(s, R))

LEMMA OnlyMapped ==
    ASSUME NEW A, NEW B, NEW f \in [A -> B], NEW s \in Seq(A), NEW S, NEW R,
           \A a \in A : a \in R <=> f[a] \in S
    PROVE  KeepsMapped(f, s, S, R)
<1> DEFINE T == {t \in Seq(A) : Only(Mapped(f, t), S) = Mapped(f, Only(t, R))}
<1>1. <<>> \in T
  <2>1. Mapped(f, <<>>) = <<>> /\ <<>> \in Seq(A)
    BY DEF Mapped
  <2> QED BY <2>1, OnlyNone
<1>2. ASSUME NEW t \in T \cap Seq(A), NEW x \in A PROVE Append(t, x) \in T
  <2> DEFINE u == Append(t, x)
  <2>1. t \in Seq(A) /\ u \in Seq(A) /\ Only(Mapped(f, t), S) = Mapped(f, Only(t, R))
    OBVIOUS
  <2>2. Only(t, R) \in Seq(A) /\ Only(u, R) = Keeping(Only(t, R), x, R)
    BY <2>1, OnlyTypes, OnlyAppend
  <2>3. f[x] \in B /\ Mapped(f, t) \in Seq(B)
    BY <2>1, MappedIs
  <2>4. Mapped(f, u) = Append(Mapped(f, t), f[x])
    BY <2>1, MappedAppend
  <2>5. Only(Append(Mapped(f, t), f[x]), S) = Keeping(Only(Mapped(f, t), S), f[x], S)
    BY <2>3, OnlyAppend
  <2>6. Mapped(f, Append(Only(t, R), x)) = Append(Mapped(f, Only(t, R)), f[x])
    BY <2>2, MappedAppend
  <2> HIDE DEF u
  <2>7. Only(Mapped(f, u), S) = Mapped(f, Only(u, R))
    BY <2>1, <2>2, <2>4, <2>5, <2>6 DEF Keeping
  <2> QED BY <2>1, <2>7 DEF u
<1>3. Seq(A) \subseteq T
  <2> HIDE DEF T
  <2> QED BY <1>1, <1>2, AppendingReaches
<1> QED BY <1>3 DEF KeepsMapped

LEMMA ListedIs ==
    ASSUME NEW S \in SUBSET NodeId
    PROVE  Listed(S) \in Seq(NodeId) /\ ToSet(Listed(S)) = S
<1> DEFINE all == [n \in NodeId |-> n]
<1>1. all \in Seq(NodeId) /\ ToSet(all) = NodeId
  <2>1. NodeCount \in Nat
    BY LedgersAssumption
  <2>2. all \in [1 .. NodeCount -> NodeId]
    BY DEF NodeId
  <2> QED BY <2>1, <2>2 DEF ToSet, NodeId
<1> HIDE DEF all
<1>2. Only(all, S) \in Seq(NodeId) /\ ToSet(Only(all, S)) = ToSet(all) \cap S
  BY <1>1, OnlyTypes
<1>3. Listed(S) = Only(all, S)
  BY DEF Listed, all
<1> QED BY <1>1, <1>2, <1>3

-----------------------------------------------------------------------------
(* The trials of a node, and the rows that say what it is.                 *)

\* The last element of a sequence is one of it.
LEMMA LastIs ==
    ASSUME NEW A, NEW s \in Seq(A), s # <<>>
    PROVE  Last(s) \in ToSet(s) /\ Last(s) \in A
<1>1. Len(s) \in DOMAIN s /\ s[Len(s)] \in A
  OBVIOUS
<1> QED BY <1>1 DEF Last, ToSet

\* The trials of a node, from one to the next.
Stats == [total : Nat, failed : Nat, failStreak : Nat]

LEMMA AddTrialIs ==
    ASSUME NEW stats \in Stats, NEW trial \in Trial
    PROVE  /\ AddTrial(stats, trial) \in Stats
           /\ AddTrial(stats, trial).failStreak =
                CASE trial.outcome = "amended" -> stats.failStreak
                  [] trial.outcome = "pass"    -> 0
                  [] trial.outcome = "fail"    -> stats.failStreak + 1
<1>1. stats.total \in Nat /\ stats.failed \in Nat /\ stats.failStreak \in Nat
  BY DEF Stats
<1>2. trial.outcome \in Outcome
  BY DEF Trial
<1>3. trial.outcome = "amended" \/ trial.outcome = "pass" \/ trial.outcome = "fail"
  BY <1>2 DEF Outcome
<1> QED BY <1>1, <1>3 DEF AddTrial, Stats

StatsFrom(own) ==
    {h \in [0 .. Len(own) -> Stats] :
        /\ h[0] = NoTrials /\ StatsOf(own) = h[Len(own)]
        /\ \A i \in 1 .. Len(own) : h[i] = AddTrial(h[i - 1], own[i])}

LEMMA StatsAre ==
    ASSUME NEW own \in Seq(Trial)
    PROVE  StatsFrom(own) # {}
<1> DEFINE n == Len(own)
           G == [p \in (1 .. n) \X Stats |-> AddTrial(p[2], own[p[1]])]
           Kept(f) == f = [i \in 0 .. n |-> IF i = 0 THEN NoTrials ELSE AddTrial(f[i - 1], own[i])]
<1>1. n \in Nat /\ NoTrials \in Stats /\ \A i \in 1 .. n : own[i] \in Trial
  BY DEF NoTrials, Stats
<1>2. G \in [(1 .. n) \X Stats -> Stats]
  <2>1. \A p \in (1 .. n) \X Stats : AddTrial(p[2], own[p[1]]) \in Stats
    BY <1>1, AddTrialIs
  <2> QED BY <2>1
<1>3. \A i \in 1 .. n, l \in Stats : G[<<i, l>>] = AddTrial(l, own[i])
  <2> SUFFICES ASSUME NEW i \in 1 .. n, NEW l \in Stats PROVE G[<<i, l>>] = AddTrial(l, own[i])
    OBVIOUS
  <2>1. <<i, l>> \in (1 .. n) \X Stats
    OBVIOUS
  <2> HIDE DEF n
  <2> QED BY <2>1
<1>4. StatsOf(own) = (CHOOSE f : Kept(f))[n]
  BY DEF StatsOf
<1> HIDE DEF n, G
<1>5. PICK h \in [0 .. n -> Stats] : h[0] = NoTrials /\ \A i \in 1 .. n : h[i] = G[<<i, h[i - 1]>>]
  <2>1. Solutions(Stats, NoTrials, n, G) # {}
    <3> HIDE DEF Kept
    <3> QED BY <1>1, <1>2, RecursionHas, Zenon
  <2> HIDE DEF Kept
  <2> QED BY <2>1 DEF Solutions
<1>6. \A i \in 1 .. n : i - 1 \in 0 .. n /\ h[i] = AddTrial(h[i - 1], own[i])
  <2>1. \A i \in 1 .. n : i - 1 \in 0 .. n
    BY <1>1
  <2> QED BY <1>3, <1>5, <2>1
<1>7. Kept(h)
  BY <1>1, <1>5, <1>6
<1> DEFINE k == CHOOSE f : Kept(f)
<1>8. Kept(k)
  <2> HIDE DEF Kept
  <2> QED BY <1>7
<1>9. StatsOf(own) = k[n]
  BY <1>4
<1> HIDE DEF k
<1>10. k[0] = NoTrials /\ \A i \in 1 .. n : k[i] = AddTrial(k[i - 1], own[i])
  <2>1. 0 \in 0 .. n /\ \A i \in 1 .. n : i \in 0 .. n /\ i # 0
    BY <1>1
  <2> QED BY <1>8, <2>1
<1>11. k \in [0 .. n -> Stats]
  <2> DEFINE T == {i \in 0 .. n : k[i] \in Stats}
  <2>1. 0 \in T
    BY <1>1, <1>10
  <2>2. ASSUME NEW i \in 1 .. n, i - 1 \in T PROVE i \in T
    <3>1. AddTrial(k[i - 1], own[i]) \in Stats
      BY <1>1, <2>2, AddTrialIs
    <3> QED BY <1>1, <1>10, <3>1
  <2>3. 0 .. n \subseteq T
    <3> HIDE DEF T
    <3> QED BY <1>1, <2>1, <2>2, CountingReaches
  <2>4. k = [i \in 0 .. n |-> k[i]]
    BY <1>8
  <2> QED BY <2>3, <2>4
<1> HIDE DEF Kept
<1> QED BY <1>9, <1>10, <1>11 DEF n, StatsFrom

LEMMA StatsNone == StatsOf(<<>>) = NoTrials
<1> DEFINE none == <<>>
<1>1. none \in Seq(Trial) /\ Len(none) = 0
  OBVIOUS
<1> HIDE DEF none
<1>2. StatsFrom(none) # {}
  BY <1>1, StatsAre, Zenon
<1>3. StatsOf(none) = NoTrials
  BY <1>1, <1>2 DEF StatsFrom
<1> QED BY <1>3 DEF none

LEMMA StatsAppend ==
    ASSUME NEW own \in Seq(Trial), NEW x \in Trial
    PROVE  StatsOf(own) \in Stats /\ StatsOf(Append(own, x)) = AddTrial(StatsOf(own), x)
<1> DEFINE n == Len(own)
           t == Append(own, x)
<1>1. /\ n \in Nat /\ t \in Seq(Trial) /\ Len(t) = n + 1 /\ t[n + 1] = x
      /\ \A i \in 1 .. n : t[i] = own[i]
  OBVIOUS
<1> HIDE DEF t
<1>2. PICK h \in [0 .. n -> Stats] :
         /\ h[0] = NoTrials /\ StatsOf(own) = h[n]
         /\ \A i \in 1 .. n : h[i] = AddTrial(h[i - 1], own[i])
  <2>1. StatsFrom(own) # {}
    BY StatsAre, Zenon
  <2> QED BY <2>1 DEF StatsFrom
<1>3. PICK k \in [0 .. n + 1 -> Stats] :
         /\ k[0] = NoTrials /\ StatsOf(t) = k[n + 1]
         /\ \A i \in 1 .. n + 1 : k[i] = AddTrial(k[i - 1], t[i])
  <2>1. StatsFrom(t) # {}
    BY <1>1, StatsAre, Zenon
  <2> QED BY <1>1, <2>1 DEF StatsFrom
<1> HIDE DEF n
<1>4. h[n] = k[n] /\ h[n] \in Stats
  <2> DEFINE T == {i \in 0 .. n : h[i] = k[i]}
  <2>1. 0 \in T
    BY <1>1, <1>2, <1>3
  <2>2. ASSUME NEW i \in 1 .. n, i - 1 \in T PROVE i \in T
    <3>1. i \in 1 .. n + 1 /\ i \in 0 .. n /\ t[i] = own[i]
      BY <1>1
    <3>2. h[i] = AddTrial(h[i - 1], own[i]) /\ k[i] = AddTrial(k[i - 1], t[i])
      BY <1>2, <1>3, <3>1
    <3> QED BY <2>2, <3>1, <3>2
  <2>3. 0 .. n \subseteq T
    <3> HIDE DEF T
    <3> QED BY <1>1, <2>1, <2>2, CountingReaches
  <2>4. n \in 0 .. n
    BY <1>1
  <2> QED BY <1>2, <2>3, <2>4
<1>5. n + 1 \in 1 .. n + 1 /\ n + 1 - 1 = n
  BY <1>1
<1>6. k[n + 1] = AddTrial(k[n], x)
  BY <1>1, <1>3, <1>5
<1>7. StatsOf(own) \in Stats /\ StatsOf(t) = AddTrial(StatsOf(own), x)
  BY <1>2, <1>3, <1>4, <1>6
<1> QED BY <1>7 DEF t

\* A streak is of the trials that ran, amended ones apart.
Ran == {t \in Trial : t.outcome # "amended"}

Streaks(own) ==
    LET k == StatsOf(own).failStreak
        ran == Only(own, Ran)
    IN  k \in 0 .. Len(ran) /\ IsStreak(k, ran)

LEMMA StreakIs ==
    ASSUME NEW own \in Seq(Trial)
    PROVE  Streaks(own)
<1> DEFINE T == {s \in Seq(Trial) : Streaks(s)}
<1>1. <<>> \in T
  <2>1. Only(<<>>, Ran) = <<>> /\ StatsOf(<<>>) = NoTrials
    BY OnlyNone, StatsNone
  <2>2. NoTrials.failStreak = 0 /\ Len(<<>>) = 0 /\ <<>> \in Seq(Trial)
    BY DEF NoTrials
  <2> QED BY <2>1, <2>2 DEF Streaks, IsStreak
<1>2. ASSUME NEW s \in T \cap Seq(Trial), NEW x \in Trial PROVE Append(s, x) \in T
  <2> DEFINE u == Append(s, x)
             k == StatsOf(s).failStreak
             ran == Only(s, Ran)
             next == Append(ran, x)
  <2>1. StatsOf(s) \in Stats /\ StatsOf(u) = AddTrial(StatsOf(s), x) /\ u \in Seq(Trial)
    BY StatsAppend
  <2>2. Only(u, Ran) = Keeping(ran, x, Ran)
    BY OnlyAppend
  <2>3. ran \in Seq(Trial)
    BY OnlyTypes
  <2>4. k \in 0 .. Len(ran) /\ IsStreak(k, ran)
    BY DEF Streaks
  <2> HIDE DEF u, ran
  <2>5. /\ StatsOf(u).failStreak =
             CASE x.outcome = "amended" -> k
               [] x.outcome = "pass"    -> 0
               [] x.outcome = "fail"    -> k + 1
    BY <2>1, AddTrialIs
  <2>6. /\ Len(ran) \in Nat /\ Len(next) = Len(ran) + 1 /\ next[Len(ran) + 1] = x
        /\ \A i \in 1 .. Len(ran) : next[i] = ran[i]
    BY <2>3
  <2>7. x.outcome \in Outcome
    BY DEF Trial
  <2> HIDE DEF k, next
  <2>8. CASE x.outcome = "amended"
    <3>1. Only(u, Ran) = ran /\ StatsOf(u).failStreak = k
      BY <2>2, <2>5, <2>8 DEF Keeping, Ran
    <3> QED BY <2>1, <2>4, <3>1 DEF Streaks, u
  <2>9. CASE x.outcome = "pass"
    <3>1. Only(u, Ran) = next /\ StatsOf(u).failStreak = 0
      BY <2>2, <2>5, <2>9 DEF Keeping, Ran, next
    <3>2. IsStreak(0, next) /\ 0 \in 0 .. Len(next)
      BY <2>6, <2>9 DEF IsStreak
    <3>3. Streaks(u)
      BY <3>1, <3>2 DEF Streaks
    <3> QED BY <2>1, <3>3 DEF u
  <2>10. CASE x.outcome = "fail"
    <3>1. Only(u, Ran) = next /\ StatsOf(u).failStreak = k + 1
      BY <2>2, <2>5, <2>10 DEF Keeping, Ran, next
    <3>2. k + 1 \in 0 .. Len(next)
      BY <2>4, <2>6
    <3>3. ASSUME NEW i \in Len(next) - (k + 1) + 1 .. Len(next) PROVE next[i].outcome = "fail"
      <4>1. \/ i = Len(ran) + 1
            \/ i \in Len(ran) - k + 1 .. Len(ran) /\ i \in 1 .. Len(ran)
        BY <2>4, <2>6
      <4> QED BY <2>4, <2>6, <2>10, <4>1 DEF IsStreak
    <3>4. ASSUME k + 1 < Len(next) PROVE next[Len(next) - (k + 1)].outcome = "pass"
      <4>1. k < Len(ran) /\ Len(next) - (k + 1) = Len(ran) - k /\ Len(ran) - k \in 1 .. Len(ran)
        BY <2>4, <2>6, <3>4
      <4> QED BY <2>4, <2>6, <4>1 DEF IsStreak
    <3>5. IsStreak(k + 1, next)
      BY <3>3, <3>4 DEF IsStreak
    <3>6. Streaks(u)
      BY <3>1, <3>2, <3>5 DEF Streaks
    <3> QED BY <2>1, <3>6 DEF u
  <2> QED BY <2>7, <2>8, <2>9, <2>10 DEF Outcome
<1>3. Seq(Trial) \subseteq T
  <2> HIDE DEF T
  <2> QED BY <1>1, <1>2, AppendingReaches
<1> QED BY <1>3

LEMMA TrialsStreak ==
    ASSUME NEW all \in Seq(Trial), NEW n
    PROVE  IsStreak(TrialStats(all, n).failStreak,
                    Only(all, {t \in Trial : t.node = n /\ t.outcome # "amended"}))
<1> DEFINE S == {trial \in Trial : trial.node = n}
           R == {t \in Trial : t.node = n /\ t.outcome # "amended"}
           own == Only(all, S)
<1>1. own \in Seq(Trial)
  <2> HIDE DEF S
  <2> QED BY OnlyTypes
<1>2. Only(own, Ran) = Only(all, S \cap Ran)
  <2> HIDE DEF S
  <2> QED BY OnlyOnly
<1>3. S \cap Ran = R
  BY DEF Ran
<1>4. TrialStats(all, n) = StatsOf(own)
  BY DEF TrialStats
<1> HIDE DEF S, R, own
<1>5. IsStreak(StatsOf(own).failStreak, Only(own, Ran))
  BY <1>1, StreakIs DEF Streaks
<1>6. IsStreak(TrialStats(all, n).failStreak, Only(all, R))
  BY <1>2, <1>3, <1>4, <1>5
<1> QED BY <1>6 DEF R

\* The nodes on a list.
LEMMA NodesOnIs ==
    ASSUME NEW A, NEW s \in Seq(A), \A a \in A : a.node \in NodeId
    PROVE  /\ NodesOn(s) \in Seq(NodeId) /\ DOMAIN NodesOn(s) = DOMAIN s
           /\ \A i \in DOMAIN s : NodesOn(s)[i] = s[i].node /\ s[i].node \in ToSet(NodesOn(s))
           /\ \A n \in ToSet(NodesOn(s)) : \E a \in ToSet(s) : a.node = n
<1>1. Len(s) \in Nat /\ DOMAIN s = 1 .. Len(s) /\ \A i \in 1 .. Len(s) : s[i] \in A
  OBVIOUS
<1>2. NodesOn(s) \in [1 .. Len(s) -> NodeId]
  BY <1>1 DEF NodesOn
<1>3. DOMAIN NodesOn(s) = DOMAIN s /\ \A i \in DOMAIN s : NodesOn(s)[i] = s[i].node
  BY DEF NodesOn
<1>4. NodesOn(s) \in Seq(NodeId)
  BY <1>1, <1>2
<1> QED BY <1>3, <1>4 DEF ToSet

LEMMA RowIs ==
    ASSUME NEW row \in KnowledgeRow
    PROVE  /\ row.node \in NodeId /\ row.paper \in PaperId /\ row.status \in Status
           /\ row.preds \in SUBSET NodeId
BY DEF KnowledgeRow

\* The rows of a node that is on a list.
LEMMA AccruedIs ==
    ASSUME NEW rows \in Seq(KnowledgeRow), NEW row \in ToSet(rows)
    PROVE  LET own == Accrued(rows, row.node) IN
           /\ own \in Seq(KnowledgeRow) /\ own # <<>>
           /\ ToSet(own) \subseteq ToSet(rows) \cap RowsFor(row.node)
<1> DEFINE n == row.node
           S == RowsFor(n)
           own == Only(rows, S)
           R == RowsBy(own[1].paper)
<1>1. row \in KnowledgeRow /\ row \in S
  BY ElementsAre DEF RowsFor
<1>2. own \in Seq(KnowledgeRow) /\ ToSet(own) = ToSet(rows) \cap S
  <2> HIDE DEF S
  <2> QED BY OnlyTypes
<1>3. Accrued(rows, n) = Only(own, R)
  BY DEF Accrued
<1> HIDE DEF own, S
<1>4. own # <<>> /\ 1 \in DOMAIN own /\ own[1] \in KnowledgeRow
  <2>1. row \in ToSet(own)
    BY <1>1, <1>2
  <2>2. PICK i \in DOMAIN own : own[i] = row
    BY <2>1 DEF ToSet
  <2> QED BY <1>2, <2>2
<1>5. own[1] \in ToSet(own) /\ own[1] \in R
  BY <1>4 DEF ToSet, RowsBy
<1> HIDE DEF R
<1>6. Only(own, R) \in Seq(KnowledgeRow) /\ ToSet(Only(own, R)) = ToSet(own) \cap R
  BY <1>2, OnlyTypes
<1>7. Only(own, R) # <<>>
  <2>1. ToSet(<<>>) = {}
    BY DEF ToSet
  <2> QED BY <1>5, <1>6, <2>1
<1> QED BY <1>2, <1>3, <1>6, <1>7 DEF S

LEMMA CurrentRowIs ==
    ASSUME NEW rows \in Seq(KnowledgeRow), NEW row \in ToSet(rows)
    PROVE  LET newest == CurrentRow(rows, row.node) IN
           newest \in KnowledgeRow /\ newest.node = row.node
<1> DEFINE n == row.node
           own == Accrued(rows, n)
           counted == Only(own, NotAmended)
<1>1. own \in Seq(KnowledgeRow) /\ own # <<>> /\ ToSet(own) \subseteq RowsFor(n)
  BY AccruedIs, Zenon
<1>2. CurrentRow(rows, n) = IF counted = <<>> THEN Last(own) ELSE Last(counted)
  BY DEF CurrentRow
<1> HIDE DEF own
<1>3. counted \in Seq(KnowledgeRow) /\ ToSet(counted) = ToSet(own) \cap NotAmended
  BY <1>1, OnlyTypes
<1> HIDE DEF counted
<1>4. CurrentRow(rows, n) \in RowsFor(n)
  BY <1>1, <1>2, <1>3, LastIs
<1> QED BY <1>4 DEF RowsFor

\* The counted nodes, and the order of all that have rows.
Counting(rows) == {row \in NotAmended : Contains(Accrued(rows, row.node), row)}

LEMMA OrderedNodesIs ==
    ASSUME NEW rows \in Seq(KnowledgeRow)
    PROVE  /\ OrderedNodes(rows) = Distinct(NodesOn(Only(rows, Counting(rows))) \o NodesOn(rows))
           /\ NodesOn(Only(rows, Counting(rows))) \in Seq(NodeId) /\ NodesOn(rows) \in Seq(NodeId)
           /\ OrderedNodes(rows) \in Seq(NodeId)
           /\ ToSet(OrderedNodes(rows)) = ToSet(NodesOn(rows))
<1> DEFINE C == Counting(rows)
           counted == Only(rows, C)
           x == NodesOn(counted)
           y == NodesOn(rows)
<1>1. OrderedNodes(rows) = Distinct(x \o y)
  BY DEF OrderedNodes, Counting
<1> HIDE DEF C
<1>2. counted \in Seq(KnowledgeRow) /\ ToSet(counted) = ToSet(rows) \cap C
  BY OnlyTypes
<1>3. \A row \in KnowledgeRow : row.node \in NodeId
  BY RowIs
<1> HIDE DEF counted
<1>4. /\ x \in Seq(NodeId) /\ \A n \in ToSet(x) : \E a \in ToSet(counted) : a.node = n
  BY <1>2, <1>3, NodesOnIs
<1>5. /\ y \in Seq(NodeId) /\ \A i \in DOMAIN rows : rows[i].node \in ToSet(y)
  BY <1>3, NodesOnIs
<1> HIDE DEF x, y
<1>6. ToSet(x) \subseteq ToSet(y)
  <2> SUFFICES ASSUME NEW n \in ToSet(x) PROVE n \in ToSet(y)
    OBVIOUS
  <2>1. PICK a \in ToSet(counted) : a.node = n
    BY <1>4
  <2>2. a \in ToSet(rows)
    BY <1>2
  <2>3. PICK i \in DOMAIN rows : rows[i] = a
    BY <2>2 DEF ToSet
  <2> QED BY <1>5, <2>1, <2>3
<1>7. x \o y \in Seq(NodeId) /\ ToSet(x \o y) = ToSet(y)
  <2>1. x \in Seq(NodeId) /\ y \in Seq(NodeId)
    BY <1>4, <1>5
  <2>2. ToSet(x \o y) = ToSet(x) \cup ToSet(y)
    BY <2>1, ElementsAre
  <2> QED BY <1>6, <2>1, <2>2
<1>8. Distinct(x \o y) \in Seq(NodeId) /\ ToSet(Distinct(x \o y)) = ToSet(x \o y)
  BY <1>7, DistinctTypes
<1> QED BY <1>1, <1>4, <1>5, <1>7, <1>8 DEF x, y, counted, C

-----------------------------------------------------------------------------
(* The graph of a snapshot, and the fold of the Python tools.              *)

\* What the fold of the rows is.
CurrentOf(rows) == [n \in ToSet(OrderedNodes(rows)) |-> CurrentRow(rows, n)]

LEMMA CurrentOfIs ==
    ASSUME NEW rows \in Seq(KnowledgeRow)
    PROVE  /\ CurrentOf(rows) \in [ToSet(OrderedNodes(rows)) -> KnowledgeRow]
           /\ \A n \in ToSet(OrderedNodes(rows)) : CurrentOf(rows)[n].node = n
<1>1. ASSUME NEW n \in ToSet(OrderedNodes(rows))
      PROVE  CurrentRow(rows, n) \in KnowledgeRow /\ CurrentRow(rows, n).node = n
  <2>1. \A row \in KnowledgeRow : row.node \in NodeId
    BY RowIs
  <2>2. n \in ToSet(NodesOn(rows))
    BY OrderedNodesIs
  <2>3. PICK row \in ToSet(rows) : row.node = n
    BY <2>1, <2>2, NodesOnIs
  <2> QED BY <2>3, CurrentRowIs
<1> QED BY <1>1 DEF CurrentOf

LEMMA NamedIs ==
    ASSUME NEW rows \in Seq(KnowledgeRow), NEW all \in Seq(Trial)
    PROVE  LET known == OrderedNodes(rows)
               named == Named(known, CurrentOf(rows), all)
           IN  /\ named \in Seq(NodeId) /\ ToSet(known) \subseteq ToSet(named)
               /\ \A n \in ToSet(known) : CurrentOf(rows)[n].preds \subseteq ToSet(named)
               /\ \A S \in SUBSET ToSet(known) : Only(named, S) = Only(Distinct(known), S)
<1> DEFINE known == OrderedNodes(rows)
           rowOf == CurrentOf(rows)
           lists == [i \in DOMAIN known |-> Listed(rowOf[known[i]].preds)]
           j == Joined(lists)
           t == NodesOn(all)
           s == known \o j
<1>1. known \in Seq(NodeId) /\ rowOf \in [ToSet(known) -> KnowledgeRow]
  BY OrderedNodesIs, CurrentOfIs
<1>2. t \in Seq(NodeId)
  <2>1. \A a \in Trial : a.node \in NodeId
    BY DEF Trial
  <2> QED BY <2>1, NodesOnIs
<1>3. Named(known, rowOf, all) = Distinct(s \o t)
  BY DEF Named
<1> HIDE DEF known, rowOf, t
<1>4. ASSUME NEW i \in DOMAIN known
      PROVE  /\ known[i] \in ToSet(known) /\ rowOf[known[i]].preds \in SUBSET NodeId
             /\ lists[i] \in Seq(NodeId) /\ ToSet(lists[i]) = rowOf[known[i]].preds
  <2>1. known[i] \in ToSet(known)
    BY DEF ToSet
  <2>2. rowOf[known[i]] \in KnowledgeRow
    BY <1>1, <2>1
  <2>3. rowOf[known[i]].preds \in SUBSET NodeId
    BY <2>2, RowIs
  <2> QED BY <2>1, <2>3, ListedIs
<1>5. lists \in Seq(Seq(NodeId)) /\ DOMAIN lists = DOMAIN known
  <2>1. DOMAIN known = 1 .. Len(known) /\ Len(known) \in Nat
    BY <1>1
  <2>2. lists \in [1 .. Len(known) -> Seq(NodeId)]
    BY <1>4, <2>1
  <2> QED BY <2>1, <2>2
<1> HIDE DEF lists
<1>6. j \in Seq(NodeId) /\ \A i \in DOMAIN known : ToSet(lists[i]) \subseteq ToSet(j)
  BY <1>5, JoinedTypes
<1> HIDE DEF j
<1>7. s \in Seq(NodeId) /\ ToSet(s) = ToSet(known) \cup ToSet(j)
  <2>1. ToSet(known \o j) = ToSet(known) \cup ToSet(j)
    BY <1>1, <1>6, ElementsAre
  <2> QED BY <1>1, <1>6, <2>1
<1>9. ASSUME NEW S \in SUBSET ToSet(known) PROVE Only(Distinct(s \o t), S) = Only(Distinct(known), S)
  <2>1. Only(Distinct(s), S) = Only(Distinct(known), S)
    BY <1>1, <1>6, DistinctJoined
  <2> HIDE DEF s
  <2>2. Only(Distinct(s \o t), S) = Only(Distinct(s), S)
    BY <1>2, <1>7, DistinctJoined
  <2> QED BY <2>1, <2>2
<1> HIDE DEF s
<1>10. s \o t \in Seq(NodeId) /\ ToSet(s \o t) = ToSet(s) \cup ToSet(t)
  <2>1. ToSet(s \o t) = ToSet(s) \cup ToSet(t)
    BY <1>2, <1>7, ElementsAre
  <2> QED BY <1>2, <1>7, <2>1
<1>11. Distinct(s \o t) \in Seq(NodeId) /\ ToSet(Distinct(s \o t)) = ToSet(s \o t)
  BY <1>10, DistinctTypes
<1>12. \A n \in ToSet(known) : rowOf[n].preds \subseteq ToSet(j)
  <2> SUFFICES ASSUME NEW n \in ToSet(known) PROVE rowOf[n].preds \subseteq ToSet(j)
    OBVIOUS
  <2>1. PICK i \in DOMAIN known : known[i] = n
    BY DEF ToSet
  <2> QED BY <1>4, <1>6, <2>1
<1>13. \A n \in ToSet(known) : rowOf[n].preds \subseteq ToSet(Distinct(s \o t))
  BY <1>7, <1>10, <1>11, <1>12
<1>14. ToSet(known) \subseteq ToSet(Distinct(s \o t))
  BY <1>7, <1>10, <1>11
<1> QED BY <1>3, <1>9, <1>11, <1>13, <1>14 DEF known, rowOf

\* What is derived from the graph leaves the fold as it is.
LEMMA FoldIs ==
    ASSUME NEW rows, NEW all
    PROVE  LET g == FoldLedgers(rows, all)
               rowOf == CurrentOf(rows)
               named == Named(OrderedNodes(rows), rowOf, all)
           IN  /\ g.order = named
               /\ g.status = [n \in ToSet(named) |->
                                 IF n \in DOMAIN rowOf THEN rowOf[n].status ELSE "unknown"]
               /\ g.active = {n \in DOMAIN rowOf : rowOf[n].status \notin {"retired", "amended"}}
               /\ g.preds = [n \in ToSet(named) |-> IF n \in DOMAIN rowOf THEN rowOf[n].preds ELSE {}]
               /\ g.trials = [n \in ToSet(named) |-> TrialStats(all, n)]
<1> DEFINE f == FoldRows(rows, all)
           c == AnalyzeCycles(f)
<1>1. FoldLedgers(rows, all) = Derived(f, c, ComputeDepths(f, c.feedback))
  BY DEF FoldLedgers, WithDerived, WithCycles
<1>2. f = NodesOf(Named(OrderedNodes(rows), CurrentOf(rows), all), CurrentOf(rows), all)
  BY DEF FoldRows, FoldNodes, CurrentOf
<1> HIDE DEF f, c
<1>3. /\ FoldLedgers(rows, all).order = f.order /\ FoldLedgers(rows, all).status = f.status
      /\ FoldLedgers(rows, all).active = f.active /\ FoldLedgers(rows, all).preds = f.preds
      /\ FoldLedgers(rows, all).trials = f.trials
  BY <1>1 DEF Derived
<1> QED BY <1>2, <1>3 DEF NodesOf

\* While no paper writes rows of another's nodes, a node has all rows that name it.
Counted(rows) == Only(rows, NotAmended)

LEMMA UnsharedAccrued ==
    ASSUME NEW rows \in Seq(KnowledgeRow), ~ Shared(rows), NEW row \in ToSet(rows)
    PROVE  Accrued(rows, row.node) = Only(rows, RowsFor(row.node))
<1> DEFINE S == RowsFor(row.node)
           own == Only(rows, S)
           R == RowsBy(own[1].paper)
<1>1. own \in Seq(KnowledgeRow) /\ ToSet(own) = ToSet(rows) \cap S
  <2> HIDE DEF S
  <2> QED BY OnlyTypes
<1>2. Accrued(rows, row.node) = Only(own, R)
  BY DEF Accrued
<1>3. ASSUME NEW a \in ToSet(own), NEW b \in ToSet(own) PROVE a.paper = b.paper
  <2>1. PICK i \in DOMAIN rows : rows[i] = a
    BY <1>1 DEF ToSet
  <2>2. PICK j \in DOMAIN rows : rows[j] = b
    BY <1>1 DEF ToSet
  <2>3. a.node = b.node
    BY <1>1 DEF RowsFor
  <2> QED BY <2>1, <2>2, <2>3 DEF Shared
<1> HIDE DEF own, S
<1>4. ToSet(own) \subseteq R
  <2> SUFFICES ASSUME NEW a \in ToSet(own) PROVE a \in R
    OBVIOUS
  <2>1. a \in KnowledgeRow
    BY <1>1, ElementsAre
  <2>2. PICK i \in DOMAIN own : own[i] = a
    BY DEF ToSet
  <2>3. 1 \in DOMAIN own
    BY <1>1, <2>2
  <2>4. own[1] \in ToSet(own)
    BY <2>3 DEF ToSet
  <2> QED BY <1>3, <2>1, <2>4 DEF RowsBy
<1> HIDE DEF R
<1>5. Only(own, R) = own
  BY <1>1, <1>4, OnlyAll
<1> QED BY <1>2, <1>5 DEF own, S

LEMMA UnsharedCounting ==
    ASSUME NEW rows \in Seq(KnowledgeRow), ~ Shared(rows)
    PROVE  Only(rows, Counting(rows)) = Counted(rows)
<1>1. ASSUME NEW row \in ToSet(rows) PROVE row \in Counting(rows) <=> row \in NotAmended
  <2> DEFINE S == RowsFor(row.node)
             own == Only(rows, S)
  <2>1. own \in Seq(KnowledgeRow) /\ ToSet(own) = ToSet(rows) \cap S
    <3> HIDE DEF S
    <3> QED BY OnlyTypes
  <2>2. Accrued(rows, row.node) = own
    BY UnsharedAccrued
  <2>3. row \in S
    BY ElementsAre DEF RowsFor
  <2> HIDE DEF own, S
  <2>4. Contains(own, row)
    BY <2>1, <2>3, ElementsAre
  <2> QED BY <2>2, <2>4 DEF Counting
<1> DEFINE C == Counting(rows)
<1>2. \A row \in ToSet(rows) : row \in C <=> row \in NotAmended
  BY <1>1
<1> HIDE DEF C
<1>3. Only(rows, C) = Only(rows, NotAmended)
  BY <1>2, OnlySame
<1> QED BY <1>3 DEF C, Counted

\* The latest row of a node that counts.
LatestOf(rows, n) == Last(Only(Counted(rows), RowsFor(n)))

LEMMA UnsharedCurrent ==
    ASSUME NEW rows \in Seq(KnowledgeRow), ~ Shared(rows), NEW row \in ToSet(rows)
    PROVE  LET n == row.node
               newest == CurrentRow(rows, n)
           IN  /\ n \in ToSet(NodesOn(Counted(rows))) =>
                     newest = LatestOf(rows, n) /\ newest.status # "amended"
               /\ n \notin ToSet(NodesOn(Counted(rows))) => newest.status = "amended"
<1> DEFINE n == row.node
           S == RowsFor(n)
           own == Only(rows, S)
           counted == Counted(rows)
           both == Only(own, NotAmended)
           newest == CurrentRow(rows, n)
<1>1. Accrued(rows, n) = own
  BY UnsharedAccrued
<1>2. newest = IF both = <<>> THEN Last(own) ELSE Last(both)
  BY <1>1 DEF CurrentRow
<1>3. row \in KnowledgeRow /\ row \in S /\ \A a \in S : a \in KnowledgeRow /\ a.node = n
  BY ElementsAre DEF RowsFor
<1>4. LatestOf(rows, n) = Last(Only(counted, S))
  BY DEF LatestOf
<1>5. counted \in Seq(KnowledgeRow) /\ ToSet(counted) = ToSet(rows) \cap NotAmended
      /\ Only(counted, S) = Only(rows, NotAmended \cap S)
  <2>1. counted = Only(rows, NotAmended)
    BY DEF Counted
  <2> HIDE DEF S
  <2>2. Only(rows, NotAmended) \in Seq(KnowledgeRow) /\ ToSet(Only(rows, NotAmended)) = ToSet(rows) \cap NotAmended
    BY OnlyTypes
  <2>3. Only(Only(rows, NotAmended), S) = Only(rows, NotAmended \cap S)
    BY OnlyOnly
  <2> QED BY <2>1, <2>2, <2>3
<1> HIDE DEF S, newest, counted
<1>6. own \in Seq(KnowledgeRow) /\ ToSet(own) = ToSet(rows) \cap S /\ both = Only(rows, S \cap NotAmended)
  BY OnlyTypes, OnlyOnly
<1>7. Only(counted, S) = both
  <2>1. S \cap NotAmended = NotAmended \cap S
    OBVIOUS
  <2> QED BY <1>5, <1>6, <2>1
<1> HIDE DEF own
<1>8. both \in Seq(KnowledgeRow) /\ ToSet(both) = ToSet(own) \cap NotAmended
  BY <1>6, OnlyTypes
<1> HIDE DEF both
<1>9. own # <<>>
  <2>1. row \in ToSet(own) /\ ToSet(<<>>) = {}
    BY <1>3, <1>6 DEF ToSet
  <2> QED BY <2>1
<1>10. \A a \in KnowledgeRow : a.node \in NodeId
  BY RowIs
<1>11. both # <<>> <=> n \in ToSet(NodesOn(counted))
  <2>1. ASSUME both # <<>> PROVE n \in ToSet(NodesOn(counted))
    <3>1. Last(both) \in ToSet(counted) /\ Last(both).node = n
      BY <1>3, <1>5, <1>6, <1>8, <2>1, LastIs
    <3>2. PICK i \in DOMAIN counted : counted[i] = Last(both)
      BY <3>1 DEF ToSet
    <3> QED BY <1>5, <1>10, <3>1, <3>2, NodesOnIs
  <2>2. ASSUME n \in ToSet(NodesOn(counted)) PROVE both # <<>>
    <3>1. PICK a \in ToSet(counted) : a.node = n
      BY <1>5, <1>10, <2>2, NodesOnIs
    <3>2. a \in KnowledgeRow
      BY <1>5, ElementsAre
    <3>3. a \in ToSet(both)
      BY <1>5, <1>6, <1>8, <3>1, <3>2 DEF S, RowsFor
    <3>4. ToSet(<<>>) = {}
      BY DEF ToSet
    <3> QED BY <3>3, <3>4
  <2> QED BY <2>1, <2>2
<1>12. ASSUME both # <<>> PROVE newest = LatestOf(rows, n) /\ newest.status # "amended"
  <2>1. newest = Last(both) /\ Last(both) \in NotAmended
    BY <1>2, <1>8, <1>12, LastIs
  <2>2. newest = LatestOf(rows, n)
    BY <1>4, <1>7, <2>1
  <2> QED BY <2>1, <2>2 DEF NotAmended
<1>13. ASSUME both = <<>> PROVE newest.status = "amended"
  <2>1. newest = Last(own) /\ Last(own) \in ToSet(own) /\ Last(own) \in KnowledgeRow
    BY <1>2, <1>6, <1>9, <1>13, LastIs
  <2>2. ToSet(both) = {}
    BY <1>13 DEF ToSet
  <2> QED BY <1>8, <2>1, <2>2 DEF NotAmended
<1> QED BY <1>11, <1>12, <1>13 DEF newest, counted

ActiveOf(rows) == {n \in ToSet(OrderedNodes(rows)) : CurrentOf(rows)[n].status \notin {"retired", "amended"}}

LEMMA ActiveIsLatest ==
    ASSUME NEW rows \in Seq(KnowledgeRow), ~ Shared(rows), NEW all \in Seq(Trial)
    PROVE  LET active == Only(Named(OrderedNodes(rows), CurrentOf(rows), all), ActiveOf(rows))
               latest == LatestPerNode(rows)
           IN  /\ DOMAIN latest = DOMAIN active
               /\ \A i \in DOMAIN active :
                     /\ active[i] \in ToSet(OrderedNodes(rows))
                     /\ latest[i] = CurrentOf(rows)[active[i]]
<1> DEFINE known == OrderedNodes(rows)
           rowOf == CurrentOf(rows)
           named == Named(known, rowOf, all)
           Act == ActiveOf(rows)
           active == Only(named, Act)
           counted == Counted(rows)
           x == NodesOn(counted)
           y == NodesOn(rows)
           order == Distinct(x)
           K == ToSet(order)
           f == [n \in K |-> LatestOf(rows, n)]
           NotRetired == {row \in KnowledgeRow : row.status # "retired"}
<1>1. LatestPerNode(rows) = Only(Mapped(f, order), NotRetired)
  <2>1. DOMAIN order = DOMAIN Mapped(f, order)
        /\ \A i \in DOMAIN order : Mapped(f, order)[i] = LatestOf(rows, order[i])
    BY DEF Mapped, ToSet
  <2>2. Mapped(f, order) = [i \in DOMAIN order |-> LatestOf(rows, order[i])]
    BY DEF Mapped, ToSet
  <2> HIDE DEF f
  <2> QED BY <2>2 DEF LatestPerNode, Counted, LatestOf
<1>2. counted \in Seq(KnowledgeRow) /\ ToSet(counted) \subseteq ToSet(rows)
  BY OnlyTypes DEF Counted
<1>3. /\ known = Distinct(x \o y) /\ x \in Seq(NodeId) /\ y \in Seq(NodeId)
      /\ ToSet(known) = ToSet(y) /\ known \in Seq(NodeId)
  BY UnsharedCounting, OrderedNodesIs, Zenon
<1>4. \A a \in KnowledgeRow : a.node \in NodeId
  BY RowIs
<1>5. ASSUME NEW n \in ToSet(known)
      PROVE  /\ n \in K => rowOf[n] = LatestOf(rows, n) /\ rowOf[n].status # "amended"
             /\ n \notin K => rowOf[n].status = "amended"
  <2>1. rowOf[n] = CurrentRow(rows, n)
    BY DEF CurrentOf
  <2>2. K = ToSet(x)
    <3> HIDE DEF x
    <3> QED BY <1>3, DistinctTypes
  <2>3. PICK row \in ToSet(rows) : row.node = n
    BY <1>3, <1>4, NodesOnIs
  <2> HIDE DEF known, rowOf, K
  <2> QED BY <2>1, <2>2, <2>3, UnsharedCurrent
<1>6. K \subseteq ToSet(known) /\ K = ToSet(x) /\ order \in Seq(NodeId)
  <2>1. ToSet(x \o y) = ToSet(x) \cup ToSet(y)
    <3> HIDE DEF x, y
    <3> QED BY <1>3, ElementsAre
  <2>2. x \o y \in Seq(NodeId)
    BY <1>3
  <2> HIDE DEF x, y
  <2>3. ToSet(known) = ToSet(x \o y)
    BY <1>3, <2>2, DistinctTypes
  <2>4. K = ToSet(x) /\ order \in Seq(NodeId)
    BY <1>3, DistinctTypes
  <2> QED BY <2>1, <2>3, <2>4
<1>7. \A n \in ToSet(known) : n \in Act <=> rowOf[n].status \notin {"retired", "amended"}
  BY DEF ActiveOf
<1>8. Act \subseteq ToSet(known)
  BY DEF ActiveOf
<1>9. rowOf \in [ToSet(known) -> KnowledgeRow]
  BY CurrentOfIs
<1>10. active = Only(Distinct(known), Act)
  <2> HIDE DEF Act, known, rowOf
  <2> QED BY <1>8, NamedIs DEF known, rowOf
<1> HIDE DEF known, rowOf, Act, K, NotRetired, x, y, active
<1>11. \A n \in K : f[n] = rowOf[n] /\ f[n] \in KnowledgeRow /\ (f[n] \in NotRetired <=> n \in Act)
  <2> SUFFICES ASSUME NEW n \in K
               PROVE  f[n] = rowOf[n] /\ f[n] \in KnowledgeRow /\ (f[n] \in NotRetired <=> n \in Act)
    OBVIOUS
  <2>1. n \in ToSet(known) /\ f[n] = LatestOf(rows, n)
    BY <1>6
  <2> HIDE DEF f
  <2>2. f[n] = rowOf[n] /\ rowOf[n].status # "amended" /\ rowOf[n] \in KnowledgeRow
    BY <1>5, <1>9, <2>1
  <2> QED BY <1>7, <2>1, <2>2 DEF NotRetired
<1>12. Act \subseteq K
  BY <1>5, <1>7, <1>8
<1>13. f \in [K -> KnowledgeRow]
  BY <1>11
<1> HIDE DEF f
<1>14. Only(Distinct(known), Act) = Only(order, Act)
  <2>1. x \o y \in Seq(NodeId)
    BY <1>3
  <2>2. Distinct(known) = known
    BY <1>3, <2>1, DistinctTwice
  <2>3. Act \subseteq ToSet(x)
    BY <1>6, <1>12
  <2>4. Only(Distinct(x \o y), Act) = Only(Distinct(x), Act)
    BY <1>3, <2>3, DistinctJoined
  <2> QED BY <1>3, <2>2, <2>4
<1>15. order \in Seq(K) /\ ToSet(order) = K
  <2>1. \A i \in DOMAIN order : order[i] \in K
    BY DEF K, ToSet
  <2> QED BY <1>6, <2>1 DEF K
<1> HIDE DEF order
<1>16. \A a \in K : a \in Act <=> f[a] \in NotRetired
  BY <1>11
<1>17. Only(Mapped(f, order), NotRetired) = Mapped(f, Only(order, Act))
  <2>1. KeepsMapped(f, order, NotRetired, Act)
    BY <1>13, <1>15, <1>16, OnlyMapped
  <2> QED BY <2>1 DEF KeepsMapped
<1>18. LatestPerNode(rows) = Mapped(f, active)
  BY <1>1, <1>10, <1>14, <1>17
<1>19. active \in Seq(K)
  <2>1. Only(order, Act) \in Seq(K)
    BY <1>15, OnlyTypes
  <2> QED BY <1>10, <1>14, <2>1
<1>20. \A i \in DOMAIN active : active[i] \in K
  BY <1>19
<1>21. /\ DOMAIN LatestPerNode(rows) = DOMAIN active
       /\ \A i \in DOMAIN active :
             /\ active[i] \in ToSet(known)
             /\ LatestPerNode(rows)[i] = rowOf[active[i]]
  BY <1>6, <1>11, <1>18, <1>20 DEF Mapped
<1> QED BY <1>21 DEF active, known, rowOf, Act

\* The ledgers have rows, and the graph of the snapshot is their fold.
WorkflowIInv ==
    /\ ledger \in [PaperId -> Seq(KnowledgeRow)]
    /\ trials \in Seq(Trial)
    /\ graph = FoldLedgers(Knowledge, trials)

LEMMA KnowledgeIs ==
    ASSUME NEW lists \in [PaperId -> Seq(KnowledgeRow)]
    PROVE  Joined(lists) \in Seq(KnowledgeRow)
<1>1. lists \in Seq(Seq(KnowledgeRow))
  <2>1. PaperCount \in Nat
    BY LedgersAssumption
  <2> QED BY <2>1 DEF PaperId
<1> QED BY <1>1, JoinedTypes

LEMMA FoldMeets ==
    ASSUME WorkflowIInv
    PROVE  FoldMeetsReference
<1> DEFINE rows == Knowledge
           known == OrderedNodes(rows)
           rowOf == CurrentOf(rows)
           named == Named(known, rowOf, trials)
           Act == ActiveOf(rows)
           K == ToSet(known)
           N == ToSet(named)
<1>1. rows \in Seq(KnowledgeRow) /\ trials \in Seq(Trial)
  BY KnowledgeIs DEF WorkflowIInv, Knowledge
<1>2. /\ graph.order = named
      /\ graph.status = [n \in N |-> IF n \in DOMAIN rowOf THEN rowOf[n].status ELSE "unknown"]
      /\ graph.active = {n \in DOMAIN rowOf : rowOf[n].status \notin {"retired", "amended"}}
      /\ graph.preds = [n \in N |-> IF n \in DOMAIN rowOf THEN rowOf[n].preds ELSE {}]
      /\ graph.trials = [n \in N |-> TrialStats(trials, n)]
  BY FoldIs DEF WorkflowIInv
<1>3. rowOf \in [K -> KnowledgeRow] /\ \A n \in K : rowOf[n].node = n
  <2> HIDE DEF rows
  <2> QED BY <1>1, CurrentOfIs
<1>4. graph.active = Act
  BY <1>2, <1>3 DEF ActiveOf
<1>5. K \subseteq N /\ \A n \in K : rowOf[n].preds \subseteq N
  <2> HIDE DEF rows
  <2> QED BY <1>1, NamedIs
<1>6. K = ToSet(NodesOn(rows))
  <2> HIDE DEF rows
  <2> QED BY <1>1, OrderedNodesIs
<1>7. Nodes = N
  BY <1>2 DEF Nodes
<1>8. ~ Shared(rows) =>
        /\ DOMAIN LatestPerNode(rows) = DOMAIN Only(named, Act)
        /\ \A i \in DOMAIN Only(named, Act) :
              /\ Only(named, Act)[i] \in K
              /\ LatestPerNode(rows)[i] = rowOf[Only(named, Act)[i]]
  <2> HIDE DEF rows
  <2> QED BY <1>1, ActiveIsLatest
<1> HIDE DEF rowOf, named, Act, K, N, known
<1>9. Shared(Knowledge) \/ ActiveRows = LatestRows
  <2> SUFFICES ASSUME ~ Shared(rows) PROVE ActiveRows = LatestRows
    OBVIOUS
  <2> DEFINE active == Only(named, Act)
             latest == LatestPerNode(rows)
  <2>1. ActiveRows = [i \in DOMAIN active |-> <<active[i], graph.status[active[i]], graph.preds[active[i]]>>]
    BY <1>2, <1>4 DEF ActiveRows
  <2>2. LatestRows = [i \in DOMAIN latest |-> <<latest[i].node, latest[i].status, latest[i].preds>>]
    BY DEF LatestRows
  <2>3. DOMAIN latest = DOMAIN active
        /\ \A i \in DOMAIN active : active[i] \in K /\ latest[i] = rowOf[active[i]]
    BY <1>8
  <2> HIDE DEF active, latest, rows
  <2>4. ASSUME NEW i \in DOMAIN active
        PROVE  /\ latest[i].node = active[i] /\ latest[i].status = graph.status[active[i]]
               /\ latest[i].preds = graph.preds[active[i]]
    <3>1. active[i] \in K /\ active[i] \in N /\ active[i] \in DOMAIN rowOf
      BY <1>3, <1>5, <2>3
    <3>2. latest[i] = rowOf[active[i]] /\ rowOf[active[i]].node = active[i]
      BY <1>3, <2>3, <3>1
    <3>3. graph.status[active[i]] = rowOf[active[i]].status
          /\ graph.preds[active[i]] = rowOf[active[i]].preds
      BY <1>2, <3>1
    <3> QED BY <3>2, <3>3
  <2> QED BY <2>1, <2>2, <2>3, <2>4
<1>10. \A n \in Nodes : graph.preds[n] \subseteq Nodes
  <2> SUFFICES ASSUME NEW n \in N PROVE graph.preds[n] \subseteq N
    BY <1>7
  <2>1. CASE n \in DOMAIN rowOf
    <3>1. graph.preds[n] = rowOf[n].preds
      BY <1>2, <2>1
    <3> QED BY <1>3, <1>5, <2>1, <3>1
  <2>2. CASE n \notin DOMAIN rowOf
    <3>1. graph.preds[n] = {}
      BY <1>2, <2>2
    <3> QED BY <3>1
  <2> QED BY <2>1, <2>2
<1>11. \A i \in DOMAIN Knowledge : Knowledge[i].node \in Nodes
  <2>1. \A a \in KnowledgeRow : a.node \in NodeId
    BY RowIs
  <2>2. \A i \in DOMAIN rows : rows[i].node \in ToSet(NodesOn(rows))
    <3> HIDE DEF rows
    <3> QED BY <1>1, <2>1, NodesOnIs
  <2> QED BY <1>5, <1>6, <1>7, <2>2
<1>12. \A n \in Nodes :
          IsStreak(graph.trials[n].failStreak,
                   Only(trials, {t \in Trial : t.node = n /\ t.outcome # "amended"}))
  <2> SUFFICES ASSUME NEW n \in N
               PROVE  IsStreak(graph.trials[n].failStreak,
                               Only(trials, {t \in Trial : t.node = n /\ t.outcome # "amended"}))
    BY <1>7
  <2>1. graph.trials[n] = TrialStats(trials, n)
    BY <1>2
  <2> QED BY <1>1, <2>1, TrialsStreak
<1> QED BY <1>9, <1>10, <1>11, <1>12 DEF FoldMeetsReference

LEMMA WorkflowInitIInv == WorkflowInit => WorkflowIInv
<1> SUFFICES ASSUME WorkflowInit PROVE WorkflowIInv
  OBVIOUS
<1>1. ledger \in [PaperId -> Seq(KnowledgeRow)]
  BY LedgersAssumption DEF WorkflowInit
<1>2. trials \in Seq(Trial)
  BY DEF WorkflowInit
<1> QED BY <1>1, <1>2 DEF WorkflowInit, WorkflowIInv

LEMMA WorkflowNextIInv == WorkflowIInv /\ [WorkflowNext]_workflowVars => WorkflowIInv'
<1> SUFFICES ASSUME WorkflowIInv, [WorkflowNext]_workflowVars PROVE WorkflowIInv'
  OBVIOUS
<1>1. ASSUME NEW row \in Rows, AppendRow(row) PROVE WorkflowIInv'
  <2>1. row \in KnowledgeRow /\ row.paper \in PaperId
    BY LedgersAssumption, RowIs
  <2>2. ledger[row.paper] \in Seq(KnowledgeRow)
    BY <2>1 DEF WorkflowIInv
  <2>3. Append(ledger[row.paper], row) \in Seq(KnowledgeRow)
    BY <2>1, <2>2
  <2>4. ledger' \in [PaperId -> Seq(KnowledgeRow)]
    BY <1>1, <2>1, <2>3 DEF AppendRow, WorkflowIInv
  <2> QED BY <1>1, <2>4 DEF AppendRow, Refold, WorkflowIInv
<1>2. ASSUME NEW trial \in Trials, AppendTrial(trial) PROVE WorkflowIInv'
  <2>1. trial \in Trial
    BY LedgersAssumption
  <2>2. trials' \in Seq(Trial)
    BY <1>2, <2>1 DEF AppendTrial, WorkflowIInv
  <2> QED BY <1>2, <2>2 DEF AppendTrial, Refold, WorkflowIInv
<1>3. CASE UNCHANGED workflowVars
  BY <1>3 DEF workflowVars, WorkflowIInv, Knowledge
<1> QED BY <1>1, <1>2, <1>3 DEF WorkflowNext

\* However the ledgers grow, from whatever rows they start: the active nodes of
\* the graph are the rows of the Python tools' fold in its order while no two papers
\* write rows of one node, everything that is named is a node, and the streak of
\* a node counts the trials that failed since one passed (foldLedgers).
THEOREM FoldMeetsReferenceHolds == WorkflowSpec => []FoldMeetsReference
<1>1. WorkflowIInv => FoldMeetsReference
  BY FoldMeets
<1> QED BY WorkflowInitIInv, WorkflowNextIInv, <1>1, PTL DEF WorkflowSpec

-----------------------------------------------------------------------------
(* What can be reached.                                                     *)

\* A sequence of distinct elements is as long as they are many.
Once(s) == \A i, j \in DOMAIN s : s[i] = s[j] => i = j

LEMMA DistinctOnce ==
    ASSUME NEW A, NEW s \in Seq(A)
    PROVE  Once(Distinct(s))
<1> DEFINE T == {t \in Seq(A) : Once(Distinct(t))}
<1>1. <<>> \in T
  BY DistinctNone DEF Once
<1>2. ASSUME NEW t \in T \cap Seq(A), NEW x \in A PROVE Append(t, x) \in T
  <2> DEFINE d == Distinct(t)
             u == Append(d, x)
  <2>1. t \in Seq(A) /\ Append(t, x) \in Seq(A) /\ Once(d)
    OBVIOUS
  <2>2. d \in Seq(A) /\ Distinct(Append(t, x)) = Listing(d, x)
    BY <2>1, DistinctTypes, DistinctAppend
  <2> HIDE DEF d
  <2>3. CASE x \in ToSet(d)
    <3>1. Listing(d, x) = d
      BY <2>2, <2>3, ListingIs
    <3> QED BY <2>1, <2>2, <3>1
  <2>4. CASE x \notin ToSet(d)
    <3>1. Listing(d, x) = u
      BY <2>2, <2>4, ListingIs
    <3>2. /\ Len(d) \in Nat /\ DOMAIN d = 1 .. Len(d) /\ DOMAIN u = 1 .. Len(d) + 1
          /\ u[Len(d) + 1] = x /\ \A i \in 1 .. Len(d) : u[i] = d[i]
      BY <2>2
    <3>3. \A i \in 1 .. Len(d) : d[i] # x
      BY <2>4, <3>2 DEF ToSet
    <3> HIDE DEF u
    <3>4. \A i \in 1 .. Len(d) + 1 : i = Len(d) + 1 \/ i \in 1 .. Len(d)
      BY <3>2
    <3>5. Once(u)
      BY <2>1, <3>2, <3>3, <3>4 DEF Once
    <3> QED BY <2>1, <2>2, <3>1, <3>5
  <2> QED BY <2>3, <2>4
<1>3. Seq(A) \subseteq T
  <2> HIDE DEF T
  <2> QED BY <1>1, <1>2, AppendingReaches
<1> QED BY <1>3

LEMMA LengthIs ==
    ASSUME NEW A, NEW s \in Seq(A), Once(s)
    PROVE  IsFiniteSet(ToSet(s)) /\ Len(s) = Cardinality(ToSet(s))
<1>1. Len(s) \in Nat /\ DOMAIN s = 1 .. Len(s)
  OBVIOUS
<1>2. IsFiniteSet(1 .. Len(s)) /\ Cardinality(1 .. Len(s)) = Len(s)
  <2>1. IF 1 > Len(s) THEN Len(s) = 0 ELSE Len(s) - 1 + 1 = Len(s)
    BY <1>1
  <2> QED BY <1>1, <2>1, FS_Interval
<1> DEFINE f == [i \in 1 .. Len(s) |-> s[i]]
<1>3. f \in Bijection(1 .. Len(s), ToSet(s))
  BY <1>1 DEF Bijection, Injection, Surjection, IsInjective, ToSet, Once
<1>4. ExistsBijection(1 .. Len(s), ToSet(s))
  <2> HIDE DEF f
  <2> QED BY <1>3 DEF ExistsBijection
<1> QED BY <1>2, <1>4, FS_Bijection

\* What a loop makes of a state, turn by turn.
Chains(L, start, n, F) ==
    {h \in [0 .. n -> L] : h[0] = start /\ \A i \in 1 .. n : h[i] = F[h[i - 1]]}

LEMMA ChainHas ==
    ASSUME NEW L, NEW start \in L, NEW n \in Nat, NEW F \in [L -> L]
    PROVE  Chains(L, start, n, F) # {}
<1> DEFINE G == [p \in (1 .. n) \X L |-> F[p[2]]]
<1>1. G \in [(1 .. n) \X L -> L] /\ \A i \in 1 .. n, l \in L : G[<<i, l>>] = F[l]
  OBVIOUS
<1> HIDE DEF G
<1>2. Solutions(L, start, n, G) # {}
  BY <1>1, RecursionHas, Zenon
<1>3. PICK h \in [0 .. n -> L] : h[0] = start /\ \A i \in 1 .. n : h[i] = G[<<i, h[i - 1]>>]
  BY <1>2 DEF Solutions
<1>4. \A i \in 1 .. n : h[i] = F[h[i - 1]]
  <2>1. \A i \in 1 .. n : i - 1 \in 0 .. n
    OBVIOUS
  <2> QED BY <1>1, <1>3, <2>1
<1> QED BY <1>3, <1>4 DEF Chains

LEMMA ChainStays ==
    ASSUME NEW L, NEW n \in Nat, NEW F \in [L -> L], NEW c, c[0] \in L,
           \A i \in 1 .. n : c[i - 1] \in L => c[i] = F[c[i - 1]]
    PROVE  \A i \in 0 .. n : c[i] \in L
<1> DEFINE T == {i \in 0 .. n : c[i] \in L}
<1>1. 0 \in T
  OBVIOUS
<1>2. ASSUME NEW i \in 1 .. n, i - 1 \in T PROVE i \in T
  <2>1. i \in 0 .. n /\ c[i - 1] \in L
    BY <1>2
  <2>2. c[i] = F[c[i - 1]]
    BY <2>1
  <2>3. F[c[i - 1]] \in L
    BY <2>1
  <2> QED BY <2>1, <2>2, <2>3
<1>3. 0 .. n \subseteq T
  <2> HIDE DEF T
  <2> QED BY <1>1, <1>2, CountingReaches
<1> QED BY <1>3

\* What grows inside a finite set has stopped growing after as many steps as it
\* has elements.
Grows(V, F, start, n, h) ==
    /\ IsFiniteSet(V) /\ F \in [SUBSET V -> SUBSET V] /\ \A X \in SUBSET V : X \subseteq F[X]
    /\ n = Cardinality(V) /\ start \in SUBSET V /\ h \in Chains(SUBSET V, start, n, F)

Settles(F, n, h) == F[h[n]] = h[n]

LEMMA Saturates ==
    ASSUME NEW V, NEW F, NEW start, NEW n, NEW h, Grows(V, F, start, n, h)
    PROVE  Settles(F, n, h)
<1> USE DEF Settles
<1> DEFINE T == {i \in 0 .. n : F[h[i]] = h[i] \/ i <= Cardinality(h[i])}
<1>0. /\ h \in [0 .. n -> SUBSET V] /\ \A i \in 1 .. n : h[i] = F[h[i - 1]]
      /\ IsFiniteSet(V) /\ F \in [SUBSET V -> SUBSET V] /\ \A X \in SUBSET V : X \subseteq F[X]
      /\ n = Cardinality(V) /\ n \in Nat
  BY FS_CardinalityType DEF Chains, Grows
<1>1. \A X \in SUBSET V : IsFiniteSet(X) /\ Cardinality(X) \in Nat
  BY <1>0, FS_Subset, FS_CardinalityType
<1>2. 0 \in T
  <2>1. 0 \in 0 .. n /\ h[0] \in SUBSET V
    BY <1>0
  <2> QED BY <1>1, <2>1
<1>3. ASSUME NEW i \in 1 .. n, i - 1 \in T PROVE i \in T
  <2> DEFINE X == h[i - 1]
             Y == h[i]
  <2>1. i \in 0 .. n /\ i - 1 \in 0 .. n
    BY <1>0
  <2>2. X \in SUBSET V /\ Y \in SUBSET V /\ Y = F[X] /\ X \subseteq Y
    BY <1>0, <2>1
  <2>3. F[X] = X \/ i - 1 <= Cardinality(X)
    BY <1>3
  <2> HIDE DEF X, Y
  <2>4. CASE X = Y
    BY <1>0, <2>1, <2>2, <2>4 DEF Y
  <2>5. CASE X # Y
    <3>1. IsFiniteSet(Y) /\ Cardinality(Y) \in Nat /\ Cardinality(X) \in Nat
      BY <1>1, <2>2
    <3>2. Cardinality(X) <= Cardinality(Y) /\ Cardinality(X) # Cardinality(Y)
      BY <2>2, <2>5, <3>1, FS_Subset
    <3>3. i <= Cardinality(Y)
      BY <1>0, <2>1, <2>2, <2>3, <2>5, <3>1, <3>2
    <3> QED BY <2>1, <3>3 DEF Y
  <2> QED BY <2>4, <2>5
<1>4. n \in T
  <2>1. 0 .. n \subseteq T
    <3> HIDE DEF T
    <3> QED BY <1>0, <1>2, <1>3, CountingReaches
  <2>2. n \in 0 .. n
    BY <1>0
  <2> QED BY <2>1, <2>2
<1>5. CASE n <= Cardinality(h[n])
  <2>1. h[n] \in SUBSET V
    BY <1>0
  <2>2. Cardinality(h[n]) <= Cardinality(V) /\ (Cardinality(V) = Cardinality(h[n]) => V = h[n])
    BY <1>0, <2>1, FS_Subset
  <2>3. h[n] = V
    BY <1>0, <1>1, <1>5, <2>1, <2>2
  <2> QED BY <1>0, <2>1, <2>3
<1> QED BY <1>4, <1>5

\* R is what can be reached from S in one or more steps: the least set that
\* holds the successors of S and of its own elements.
LeadsOn(adj, X, T) == \A x \in X : adj[x] \subseteq T

IsReach(V, adj, S, R) ==
    /\ R \in SUBSET V /\ LeadsOn(adj, S, R) /\ LeadsOn(adj, R, R)
    /\ \A T \in SUBSET V : LeadsOn(adj, S, T) /\ LeadsOn(adj, T, T) => R \subseteq T

LEMMA ReachedIs ==
    ASSUME NEW V, IsFiniteSet(V), NEW adj \in [V -> SUBSET V], NEW S \in SUBSET V
    PROVE  IsReach(V, adj, S, Reached(adj, S))
<1> DEFINE n == Cardinality(V)
           start == UNION {adj[x] : x \in S}
           F == [X \in SUBSET V |-> X \cup UNION {adj[x] : x \in X}]
           L == SUBSET V
           Kept(f) == f = [k \in 0 .. n |-> IF k = 0 THEN start ELSE f[k - 1] \cup UNION {adj[x] : x \in f[k - 1]}]
<1>1. n \in Nat /\ start \in L
  BY FS_CardinalityType
<1>2. F \in [L -> L] /\ \A X \in L : X \subseteq F[X] /\ F[X] = X \cup UNION {adj[x] : x \in X}
  OBVIOUS
<1>3. Reached(adj, S) = (CHOOSE f : Kept(f))[n]
  <2>1. DOMAIN adj = V
    OBVIOUS
  <2> QED BY <2>1 DEF Reached, Turns
<1> HIDE DEF n, F
<1> HIDE DEF start, L
<1>5. PICK h \in [0 .. n -> L] : h[0] = start /\ \A i \in 1 .. n : h[i] = F[h[i - 1]]
  <2>1. Chains(L, start, n, F) # {}
    BY <1>1, <1>2, ChainHas
  <2> HIDE DEF Kept
  <2> QED BY <2>1 DEF Chains
<1>6. \A i \in 1 .. n : i - 1 \in 0 .. n /\ h[i - 1] \in L /\ h[i] = F[h[i - 1]]
  <2>1. \A i \in 1 .. n : i - 1 \in 0 .. n
    BY <1>1
  <2> QED BY <1>5, <2>1
<1>7. Kept(h)
  <2>1. h = [k \in 0 .. n |-> h[k]]
    BY <1>5
  <2>2. ASSUME NEW k \in 0 .. n
        PROVE  h[k] = IF k = 0 THEN start ELSE h[k - 1] \cup UNION {adj[x] : x \in h[k - 1]}
    <3>1. k = 0 \/ k \in 1 .. n
      BY <1>1
    <3> QED BY <1>2, <1>5, <1>6, <3>1
  <2> QED BY <2>1, <2>2, Zenon
<1> DEFINE c == CHOOSE f : Kept(f)
<1>8. Kept(c)
  <2> HIDE DEF Kept
  <2> QED BY <1>7
<1>9. Reached(adj, S) = c[n]
  BY <1>3
<1> HIDE DEF c
<1>10. c[0] = start /\ \A i \in 1 .. n : c[i] = c[i - 1] \cup UNION {adj[x] : x \in c[i - 1]}
  <2>1. 0 \in 0 .. n /\ \A i \in 1 .. n : i \in 0 .. n /\ i # 0
    BY <1>1
  <2> QED BY <1>8, <2>1
<1>11. c = [i \in 0 .. n |-> c[i]]
  BY <1>8
<1> HIDE DEF Kept
<1>12. c \in [0 .. n -> L]
  <2>1. c[0] \in L
    BY <1>1, <1>10
  <2>2. \A i \in 1 .. n : c[i - 1] \in L => c[i] = F[c[i - 1]]
    BY <1>2, <1>10
  <2>3. \A i \in 0 .. n : c[i] \in L
    BY <1>1, <1>2, <2>1, <2>2, ChainStays
  <2> QED BY <1>11, <2>3
<1>13. \A i \in 1 .. n : i - 1 \in 0 .. n /\ i \in 0 .. n /\ c[i - 1] \in L /\ c[i] = F[c[i - 1]]
  <2>1. \A i \in 1 .. n : i - 1 \in 0 .. n /\ i \in 0 .. n
    BY <1>1
  <2> QED BY <1>2, <1>10, <1>12, <2>1
<1>14. F[c[n]] = c[n] /\ c[n] \in L
  <2>1. n \in 0 .. n
    BY <1>1
  <2>2. F[c[n]] = c[n]
    <3>1. F \in [SUBSET V -> SUBSET V] /\ \A X \in SUBSET V : X \subseteq F[X]
      BY <1>2 DEF L
    <3>2. c \in Chains(SUBSET V, start, n, F)
      BY <1>10, <1>12, <1>13 DEF L, Chains
    <3>3. start \in SUBSET V /\ n = Cardinality(V)
      BY <1>1 DEF L, n
    <3>4. Grows(V, F, start, n, c)
      BY <3>1, <3>2, <3>3 DEF Grows
    <3>5. Settles(F, n, c)
      BY <3>4, Saturates
    <3> QED BY <3>5 DEF Settles
  <2> QED BY <1>12, <2>1, <2>2
<1>15. start \subseteq c[n]
  <2> DEFINE T == {i \in 0 .. n : start \subseteq c[i]}
  <2>1. 0 \in T
    BY <1>1, <1>10
  <2>2. ASSUME NEW i \in 1 .. n, i - 1 \in T PROVE i \in T
    BY <1>2, <1>13, <2>2
  <2>3. 0 .. n \subseteq T
    <3> HIDE DEF T
    <3> QED BY <1>1, <2>1, <2>2, CountingReaches
  <2>4. n \in 0 .. n
    BY <1>1
  <2> QED BY <2>3, <2>4
<1>16. LeadsOn(adj, S, c[n])
  BY <1>15 DEF start, LeadsOn
<1>17. LeadsOn(adj, c[n], c[n])
  <2>1. c[n] = c[n] \cup UNION {adj[x] : x \in c[n]}
    BY <1>2, <1>14
  <2> QED BY <2>1 DEF LeadsOn
<1>18. ASSUME NEW T \in SUBSET V, LeadsOn(adj, S, T), LeadsOn(adj, T, T) PROVE c[n] \subseteq T
  <2> DEFINE P == {i \in 0 .. n : c[i] \subseteq T}
  <2>1. 0 \in P
    BY <1>1, <1>10, <1>18 DEF start, LeadsOn
  <2>2. ASSUME NEW i \in 1 .. n, i - 1 \in P PROVE i \in P
    <3>1. c[i] = c[i - 1] \cup UNION {adj[x] : x \in c[i - 1]}
      BY <1>10
    <3> QED BY <1>13, <1>18, <2>2, <3>1 DEF LeadsOn
  <2>3. 0 .. n \subseteq P
    <3> HIDE DEF P
    <3> QED BY <1>1, <2>1, <2>2, CountingReaches
  <2>4. n \in 0 .. n
    BY <1>1
  <2> QED BY <2>3, <2>4
<1> QED BY <1>9, <1>14, <1>16, <1>17, <1>18 DEF IsReach, L

-----------------------------------------------------------------------------
(* How far a node is.                                                       *)

\* D is how many steps from a lead to each node of W.
IsDistance(adj, a, W, n, D) ==
    /\ a \in W /\ D \in [W -> 0 .. n] /\ D[a] = 0
    /\ \A x \in W : D[x] = 0 => x = a
    /\ \A x \in W : \A y \in adj[x] : y \in W /\ D[y] <= D[x] + 1
    /\ \A y \in W : D[y] > 0 => \E x \in W : D[x] + 1 = D[y] /\ y \in adj[x]

Met(adj, a) == {a} \cup Reached(adj, {a})
Distances(V, adj, a) == {D \in [Met(adj, a) -> 0 .. Cardinality(V)] :
                            IsDistance(adj, a, Met(adj, a), Cardinality(V), D)}

LEMMA DistanceIs ==
    ASSUME NEW V, IsFiniteSet(V), NEW adj \in [V -> SUBSET V], NEW a \in V
    PROVE  Distances(V, adj, a) # {}
<1> DEFINE n == Cardinality(V)
           L == SUBSET V
           F == [X \in SUBSET V |-> X \cup UNION {adj[x] : x \in X}]
           R == Reached(adj, {a})
<1>1. n \in Nat /\ {a} \in L
  BY FS_CardinalityType
<1>2. F \in [L -> L] /\ \A X \in L : X \subseteq F[X] /\ F[X] = X \cup UNION {adj[x] : x \in X}
  OBVIOUS
<1>3. IsReach(V, adj, {a}, R)
  BY ReachedIs
<1> HIDE DEF n, F, R
<1>4. PICK h \in Chains(L, {a}, n, F) : TRUE
  <2>1. Chains(L, {a}, n, F) # {}
    <3> HIDE DEF L
    <3> QED BY <1>1, <1>2, ChainHas
  <2> QED BY <2>1
<1>5. h \in [0 .. n -> L] /\ h[0] = {a} /\ \A i \in 1 .. n : h[i] = F[h[i - 1]]
  BY <1>4 DEF Chains
<1>6. \A i \in 1 .. n : i - 1 \in 0 .. n /\ i \in 0 .. n /\ h[i - 1] \in L
  <2>1. \A i \in 1 .. n : i - 1 \in 0 .. n /\ i \in 0 .. n
    BY <1>1
  <2> QED BY <1>5, <2>1
<1>7. \A i \in 1 .. n : h[i] = h[i - 1] \cup UNION {adj[x] : x \in h[i - 1]}
  BY <1>2, <1>5, <1>6
<1> DEFINE W == h[n]
<1>8. W \in L /\ W = W \cup UNION {adj[x] : x \in W}
  <2>1. n \in 0 .. n
    BY <1>1
  <2>2. Grows(V, F, {a}, n, h)
    BY <1>1, <1>2, <1>4 DEF Grows, n
  <2>3. Settles(F, n, h)
    BY <2>2, Saturates
  <2> QED BY <1>2, <1>5, <2>1, <2>3 DEF Settles
<1>9. \A j \in 0 .. n : h[j] \subseteq W
  <2> DEFINE T == {i \in 0 .. n : \A j \in 0 .. i : h[j] \subseteq h[i]}
  <2>1. 0 \in T
    BY <1>1
  <2>2. ASSUME NEW i \in 1 .. n, i - 1 \in T PROVE i \in T
    <3>1. \A j \in 0 .. i : j = i \/ j \in 0 .. i - 1
      BY <1>1
    <3>2. h[i - 1] \subseteq h[i]
      BY <1>7
    <3> QED BY <1>6, <2>2, <3>1, <3>2
  <2>3. 0 .. n \subseteq T
    <3> HIDE DEF T
    <3> QED BY <1>1, <2>1, <2>2, CountingReaches
  <2>4. n \in 0 .. n
    BY <1>1
  <2> QED BY <2>3, <2>4
<1>10. W = {a} \cup R
  <2>1. LeadsOn(adj, {a}, W) /\ LeadsOn(adj, W, W) /\ a \in W
    <3>1. 0 \in 0 .. n
      BY <1>1
    <3>2. a \in W
      BY <1>5, <1>9, <3>1
    <3> QED BY <1>8, <3>2 DEF LeadsOn
  <2>2. R \subseteq W
    BY <1>3, <1>8, <2>1 DEF IsReach
  <2>3. W \subseteq {a} \cup R
    <3> DEFINE T == {i \in 0 .. n : h[i] \subseteq {a} \cup R}
    <3>1. 0 \in T
      BY <1>1, <1>5
    <3>2. ASSUME NEW i \in 1 .. n, i - 1 \in T PROVE i \in T
      BY <1>3, <1>6, <1>7, <3>2 DEF IsReach, LeadsOn
    <3>3. 0 .. n \subseteq T
      <4> HIDE DEF T
      <4> QED BY <1>1, <3>1, <3>2, CountingReaches
    <3>4. n \in 0 .. n
      BY <1>1
    <3> QED BY <3>3, <3>4
  <2> QED BY <2>1, <2>2, <2>3
<1> DEFINE IsLeast(x, m) == m \in 0 .. n /\ x \in h[m] /\ \A k \in 0 .. n : x \in h[k] => m <= k
           D == [x \in W |-> CHOOSE m : IsLeast(x, m)]
<1>11. \A x \in W : IsLeast(x, D[x])
  <2> SUFFICES ASSUME NEW x \in W PROVE \E m : IsLeast(x, m)
    BY Zenon
  <2> DEFINE T == {k \in 0 .. n : x \in h[k]}
  <2>1. T \in SUBSET Nat /\ T # {}
    <3>1. n \in 0 .. n
      BY <1>1
    <3> QED BY <3>1
  <2>2. PICK m \in T : \A k \in T : m <= k
    BY <2>1, LeastOfNat
  <2> QED BY <2>2
<1> HIDE DEF D
<1>12. D \in [W -> 0 .. n]
  <2>1. D = [x \in W |-> D[x]]
    BY DEF D
  <2> QED BY <1>11, <2>1
<1>13. a \in W /\ D[a] = 0 /\ \A x \in W : D[x] = 0 => x = a
  <2>1. 0 \in 0 .. n /\ a \in h[0]
    BY <1>1, <1>5
  <2>2. a \in W
    BY <1>10
  <2>3. D[a] <= 0 /\ D[a] \in 0 .. n
    BY <1>11, <2>1, <2>2
  <2> QED BY <1>5, <1>11, <2>2, <2>3
<1>14. ASSUME NEW x \in W, NEW y \in adj[x] PROVE y \in W /\ D[y] <= D[x] + 1
  <2>1. y \in W
    BY <1>8
  <2>2. D[x] \in 0 .. n /\ D[y] \in 0 .. n /\ x \in h[D[x]]
    BY <1>11, <2>1
  <2>3. CASE D[x] < n
    <3> DEFINE k == D[x] + 1
    <3>1. k \in 1 .. n /\ k \in 0 .. n /\ k - 1 = D[x]
      BY <1>1, <2>2, <2>3
    <3>2. y \in h[k]
      BY <1>7, <2>2, <3>1
    <3> QED BY <1>11, <2>1, <3>1, <3>2
  <2>4. CASE ~(D[x] < n)
    BY <1>1, <2>1, <2>2, <2>4
  <2> QED BY <2>3, <2>4
<1>15. ASSUME NEW y \in W, D[y] > 0 PROVE \E x \in W : D[x] + 1 = D[y] /\ y \in adj[x]
  <2> DEFINE k == D[y]
  <2>1. k \in 1 .. n /\ k - 1 \in 0 .. n /\ y \in h[k]
    BY <1>1, <1>11, <1>15
  <2>2. y \notin h[k - 1]
    BY <1>11, <2>1
  <2>3. PICK x \in h[k - 1] : y \in adj[x]
    BY <1>7, <2>1, <2>2
  <2>4. x \in W
    BY <1>9, <2>1
  <2>5. D[x] <= k - 1 /\ D[x] \in 0 .. n
    BY <1>11, <2>1, <2>4
  <2>6. k <= D[x] + 1
    BY <1>14, <2>3, <2>4
  <2>7. D[x] + 1 = D[y]
    BY <2>1, <2>5, <2>6
  <2> QED BY <2>3, <2>4, <2>7
<1>16. IsDistance(adj, a, W, n, D)
  BY <1>12, <1>13, <1>14, <1>15 DEF IsDistance
<1> HIDE DEF W
<1>17. D \in Distances(V, adj, a)
  BY <1>10, <1>12, <1>16 DEF Distances, Met, R, n
<1> QED BY <1>17

\* What turns along the edges of a graph meet in exactly so many steps: not more
\* than what is that near, and all that is that far.
LEMMA DistanceReaches ==
    ASSUME NEW V, IsFiniteSet(V), NEW adj \in [V -> SUBSET V], NEW a \in V,
           NEW D \in Distances(V, adj, a), NEW m \in 0 .. Cardinality(V),
           NEW c \in [0 .. m -> SUBSET V], c[0] = {a},
           \A i \in 1 .. m : c[i] = UNION {adj[x] : x \in c[i - 1]}
    PROVE  /\ \A y \in c[m] : y \in Met(adj, a) /\ D[y] <= m
           /\ \A y \in Met(adj, a) : D[y] = m => y \in c[m]
<1> DEFINE W == Met(adj, a)
           n == Cardinality(V)
<1>1. IsDistance(adj, a, W, n, D) /\ n \in Nat
  BY FS_CardinalityType DEF Distances
<1> HIDE DEF W, n
<1>2. m \in Nat /\ m \in 0 .. m
  BY <1>1 DEF n
<1>3. \A y \in W : D[y] \in Nat
  BY <1>1 DEF IsDistance
<1> DEFINE T == {i \in 0 .. m : (\A y \in c[i] : y \in W /\ D[y] <= i) /\ (\A y \in W : D[y] = i => y \in c[i])}
<1>4. 0 \in T
  BY <1>1, <1>2 DEF IsDistance
<1>5. ASSUME NEW i \in 1 .. m, i - 1 \in T PROVE i \in T
  <2>1. i \in 0 .. m /\ i - 1 \in 0 .. m /\ i \in Nat
    BY <1>2
  <2>2. c[i] = UNION {adj[x] : x \in c[i - 1]}
    OBVIOUS
  <2>3. ASSUME NEW y \in c[i] PROVE y \in W /\ D[y] <= i
    <3>1. PICK x \in c[i - 1] : y \in adj[x]
      BY <2>2, <2>3
    <3>2. x \in W /\ D[x] <= i - 1
      BY <1>5
    <3>3. y \in W /\ D[y] <= D[x] + 1
      BY <1>1, <3>1, <3>2 DEF IsDistance
    <3> QED BY <1>3, <2>1, <3>2, <3>3
  <2>4. ASSUME NEW y \in W, D[y] = i PROVE y \in c[i]
    <3>1. D[y] > 0
      BY <1>2, <2>4
    <3>2. PICK x \in W : D[x] + 1 = D[y] /\ y \in adj[x]
      BY <1>1, <3>1 DEF IsDistance
    <3>3. D[x] = i - 1
      BY <1>3, <2>1, <2>4, <3>2
    <3>4. x \in c[i - 1]
      BY <1>5, <3>3
    <3> QED BY <2>2, <3>2, <3>4
  <2> QED BY <2>1, <2>3, <2>4
<1>6. 0 .. m \subseteq T
  <2> HIDE DEF T
  <2> QED BY <1>2, <1>4, <1>5, CountingReaches
<1>7. m \in T
  BY <1>2, <1>6
<1> QED BY <1>7 DEF W

-----------------------------------------------------------------------------
(* Routes: the search goes by distance, and what was found leads back.      *)

IsList(V, adj, succ) == succ \in [V -> Seq(V)] /\ \A x \in V : ToSet(succ[x]) = adj[x]

StepsAlong(V, adj, level) == {p \in V \X V : p[1] \in ToSet(level) /\ p[2] \in adj[p[1]]}

LEMMA StepsAre ==
    ASSUME NEW V, NEW adj, NEW succ, IsList(V, adj, succ), NEW level \in Seq(V)
    PROVE  /\ Steps(succ, level) \in Seq(V \X V)
           /\ ToSet(Steps(succ, level)) = StepsAlong(V, adj, level)
<1> DEFINE P == StepsAlong(V, adj, level)
           Of(x) == [j \in DOMAIN succ[x] |-> <<x, succ[x][j]>>]
           lists == [i \in DOMAIN level |-> Of(level[i])]
<1>1. Len(level) \in Nat /\ DOMAIN level = 1 .. Len(level) /\ \A i \in DOMAIN level : level[i] \in ToSet(level) /\ level[i] \in V
  BY DEF ToSet
<1>2. ASSUME NEW x \in V, x \in ToSet(level) PROVE Of(x) \in Seq(P) /\ ToSet(Of(x)) = {<<x, y>> : y \in adj[x]}
  <2>1. succ[x] \in Seq(V) /\ ToSet(succ[x]) = adj[x]
    BY DEF IsList
  <2>2. Len(succ[x]) \in Nat /\ DOMAIN succ[x] = 1 .. Len(succ[x])
    BY <2>1
  <2>3. \A j \in 1 .. Len(succ[x]) : succ[x][j] \in V /\ succ[x][j] \in adj[x]
    BY <2>1, <2>2 DEF ToSet
  <2>4. \A j \in 1 .. Len(succ[x]) : <<x, succ[x][j]>> \in P
    BY <1>2, <2>3 DEF StepsAlong
  <2>5. Of(x) \in [1 .. Len(succ[x]) -> P]
    <3> HIDE DEF P
    <3> QED BY <2>2, <2>4
  <2>6. Of(x) \in Seq(P)
    <3> HIDE DEF P
    <3> QED BY <2>2, <2>5
  <2>7. ToSet(Of(x)) = {<<x, succ[x][j]>> : j \in DOMAIN succ[x]}
    BY DEF ToSet
  <2>8. adj[x] = {succ[x][j] : j \in DOMAIN succ[x]}
    BY <2>1 DEF ToSet
  <2> QED BY <2>6, <2>7, <2>8
<1>0. P = {p \in V \X V : p[1] \in ToSet(level) /\ p[2] \in adj[p[1]]}
  BY DEF StepsAlong
<1> HIDE DEF P, Of
<1>3. lists \in Seq(Seq(P)) /\ DOMAIN lists = DOMAIN level
  <2>1. \A i \in DOMAIN level : Of(level[i]) \in Seq(P)
    BY <1>1, <1>2
  <2>2. lists \in [1 .. Len(level) -> Seq(P)]
    BY <1>1, <2>1
  <2> QED BY <1>1, <2>2
<1>4. Steps(succ, level) = Joined(lists)
  BY DEF Steps, Of
<1>5. \A i \in DOMAIN level : lists[i] = Of(level[i])
  OBVIOUS
<1> HIDE DEF lists
<1>6. /\ Joined(lists) \in Seq(P)
      /\ \A i \in DOMAIN lists : ToSet(lists[i]) \subseteq ToSet(Joined(lists))
  BY <1>3, JoinedTypes
<1>7. ToSet(Joined(lists)) \subseteq P
  BY <1>6, ElementsAre
<1>8. P \subseteq ToSet(Joined(lists))
  <2> SUFFICES ASSUME NEW x \in V, NEW y \in V, x \in ToSet(level), y \in adj[x]
               PROVE  <<x, y>> \in ToSet(Joined(lists))
    BY <1>0
  <2>1. PICK i \in DOMAIN level : level[i] = x
    BY DEF ToSet
  <2>2. <<x, y>> \in ToSet(Of(x))
    BY <1>2
  <2> QED BY <1>3, <1>5, <1>6, <2>1, <2>2
<1>9. Joined(lists) \in Seq(V \X V)
  <2>1. P \subseteq V \X V
    BY <1>0
  <2> QED BY <1>6, <2>1
<1> QED BY <1>4, <1>7, <1>8, <1>9 DEF P

\* The first of the steps that lead to a node is one that does.
FirstTo(steps, y) == steps[SelectInSeq(steps, LAMBDA s : s[2] = y)]

LEMMA FirstStepIs ==
    ASSUME NEW V, NEW steps \in Seq(V \X V), NEW y, \E i \in DOMAIN steps : steps[i][2] = y
    PROVE  FirstTo(steps, y) \in ToSet(steps) /\ FirstTo(steps, y)[2] = y
<1> DEFINE I == {i \in 1 .. Len(steps) : steps[i][2] = y}
<1>1. Len(steps) \in Nat /\ DOMAIN steps = 1 .. Len(steps)
  OBVIOUS
<1>2. I \in SUBSET Nat /\ I # {}
  BY <1>1
<1>3. SelectInSeq(steps, LAMBDA s : s[2] = y) = Min(I)
  BY <1>2 DEF SelectInSeq
<1>4. Min(I) \in I
  <2> HIDE DEF I
  <2>1. \E m \in I : \A k \in I : m <= k
    BY <1>2, LeastOfNat
  <2> QED BY <2>1 DEF Min
<1>5. steps[Min(I)] \in ToSet(steps) /\ steps[Min(I)][2] = y
  BY <1>1, <1>4 DEF ToSet
<1> QED BY <1>3, <1>5 DEF FirstTo

HeadsOf(steps) == {p[2] : p \in ToSet(steps)}

LEMMA UnmetIs ==
    ASSUME NEW V \in SUBSET NodeId, NEW steps \in Seq(V \X V), NEW from
    PROVE  /\ Unmet(steps, from) \in Seq(V)
           /\ ToSet(Unmet(steps, from)) = HeadsOf(steps) \ DOMAIN from
<1> DEFINE heads == [i \in DOMAIN steps |-> steps[i][2]]
<1>1. /\ Len(steps) \in Nat /\ DOMAIN steps = 1 .. Len(steps)
      /\ \A i \in 1 .. Len(steps) : steps[i] \in V \X V
  OBVIOUS
<1>2. heads \in Seq(V)
  <2>1. \A i \in 1 .. Len(steps) : steps[i][2] \in V
    BY <1>1
  <2>2. heads \in [1 .. Len(steps) -> V]
    BY <1>1, <2>1
  <2> QED BY <1>1, <2>2
<1>3. ToSet(heads) = HeadsOf(steps)
  BY DEF ToSet, HeadsOf
<1> DEFINE S == NodeId \ DOMAIN from
           o == Only(heads, S)
<1>4. o \in Seq(V) /\ ToSet(o) = ToSet(heads) \cap S
  <2> HIDE DEF heads, S
  <2> QED BY <1>2, OnlyTypes
<1>5. Unmet(steps, from) = Distinct(o)
  BY DEF Unmet
<1>6. ToSet(heads) \subseteq NodeId
  BY <1>2, ElementsAre
<1> HIDE DEF o, heads
<1>7. Distinct(o) \in Seq(V) /\ ToSet(Distinct(o)) = ToSet(o)
  BY <1>4, DistinctTypes
<1> QED BY <1>3, <1>4, <1>5, <1>6, <1>7

\* A search that is d levels deep has met what is that near, and knows of each
\* node one before it that is one step nearer.
LeadsBack(adj, W, D, a, from) ==
    \A x \in DOMAIN from : x # a => /\ from[x] \in DOMAIN from /\ D[from[x]] + 1 = D[x]
                                    /\ x \in adj[from[x]]
IsDeep(adj, W, D, a, b, d) ==
    /\ b.level \in Seq(W) /\ ToSet(b.level) = {x \in W : D[x] = d}
    /\ DOMAIN b.from = {x \in W : D[x] <= d}
    /\ LeadsBack(adj, W, D, a, b.from)
Searches(V, adj, W, D, a) ==
    {b \in [level : Seq(W), from : UNION {[S -> W] : S \in SUBSET W}] :
        \E d \in Nat : IsDeep(adj, W, D, a, b, d)}

LEMMA StepDeepens ==
    ASSUME NEW V \in SUBSET NodeId, IsFiniteSet(V), NEW adj \in [V -> SUBSET V], NEW a \in V,
           NEW succ, IsList(V, adj, succ), NEW D \in Distances(V, adj, a),
           NEW W \in SUBSET V, W = Met(adj, a),
           NEW b \in Searches(V, adj, W, D, a), NEW d \in Nat, IsDeep(adj, W, D, a, b, d)
    PROVE  LET next == RouteStep(Steps(succ, b.level), b) IN
           next \in Searches(V, adj, W, D, a) /\ IsDeep(adj, W, D, a, next, d + 1)
<1> DEFINE n == Cardinality(V)
           steps == Steps(succ, b.level)
           fresh == Unmet(steps, b.from)
           next == RouteStep(steps, b)
           S == DOMAIN b.from
           I(y) == FirstTo(steps, y)
           from == [y \in S \cup ToSet(fresh) |-> IF y \in S THEN b.from[y] ELSE I(y)[1]]
<1>1. IsDistance(adj, a, W, n, D) /\ n \in Nat /\ \A y \in W : D[y] \in Nat
  <2>1. IsDistance(adj, a, W, n, D) /\ n \in Nat
    BY FS_CardinalityType DEF Distances
  <2> QED BY <2>1 DEF IsDistance
<1> HIDE DEF n
<1>2. /\ b.level \in Seq(W) /\ ToSet(b.level) = {x \in W : D[x] = d} /\ S = {x \in W : D[x] <= d}
      /\ LeadsBack(adj, W, D, a, b.from) /\ b.from \in [S -> W]
  <2>1. b.from \in UNION {[X -> W] : X \in SUBSET W}
    BY DEF Searches
  <2> QED BY <2>1 DEF IsDeep
<1>3. b.level \in Seq(V)
  BY <1>2
<1>4. /\ steps \in Seq(V \X V)
      /\ ToSet(steps) = {p \in V \X V : p[1] \in ToSet(b.level) /\ p[2] \in adj[p[1]]}
  <2>1. /\ steps \in Seq(V \X V) /\ ToSet(steps) = StepsAlong(V, adj, b.level)
    BY <1>3, StepsAre
  <2> QED BY <2>1 DEF StepsAlong
<1>5. next = [level |-> fresh, from |-> from]
  BY DEF RouteStep, CameFrom, FirstTo
<1> HIDE DEF steps, next
<1>6. fresh \in Seq(V) /\ ToSet(fresh) = {p[2] : p \in ToSet(steps)} \ S
  <2>1. fresh \in Seq(V) /\ ToSet(fresh) = HeadsOf(steps) \ S
    BY <1>4, UnmetIs
  <2> QED BY <2>1 DEF HeadsOf
<1> HIDE DEF fresh, S
<1>7. ToSet(fresh) = {y \in W : D[y] = d + 1}
  <2>1. ASSUME NEW y \in ToSet(fresh) PROVE y \in W /\ D[y] = d + 1
    <3>1. PICK p \in ToSet(steps) : p[2] = y /\ y \notin S
      BY <1>6
    <3>2. p[1] \in W /\ D[p[1]] = d /\ y \in adj[p[1]]
      BY <1>2, <1>4, <3>1
    <3>3. y \in W /\ D[y] <= d + 1
      BY <1>1, <3>2 DEF IsDistance
    <3>4. ~(D[y] <= d)
      BY <1>2, <3>1, <3>3
    <3> QED BY <1>1, <3>3, <3>4
  <2>2. ASSUME NEW y \in W, D[y] = d + 1 PROVE y \in ToSet(fresh)
    <3>1. PICK x \in W : D[x] + 1 = D[y] /\ y \in adj[x]
      BY <1>1, <2>2 DEF IsDistance
    <3>2. D[x] = d
      BY <1>1, <2>2, <3>1
    <3>3. <<x, y>> \in ToSet(steps)
      BY <1>2, <1>4, <3>1, <3>2
    <3>4. y \notin S
      BY <1>1, <1>2, <2>2
    <3> QED BY <1>6, <3>3, <3>4
  <2> QED BY <2>1, <2>2
<1>8. ASSUME NEW y \in ToSet(fresh) PROVE I(y)[1] \in W /\ D[I(y)[1]] = d /\ y \in adj[I(y)[1]]
  <2>1. PICK q \in ToSet(steps) : q[2] = y
    BY <1>6
  <2>2. \E i \in DOMAIN steps : steps[i][2] = y
    BY <2>1 DEF ToSet
  <2>3. I(y) \in ToSet(steps) /\ I(y)[2] = y
    BY <1>4, <2>2, FirstStepIs
  <2> QED BY <1>2, <1>4, <2>3
<1> HIDE DEF I
<1>9. S \cup ToSet(fresh) = {x \in W : D[x] <= d + 1}
  BY <1>1, <1>2, <1>7
<1>10. /\ DOMAIN from = S \cup ToSet(fresh)
       /\ \A y \in S : from[y] = b.from[y]
       /\ \A y \in ToSet(fresh) : y \notin S /\ from[y] = I(y)[1]
  BY <1>6
<1> HIDE DEF from
<1>11. LeadsBack(adj, W, D, a, from)
  <2> SUFFICES ASSUME NEW x \in DOMAIN from, x # a
               PROVE  from[x] \in DOMAIN from /\ D[from[x]] + 1 = D[x] /\ x \in adj[from[x]]
    BY DEF LeadsBack
  <2>1. CASE x \in S
    BY <1>2, <1>10, <2>1 DEF LeadsBack, S
  <2>2. CASE x \notin S
    <3>1. x \in ToSet(fresh) /\ from[x] = I(x)[1]
      BY <1>10, <2>2
    <3>2. from[x] \in W /\ D[from[x]] = d /\ x \in adj[from[x]]
      BY <1>8, <3>1
    <3>3. from[x] \in S
      BY <1>2, <3>2
    <3> QED BY <1>7, <1>10, <3>1, <3>2, <3>3
  <2> QED BY <2>1, <2>2
<1>12. from \in [S \cup ToSet(fresh) -> W]
  <2>1. \A y \in S \cup ToSet(fresh) : from[y] \in W
    BY <1>2, <1>8, <1>10
  <2>2. from = [y \in DOMAIN from |-> from[y]]
    BY DEF from
  <2> QED BY <1>10, <2>1, <2>2
<1>13. fresh \in Seq(W)
  <2>1. Len(fresh) \in Nat /\ DOMAIN fresh = 1 .. Len(fresh) /\ \A i \in 1 .. Len(fresh) : fresh[i] \in ToSet(fresh)
    BY <1>6 DEF ToSet
  <2>2. \A i \in 1 .. Len(fresh) : fresh[i] \in W
    BY <1>7, <2>1
  <2> QED BY <1>6, <2>1, <2>2
<1>14. next.level = fresh /\ next.from = from
  BY <1>5
<1>15. IsDeep(adj, W, D, a, next, d + 1)
  BY <1>7, <1>9, <1>10, <1>11, <1>13, <1>14 DEF IsDeep
<1>16. next \in [level : Seq(W), from : UNION {[X -> W] : X \in SUBSET W}]
  <2>1. S \cup ToSet(fresh) \in SUBSET W
    BY <1>9
  <2>2. from \in UNION {[X -> W] : X \in SUBSET W}
    BY <1>12, <2>1
  <2> QED BY <1>5, <1>13, <2>2
<1> HIDE DEF next
<1>17. next \in Searches(V, adj, W, D, a)
  BY <1>15, <1>16 DEF Searches
<1> QED BY <1>15, <1>17 DEF next, steps

Finds(adj, W, D, a, b, found) ==
    /\ DOMAIN found \in SUBSET W /\ found \in [DOMAIN found -> W]
    /\ LeadsBack(adj, W, D, a, found)
    /\ b \in DOMAIN found <=> b \in W

LEMMA SearchFinds ==
    ASSUME NEW V \in SUBSET NodeId, IsFiniteSet(V), NEW adj \in [V -> SUBSET V],
           NEW a \in V, NEW b \in V, NEW succ, IsList(V, adj, succ),
           NEW D \in Distances(V, adj, a), NEW W \in SUBSET V, W = Met(adj, a),
           NEW n, n = Cardinality(V)
    PROVE  Finds(adj, W, D, a, b, RouteSearch(succ, a, b, n))
<1> DEFINE L == Searches(V, adj, W, D, a)
           start == [level |-> <<a>>, from |-> [x \in {a} |-> x]]
           F == [s \in L |-> IF b \in DOMAIN s.from THEN s ELSE RouteStep(Steps(succ, s.level), s)]
           Kept(f) == f = [k \in 0 .. n |-> IF k = 0 THEN start ELSE
                              IF b \in DOMAIN f[k - 1].from THEN f[k - 1]
                              ELSE RouteStep(Steps(succ, f[k - 1].level), f[k - 1])]
<1>1. n \in Nat /\ IsDistance(adj, a, W, n, D) /\ \A y \in W : D[y] \in 0 .. n
  <2>1. IsDistance(adj, a, W, n, D) /\ n \in Nat
    BY FS_CardinalityType DEF Distances
  <2> QED BY <2>1 DEF IsDistance
<1>2. IsDeep(adj, W, D, a, start, 0) /\ start \in L
  <2>1. a \in W /\ {x \in W : D[x] = 0} = {a} /\ {x \in W : D[x] <= 0} = {a}
    <3>1. \A x \in W : D[x] <= 0 <=> D[x] = 0
      BY <1>1
    <3> QED BY <1>1, <3>1 DEF IsDistance
  <2>2. ToSet(<<a>>) = {a}
    BY DEF ToSet
  <2>3. start.level = <<a>> /\ DOMAIN start.from = {a}
    OBVIOUS
  <2>4. LeadsBack(adj, W, D, a, start.from)
    BY <2>3 DEF LeadsBack
  <2>5. IsDeep(adj, W, D, a, start, 0)
    BY <2>1, <2>2, <2>3, <2>4 DEF IsDeep
  <2>6. start \in [level : Seq(W), from : UNION {[S -> W] : S \in SUBSET W}]
    <3>1. [x \in {a} |-> x] \in [{a} -> W] /\ {a} \in SUBSET W /\ <<a>> \in Seq(W)
      BY <2>1
    <3> QED BY <3>1
  <2> HIDE DEF start
  <2> QED BY <2>5, <2>6 DEF Searches
<1>3. ASSUME NEW s \in L, NEW d \in Nat, IsDeep(adj, W, D, a, s, d)
      PROVE  LET next == RouteStep(Steps(succ, s.level), s) IN
             next \in L /\ IsDeep(adj, W, D, a, next, d + 1)
  BY <1>3, StepDeepens
<1>4. F \in [L -> L]
  <2> SUFFICES ASSUME NEW s \in L
               PROVE  (IF b \in DOMAIN s.from THEN s ELSE RouteStep(Steps(succ, s.level), s)) \in L
    OBVIOUS
  <2>1. PICK d \in Nat : IsDeep(adj, W, D, a, s, d)
    BY DEF Searches
  <2> HIDE DEF L
  <2> QED BY <1>3, <2>1
<1>5. \A s \in L : F[s] = IF b \in DOMAIN s.from THEN s ELSE RouteStep(Steps(succ, s.level), s)
  OBVIOUS
<1>6. RouteSearch(succ, a, b, n) = (CHOOSE f : Kept(f))[n].from
  BY DEF RouteSearch, Turns
<1> HIDE DEF start, L, F
<1>7. PICK h \in Chains(L, start, n, F) : TRUE
  <2>1. Chains(L, start, n, F) # {}
    BY <1>1, <1>2, <1>4, ChainHas
  <2> QED BY <2>1
<1>8. Kept(h)
  <2>1. h \in [0 .. n -> L] /\ h[0] = start /\ \A i \in 1 .. n : h[i] = F[h[i - 1]]
    BY DEF Chains
  <2>2. h = [k \in 0 .. n |-> h[k]]
    BY <2>1
  <2>3. ASSUME NEW k \in 0 .. n
        PROVE  h[k] = IF k = 0 THEN start ELSE
                      IF b \in DOMAIN h[k - 1].from THEN h[k - 1]
                      ELSE RouteStep(Steps(succ, h[k - 1].level), h[k - 1])
    <3>1. CASE k = 0
      BY <2>1, <3>1
    <3>2. CASE k # 0
      <4>1. k \in 1 .. n /\ k - 1 \in 0 .. n
        BY <1>1, <3>2
      <4>2. h[k - 1] \in L /\ h[k] = F[h[k - 1]]
        BY <2>1, <4>1
      <4> QED BY <1>5, <3>2, <4>2
    <3> QED BY <3>1, <3>2
  <2> QED BY <2>2, <2>3, Zenon
<1> DEFINE c == CHOOSE f : Kept(f)
<1>9. Kept(c)
  <2> HIDE DEF Kept
  <2> QED BY <1>8
<1>10. RouteSearch(succ, a, b, n) = c[n].from
  BY <1>6
<1> HIDE DEF c
<1>11. /\ c[0] = start
       /\ \A i \in 1 .. n : c[i] = IF b \in DOMAIN c[i - 1].from THEN c[i - 1]
                                   ELSE RouteStep(Steps(succ, c[i - 1].level), c[i - 1])
  <2>1. 0 \in 0 .. n /\ \A i \in 1 .. n : i \in 0 .. n /\ i # 0
    BY <1>1
  <2> QED BY <1>9, <2>1
<1> HIDE DEF Kept
<1> DEFINE T == {i \in 0 .. n : c[i] \in L /\ (b \in DOMAIN c[i].from \/ IsDeep(adj, W, D, a, c[i], i))}
<1>12. 0 \in T
  BY <1>1, <1>2, <1>11
<1>13. ASSUME NEW i \in 1 .. n, i - 1 \in T PROVE i \in T
  <2>1. i \in 0 .. n /\ i - 1 \in Nat /\ (i - 1) + 1 = i
    BY <1>1
  <2>2. CASE b \in DOMAIN c[i - 1].from
    <3>1. c[i] = c[i - 1]
      BY <1>11, <2>2
    <3> QED BY <1>13, <2>1, <2>2, <3>1
  <2>3. CASE b \notin DOMAIN c[i - 1].from
    <3>1. c[i] = RouteStep(Steps(succ, c[i - 1].level), c[i - 1])
      BY <1>11, <2>3
    <3>2. c[i - 1] \in L /\ IsDeep(adj, W, D, a, c[i - 1], i - 1)
      BY <1>13, <2>3
    <3>3. c[i] \in L /\ IsDeep(adj, W, D, a, c[i], (i - 1) + 1)
      BY <1>3, <2>1, <3>1, <3>2
    <3> QED BY <2>1, <3>3
  <2> QED BY <2>2, <2>3
<1>14. n \in T
  <2>1. 0 .. n \subseteq T
    <3> HIDE DEF T
    <3> QED BY <1>1, <1>12, <1>13, CountingReaches
  <2> QED BY <1>1, <2>1
<1> DEFINE found == c[n].from
<1>15. PICK d \in Nat : IsDeep(adj, W, D, a, c[n], d)
  <2>1. c[n] \in L
    BY <1>14
  <2> QED BY <2>1 DEF L, Searches
<1>16. DOMAIN found \in SUBSET W /\ LeadsBack(adj, W, D, a, found)
  BY <1>15 DEF IsDeep
<1>17. found \in [DOMAIN found -> W]
  <2>1. found \in UNION {[S -> W] : S \in SUBSET W}
    BY <1>14 DEF L, Searches
  <2> QED BY <2>1
<1>18. b \in DOMAIN found <=> b \in W
  <2>1. ASSUME b \in W, IsDeep(adj, W, D, a, c[n], n) PROVE b \in DOMAIN found
    <3>1. D[b] <= n
      BY <1>1, <2>1
    <3> QED BY <2>1, <3>1 DEF IsDeep
  <2> QED BY <1>14, <1>16, <2>1
<1> HIDE DEF found
<1>19. Finds(adj, W, D, a, b, found)
  BY <1>16, <1>17, <1>18 DEF Finds
<1> QED BY <1>10, <1>19 DEF found

\* A way goes along the edges from a to b, in as few steps as there can be.
IsWay(adj, D, x, b, p) ==
    /\ p # <<>> /\ p[1] = x /\ p[Len(p)] = b /\ D[x] + Len(p) = D[b] + 1
    /\ \A i \in 1 .. Len(p) - 1 : p[i + 1] \in adj[p[i]]

LEMMA WayBack ==
    ASSUME NEW adj, NEW W, NEW n \in Nat, NEW a, NEW b, NEW D \in [W -> 0 .. n],
           NEW found, Finds(adj, W, D, a, b, found), NEW p \in Seq(DOMAIN found),
           IsWay(adj, D, p[1], b, p), p[1] # a
    PROVE  LET q == <<found[p[1]]>> \o p IN
           q \in Seq(DOMAIN found) /\ IsWay(adj, D, q[1], b, q) /\ Len(q) = Len(p) + 1
<1> DEFINE x == found[p[1]]
           q == <<x>> \o p
<1>1. p # <<>> /\ Len(p) \in Nat /\ Len(p) > 0 /\ p[1] \in DOMAIN found
  <2>1. p # <<>>
    BY DEF IsWay
  <2> QED BY <2>1
<1>2. x \in DOMAIN found /\ D[x] + 1 = D[p[1]] /\ p[1] \in adj[x]
  BY <1>1 DEF Finds, LeadsBack
<1>3. D[x] \in Nat /\ D[p[1]] \in Nat /\ D[b] \in Int
  <2>1. DOMAIN found \in SUBSET W
    BY DEF Finds
  <2>2. p[Len(p)] \in DOMAIN found /\ p[Len(p)] = b
    BY <1>1 DEF IsWay
  <2> QED BY <1>1, <1>2, <2>1, <2>2
<1> HIDE DEF x
<1>4. /\ q \in Seq(DOMAIN found) /\ Len(q) = Len(p) + 1 /\ q[1] = x
      /\ \A i \in 1 .. Len(p) : q[i + 1] = p[i]
  BY <1>1, <1>2
<1> HIDE DEF q
<1>5. q[Len(q)] = b /\ q # <<>>
  <2>1. Len(p) \in 1 .. Len(p)
    BY <1>1
  <2>2. q[Len(p) + 1] = p[Len(p)]
    BY <1>4, <2>1
  <2> QED BY <1>1, <1>4, <2>2 DEF IsWay
<1>6. D[x] + Len(q) = D[b] + 1
  <2>1. D[p[1]] + Len(p) = D[b] + 1
    BY DEF IsWay
  <2> QED BY <1>1, <1>2, <1>3, <1>4, <2>1
<1>7. ASSUME NEW i \in 1 .. Len(q) - 1 PROVE q[i + 1] \in adj[q[i]]
  <2>1. i \in 1 .. Len(p) /\ q[i + 1] = p[i]
    BY <1>1, <1>4
  <2>2. CASE i = 1
    BY <1>2, <1>4, <2>1, <2>2
  <2>3. CASE i # 1
    <3>1. i - 1 \in 1 .. Len(p) - 1 /\ i - 1 \in 1 .. Len(p) /\ (i - 1) + 1 = i
      BY <1>1, <2>1, <2>3
    <3>2. q[i] = p[i - 1]
      BY <1>4, <3>1
    <3>3. p[i] \in adj[p[i - 1]]
      BY <3>1 DEF IsWay
    <3> QED BY <2>1, <3>2, <3>3
  <2> QED BY <2>2, <2>3
<1>8. IsWay(adj, D, q[1], b, q)
  BY <1>4, <1>5, <1>6, <1>7 DEF IsWay
<1> QED BY <1>4, <1>8 DEF q, x

LEMMA WalkIsWay ==
    ASSUME NEW adj, NEW W, NEW n \in Nat, NEW a, NEW b \in W, NEW D \in [W -> 0 .. n],
           D[a] = 0, \A x \in W : D[x] = 0 => x = a,
           NEW found, Finds(adj, W, D, a, b, found)
    PROVE  LET p == WalkBack(found, a, b, n) IN p \in Seq(W) /\ IsWay(adj, D, a, b, p)
<1> DEFINE Ways == {p \in Seq(DOMAIN found) : IsWay(adj, D, p[1], b, p)}
           start == <<b>>
           F == [p \in Ways |-> IF Head(p) = a THEN p ELSE <<found[Head(p)]>> \o p]
           Kept(f) == f = [k \in 0 .. n |-> IF k = 0 THEN start ELSE
                              IF Head(f[k - 1]) = a THEN f[k - 1]
                              ELSE <<found[Head(f[k - 1])]>> \o f[k - 1]]
<1>1. b \in DOMAIN found /\ DOMAIN found \in SUBSET W
  BY DEF Finds
<1>2. start \in Ways
  <2>1. start \in Seq(DOMAIN found) /\ start # <<>> /\ Len(start) = 1 /\ start[1] = b
    BY <1>1
  <2>2. D[b] \in Nat
    OBVIOUS
  <2> HIDE DEF start
  <2>3. IsWay(adj, D, start[1], b, start)
    BY <2>1, <2>2 DEF IsWay
  <2> QED BY <2>1, <2>3
<1>3. ASSUME NEW p \in Ways
      PROVE  /\ p \in Seq(DOMAIN found) /\ p # <<>> /\ Head(p) = p[1] /\ p[1] \in DOMAIN found
             /\ IsWay(adj, D, p[1], b, p)
  <2>1. p \in Seq(DOMAIN found) /\ p # <<>> /\ IsWay(adj, D, p[1], b, p)
    BY DEF IsWay
  <2> QED BY <2>1
<1>4. ASSUME NEW p \in Ways, Head(p) # a
      PROVE  LET q == <<found[Head(p)]>> \o p IN q \in Ways /\ Len(q) = Len(p) + 1
  <2>1. p[1] # a /\ Head(p) = p[1] /\ p \in Seq(DOMAIN found) /\ IsWay(adj, D, p[1], b, p)
    BY <1>3, <1>4
  <2> DEFINE q == <<found[p[1]]>> \o p
  <2>2. q \in Seq(DOMAIN found) /\ IsWay(adj, D, q[1], b, q) /\ Len(q) = Len(p) + 1
    BY <2>1, WayBack
  <2> HIDE DEF q
  <2>3. q \in Ways /\ Len(q) = Len(p) + 1
    BY <2>2
  <2> QED BY <2>1, <2>3 DEF q
<1>5. F \in [Ways -> Ways]
  <2> SUFFICES ASSUME NEW p \in Ways
               PROVE  (IF Head(p) = a THEN p ELSE <<found[Head(p)]>> \o p) \in Ways
    OBVIOUS
  <2> HIDE DEF Ways
  <2> QED BY <1>4
<1>6. \A p \in Ways : F[p] = IF Head(p) = a THEN p ELSE <<found[Head(p)]>> \o p
  OBVIOUS
<1>7. WalkBack(found, a, b, n) = (CHOOSE f : Kept(f))[n]
  BY <1>1 DEF WalkBack, Turns
<1> HIDE DEF start, Ways, F
<1>8. PICK h \in Chains(Ways, start, n, F) : TRUE
  <2>1. Chains(Ways, start, n, F) # {}
    BY <1>2, <1>5, ChainHas
  <2> QED BY <2>1
<1>9. Kept(h)
  <2>1. h \in [0 .. n -> Ways] /\ h[0] = start /\ \A i \in 1 .. n : h[i] = F[h[i - 1]]
    BY DEF Chains
  <2>2. h = [k \in 0 .. n |-> h[k]]
    BY <2>1
  <2>3. ASSUME NEW k \in 0 .. n
        PROVE  h[k] = IF k = 0 THEN start ELSE
                      IF Head(h[k - 1]) = a THEN h[k - 1]
                      ELSE <<found[Head(h[k - 1])]>> \o h[k - 1]
    <3>1. CASE k = 0
      BY <2>1, <3>1
    <3>2. CASE k # 0
      <4>1. k \in 1 .. n /\ k - 1 \in 0 .. n
        BY <3>2
      <4>2. h[k - 1] \in Ways /\ h[k] = F[h[k - 1]]
        BY <2>1, <4>1
      <4> QED BY <1>6, <3>2, <4>2
    <3> QED BY <3>1, <3>2
  <2> QED BY <2>2, <2>3, Zenon
<1> DEFINE c == CHOOSE f : Kept(f)
<1>10. Kept(c)
  <2> HIDE DEF Kept
  <2> QED BY <1>9
<1>11. WalkBack(found, a, b, n) = c[n]
  BY <1>7
<1> HIDE DEF c
<1>12. /\ c[0] = start
       /\ \A i \in 1 .. n : c[i] = IF Head(c[i - 1]) = a THEN c[i - 1]
                                   ELSE <<found[Head(c[i - 1])]>> \o c[i - 1]
  <2>1. 0 \in 0 .. n /\ \A i \in 1 .. n : i \in 0 .. n /\ i # 0
    OBVIOUS
  <2> QED BY <1>10, <2>1
<1> HIDE DEF Kept
<1> DEFINE T == {i \in 0 .. n : c[i] \in Ways /\ (Head(c[i]) = a \/ Len(c[i]) = i + 1)}
<1>13. 0 \in T
  <2>1. Len(start) = 0 + 1
    BY DEF start
  <2> QED BY <1>2, <1>12, <2>1
<1>14. ASSUME NEW i \in 1 .. n, i - 1 \in T PROVE i \in T
  <2>1. i \in 0 .. n /\ (i - 1) + 1 = i /\ c[i - 1] \in Ways
    BY <1>14
  <2>2. CASE Head(c[i - 1]) = a
    <3>1. c[i] = c[i - 1]
      BY <1>12, <2>2
    <3> QED BY <2>1, <2>2, <3>1
  <2>3. CASE Head(c[i - 1]) # a
    <3>1. c[i] = <<found[Head(c[i - 1])]>> \o c[i - 1]
      BY <1>12, <2>3
    <3>2. c[i] \in Ways /\ Len(c[i]) = Len(c[i - 1]) + 1
      BY <1>4, <2>1, <2>3, <3>1
    <3>3. Len(c[i - 1]) = i
      BY <1>14, <2>1, <2>3
    <3> QED BY <2>1, <3>2, <3>3
  <2> QED BY <2>2, <2>3
<1>15. n \in T
  <2>1. 0 .. n \subseteq T
    <3> HIDE DEF T
    <3> QED BY <1>13, <1>14, CountingReaches
  <2> QED BY <2>1
<1> DEFINE p == c[n]
<1>16. /\ p \in Seq(DOMAIN found) /\ Head(p) = p[1] /\ p[1] \in DOMAIN found
       /\ IsWay(adj, D, p[1], b, p) /\ (p[1] = a \/ Len(p) = n + 1)
  BY <1>3, <1>15
<1> HIDE DEF p
<1>17. p[1] = a
  <2>1. CASE Len(p) = n + 1
    <3>1. D[p[1]] + Len(p) = D[b] + 1
      BY <1>16 DEF IsWay
    <3>2. D[p[1]] \in 0 .. n /\ D[b] \in 0 .. n /\ p[1] \in W
      BY <1>1, <1>16
    <3>3. D[p[1]] = 0
      BY <2>1, <3>1, <3>2
    <3> QED BY <3>2, <3>3
  <2> QED BY <1>16, <2>1
<1>18. p \in Seq(W)
  BY <1>1, <1>16
<1> QED BY <1>11, <1>16, <1>17, <1>18 DEF p

\* The shortest route is a way, where there is one.
LEMMA RouteIsWay ==
    ASSUME NEW V \in SUBSET NodeId, IsFiniteSet(V), NEW adj \in [V -> SUBSET V],
           NEW a \in V, NEW b \in V, NEW succ, IsList(V, adj, succ),
           NEW D \in Distances(V, adj, a), NEW n, n = Cardinality(V)
    PROVE  LET p == WalkBack(RouteSearch(succ, a, b, n), a, b, n) IN
           /\ b \notin Met(adj, a) => p = NoPath
           /\ b \in Met(adj, a) => p \in Seq(V) /\ IsWay(adj, D, a, b, p)
<1> DEFINE W == Met(adj, a)
           found == RouteSearch(succ, a, b, n)
<1>1. W \in SUBSET V
  <2>1. IsReach(V, adj, {a}, Reached(adj, {a}))
    BY ReachedIs
  <2> QED BY <2>1 DEF IsReach, Met
<1>2. /\ n \in Nat /\ D \in [W -> 0 .. n] /\ D[a] = 0 /\ \A x \in W : D[x] = 0 => x = a
  <2>1. IsDistance(adj, a, W, n, D) /\ n \in Nat
    BY FS_CardinalityType DEF Distances
  <2> QED BY <2>1 DEF IsDistance
<1>3. W = Met(adj, a)
  OBVIOUS
<1> HIDE DEF W
<1>4. Finds(adj, W, D, a, b, found)
  BY <1>1, <1>3, SearchFinds
<1> HIDE DEF found
<1>5. CASE b \notin W
  <2>1. b \notin DOMAIN found
    BY <1>4, <1>5 DEF Finds
  <2>2. WalkBack(found, a, b, n) = NoPath
    BY <2>1 DEF WalkBack
  <2> QED BY <1>3, <1>5, <2>2 DEF found
<1>6. CASE b \in W
  <2> DEFINE p == WalkBack(found, a, b, n)
  <2>1. p \in Seq(W) /\ IsWay(adj, D, a, b, p)
    BY <1>2, <1>4, <1>6, WalkIsWay
  <2> HIDE DEF p
  <2>2. p \in Seq(V)
    BY <1>1, <2>1
  <2> QED BY <1>3, <1>6, <2>1, <2>2 DEF p, found
<1> QED BY <1>5, <1>6

\* How long the shortest walk is, as it is defined over the edges.
AlongEdges(V, E) == [x \in V |-> {e[2] : e \in {z \in E : z[1] = x}}]
WalksEnd(E, a, k) == Turns(LAMBDA S : {e[2] : e \in {x \in E : x[1] \in S}}, {a}, k)

LEMMA WalksAreLong ==
    ASSUME NEW V, IsFiniteSet(V), NEW E \in SUBSET (V \X V), NEW a \in V,
           NEW adj, adj = AlongEdges(V, E), NEW D \in Distances(V, adj, a),
           NEW m \in 0 .. Cardinality(V)
    PROVE  /\ \A y \in WalksEnd(E, a, m) : y \in Met(adj, a) /\ D[y] <= m
           /\ \A y \in Met(adj, a) : D[y] = m => y \in WalksEnd(E, a, m)
<1> DEFINE L == SUBSET V
           start == {a}
           F == [S \in L |-> {e[2] : e \in {x \in E : x[1] \in S}}]
           Kept(f) == f = [k \in 0 .. m |-> IF k = 0 THEN start
                                            ELSE {e[2] : e \in {x \in E : x[1] \in f[k - 1]}}]
<1>1. m \in Nat /\ start \in L
  BY FS_CardinalityType
<1>2. F \in [L -> L]
  OBVIOUS
<1>3. \A S \in L : F[S] = {e[2] : e \in {x \in E : x[1] \in S}}
  OBVIOUS
<1>4. adj \in [V -> SUBSET V] /\ \A S \in L : F[S] = UNION {adj[x] : x \in S}
  <2>1. adj \in [V -> SUBSET V] /\ \A x \in V : adj[x] = {e[2] : e \in {z \in E : z[1] = x}}
    BY DEF AlongEdges
  <2>2. ASSUME NEW S \in L PROVE F[S] = UNION {adj[x] : x \in S}
    <3>1. F[S] = {e[2] : e \in {x \in E : x[1] \in S}}
      OBVIOUS
    <3> HIDE DEF F
    <3>2. ASSUME NEW y \in F[S] PROVE y \in UNION {adj[x] : x \in S}
      <4>1. PICK e \in E : e[1] \in S /\ y = e[2]
        BY <3>1, <3>2
      <4>2. y \in adj[e[1]]
        BY <2>1, <4>1
      <4> QED BY <4>1, <4>2
    <3>3. ASSUME NEW x \in S, NEW y \in adj[x] PROVE y \in F[S]
      <4>1. PICK e \in E : e[1] = x /\ y = e[2]
        BY <2>1, <3>3
      <4> QED BY <3>1, <4>1
    <3> QED BY <3>2, <3>3
  <2> QED BY <2>1, <2>2
<1>5. WalksEnd(E, a, m) = (CHOOSE f : Kept(f))[m]
  BY DEF WalksEnd, Turns
<1> HIDE DEF F, L, start
<1>6. PICK h \in Chains(L, start, m, F) : TRUE
  <2>1. Chains(L, start, m, F) # {}
    BY <1>1, <1>2, ChainHas
  <2> QED BY <2>1
<1>7. Kept(h)
  <2>1. h \in [0 .. m -> L] /\ h[0] = start /\ \A i \in 1 .. m : h[i] = F[h[i - 1]]
    BY DEF Chains
  <2>2. h = [k \in 0 .. m |-> h[k]]
    BY <2>1
  <2>3. ASSUME NEW k \in 0 .. m
        PROVE  h[k] = IF k = 0 THEN start ELSE {e[2] : e \in {x \in E : x[1] \in h[k - 1]}}
    <3>1. CASE k = 0
      BY <2>1, <3>1
    <3>2. CASE k # 0
      <4>1. k \in 1 .. m /\ k - 1 \in 0 .. m
        BY <1>1, <3>2
      <4>2. h[k - 1] \in L /\ h[k] = F[h[k - 1]]
        BY <2>1, <4>1
      <4>3. F[h[k - 1]] = {e[2] : e \in {x \in E : x[1] \in h[k - 1]}}
        BY <1>3, <4>2
      <4> QED BY <3>2, <4>2, <4>3
    <3> QED BY <3>1, <3>2
  <2> QED BY <2>2, <2>3, Zenon
<1> DEFINE c == CHOOSE f : Kept(f)
<1>8. Kept(c)
  <2> HIDE DEF Kept
  <2> QED BY <1>7
<1>9. WalksEnd(E, a, m) = c[m]
  BY <1>5
<1> HIDE DEF c
<1>10. c[0] = start /\ \A i \in 1 .. m : c[i] = {e[2] : e \in {x \in E : x[1] \in c[i - 1]}}
  <2>1. 0 \in 0 .. m /\ \A i \in 1 .. m : i \in 0 .. m /\ i # 0
    BY <1>1
  <2> QED BY <1>8, <2>1
<1>11. c = [i \in 0 .. m |-> c[i]]
  BY <1>8
<1> HIDE DEF Kept
<1>12. c \in [0 .. m -> L]
  <2>1. \A i \in 1 .. m : c[i - 1] \in L => c[i] = F[c[i - 1]]
    BY <1>3, <1>10
  <2>2. \A i \in 0 .. m : c[i] \in L
    BY <1>1, <1>2, <1>10, <2>1, ChainStays
  <2> QED BY <1>11, <2>2
<1>13. \A i \in 1 .. m : c[i] = UNION {adj[x] : x \in c[i - 1]}
  <2> SUFFICES ASSUME NEW i \in 1 .. m PROVE c[i] = UNION {adj[x] : x \in c[i - 1]}
    OBVIOUS
  <2>1. i - 1 \in 0 .. m
    BY <1>1
  <2>2. c[i - 1] \in L
    BY <1>12, <2>1
  <2>3. c[i] = F[c[i - 1]]
    BY <1>3, <1>10, <2>2
  <2> QED BY <1>4, <2>2, <2>3
<1>14. c \in [0 .. m -> SUBSET V] /\ c[0] = {a}
  BY <1>10, <1>12 DEF L, start
<1>15. /\ \A y \in c[m] : y \in Met(adj, a) /\ D[y] <= m
       /\ \A y \in Met(adj, a) : D[y] = m => y \in c[m]
  BY <1>4, <1>13, <1>14, DistanceReaches
<1> QED BY <1>9, <1>15

\* What is reached forwards has been reached backwards.
LEMMA ReachedBack ==
    ASSUME NEW V, IsFiniteSet(V), NEW adj \in [V -> SUBSET V], NEW inn \in [V -> SUBSET V],
           \A x, y \in V : y \in adj[x] => x \in inn[y],
           NEW a \in V, NEW b \in Reached(adj, {a})
    PROVE  a \in Reached(inn, {b})
<1> DEFINE R(y) == Reached(inn, {y})
           T == {y \in V : a \in R(y)}
<1>1. IsReach(V, adj, {a}, Reached(adj, {a})) /\ \A y \in V : IsReach(V, inn, {y}, R(y))
  BY ReachedIs
<1> HIDE DEF R
<1>2. LeadsOn(adj, {a}, T)
  <2> SUFFICES ASSUME NEW y \in adj[a] PROVE y \in V /\ a \in R(y)
    BY DEF LeadsOn
  <2>1. y \in V /\ a \in inn[y]
    OBVIOUS
  <2> QED BY <1>1, <2>1 DEF IsReach, LeadsOn
<1>3. LeadsOn(adj, T, T)
  <2> SUFFICES ASSUME NEW y \in V, a \in R(y), NEW z \in adj[y] PROVE z \in V /\ a \in R(z)
    BY DEF LeadsOn
  <2>1. z \in V /\ y \in inn[z]
    OBVIOUS
  <2>2. y \in R(z) /\ LeadsOn(inn, R(z), R(z)) /\ R(z) \in SUBSET V
    BY <1>1, <2>1 DEF IsReach, LeadsOn
  <2>3. LeadsOn(inn, {y}, R(z))
    BY <2>2 DEF LeadsOn
  <2>4. R(y) \subseteq R(z)
    BY <1>1, <2>2, <2>3 DEF IsReach
  <2> QED BY <2>1, <2>4
<1>4. Reached(adj, {a}) \subseteq T
  BY <1>1, <1>2, <1>3 DEF IsReach
<1> QED BY <1>4 DEF R

-----------------------------------------------------------------------------
(* The routes of the graph.                                                 *)

AdjOf(g) == [x \in ToSet(g.order) |-> {y \in ToSet(g.order) : x \in g.preds[y]}]

LEMMA GraphIs ==
    ASSUME WorkflowIInv
    PROVE  /\ graph.order \in Seq(NodeId) /\ Once(graph.order)
           /\ graph.preds \in [Nodes -> SUBSET Nodes]
           /\ Nodes \in SUBSET NodeId /\ IsFiniteSet(Nodes) /\ Len(graph.order) = Cardinality(Nodes)
           /\ IsList(Nodes, AdjOf(graph), graph.succ) /\ AdjOf(graph) \in [Nodes -> SUBSET Nodes]
<1> DEFINE rows == Knowledge
           known == OrderedNodes(rows)
           rowOf == CurrentOf(rows)
           lists == [i \in DOMAIN known |-> Listed(rowOf[known[i]].preds)]
           all == known \o Joined(lists) \o NodesOn(trials)
           f == FoldRows(rows, trials)
<1>1. rows \in Seq(KnowledgeRow) /\ trials \in Seq(Trial)
  BY KnowledgeIs DEF WorkflowIInv, Knowledge
<1>2. /\ graph.order = Named(known, rowOf, trials)
      /\ graph.preds = [n \in ToSet(graph.order) |-> IF n \in DOMAIN rowOf THEN rowOf[n].preds ELSE {}]
  <2> DEFINE named == Named(known, rowOf, trials)
  <2>1. /\ graph.order = named
        /\ graph.preds = [n \in ToSet(named) |-> IF n \in DOMAIN rowOf THEN rowOf[n].preds ELSE {}]
    BY FoldIs DEF WorkflowIInv
  <2> QED BY <2>1
<1>3. graph.succ = Successors(graph)
  <2> DEFINE c == AnalyzeCycles(f)
  <2>1. graph = Derived(f, c, ComputeDepths(f, c.feedback))
    BY DEF FoldLedgers, WithDerived, WithCycles, WorkflowIInv
  <2> HIDE DEF f, c
  <2>2. graph.order = f.order /\ graph.preds = f.preds /\ graph.succ = Successors(f)
    BY <2>1 DEF Derived
  <2> QED BY <2>2 DEF Successors
<1>4. all \in Seq(NodeId) /\ graph.order = Distinct(all)
  <2> HIDE DEF rows
  <2>1. known \in Seq(NodeId) /\ rowOf \in [ToSet(known) -> KnowledgeRow]
    BY <1>1, OrderedNodesIs, CurrentOfIs
  <2>2. NodesOn(trials) \in Seq(NodeId)
    <3>1. \A t \in Trial : t.node \in NodeId
      BY DEF Trial
    <3> QED BY <1>1, <3>1, NodesOnIs
  <2>3. graph.order = Distinct(all)
    BY <1>2 DEF Named
  <2> HIDE DEF known, rowOf
  <2>4. \A i \in DOMAIN known : lists[i] \in Seq(NodeId)
    <3> SUFFICES ASSUME NEW i \in DOMAIN known PROVE lists[i] \in Seq(NodeId)
      OBVIOUS
    <3>1. rowOf[known[i]] \in KnowledgeRow
      BY <2>1 DEF ToSet
    <3>2. rowOf[known[i]].preds \in SUBSET NodeId
      BY <3>1, RowIs
    <3> QED BY <3>2, ListedIs
  <2>5. lists \in Seq(Seq(NodeId))
    <3>1. DOMAIN known = 1 .. Len(known) /\ Len(known) \in Nat /\ DOMAIN lists = DOMAIN known
      BY <2>1
    <3>2. lists = [i \in 1 .. Len(known) |-> lists[i]]
      BY <3>1
    <3> HIDE DEF lists
    <3>3. lists \in [1 .. Len(known) -> Seq(NodeId)]
      BY <2>4, <3>1, <3>2
    <3> QED BY <3>1, <3>3
  <2> HIDE DEF lists
  <2>6. Joined(lists) \in Seq(NodeId)
    BY <2>5, JoinedTypes
  <2> QED BY <2>1, <2>2, <2>3, <2>6
<1> HIDE DEF all, known, rowOf, f
<1>5. graph.order \in Seq(NodeId) /\ Once(graph.order)
  BY <1>4, DistinctTypes, DistinctOnce
<1>6. Nodes \in SUBSET NodeId /\ IsFiniteSet(Nodes) /\ Len(graph.order) = Cardinality(Nodes)
  BY <1>5, ElementsAre, LengthIs DEF Nodes
<1>7. graph.preds \in [Nodes -> SUBSET Nodes]
  <2>1. \A n \in Nodes : graph.preds[n] \subseteq Nodes
    BY FoldMeets DEF FoldMeetsReference
  <2> QED BY <1>2, <2>1 DEF Nodes
<1>8. AdjOf(graph) \in [Nodes -> SUBSET Nodes]
  BY DEF AdjOf, Nodes
<1>9. IsList(Nodes, AdjOf(graph), graph.succ)
  <2>1. \A x \in Nodes : graph.succ[x] = Only(graph.order, AdjOf(graph)[x])
    BY <1>3 DEF Successors, AdjOf, Nodes
  <2>2. DOMAIN graph.succ = Nodes /\ graph.succ = [x \in Nodes |-> graph.succ[x]]
    BY <1>3 DEF Successors, Nodes
  <2>3. ASSUME NEW x \in Nodes PROVE graph.succ[x] \in Seq(Nodes) /\ ToSet(graph.succ[x]) = AdjOf(graph)[x]
    <3> DEFINE o == graph.order
               S == AdjOf(graph)[x]
    <3>1. o \in Seq(Nodes)
      <4>1. DOMAIN o = 1 .. Len(o) /\ Len(o) \in Nat
        BY <1>5
      <4>2. \A i \in 1 .. Len(o) : o[i] \in Nodes
        BY <4>1 DEF Nodes, ToSet
      <4> QED BY <1>5, <4>1, <4>2
    <3>2. S \in SUBSET Nodes /\ ToSet(o) = Nodes
      BY <1>8 DEF Nodes
    <3> HIDE DEF o, S
    <3>3. Only(o, S) \in Seq(Nodes) /\ ToSet(Only(o, S)) = ToSet(o) \cap S
      BY <3>1, OnlyTypes
    <3> QED BY <2>1, <3>2, <3>3 DEF o, S
  <2> QED BY <2>2, <2>3 DEF IsList
<1> QED BY <1>5, <1>6, <1>7, <1>8, <1>9

LEMMA WalksAre ==
    ASSUME WorkflowIInv
    PROVE  /\ AdjOf(graph) = AlongEdges(Nodes, Edges) /\ Edges \in SUBSET (Nodes \X Nodes)
           /\ WalksOf(Edges) = [m \in Nodes |-> Reached(AdjOf(graph), {m})]
           /\ \A x, y \in Nodes : y \in AdjOf(graph)[x] <=> <<x, y>> \in Edges
<1>1. Edges \in SUBSET (Nodes \X Nodes)
  BY DEF Edges
<1>2. \A x, y \in Nodes : <<x, y>> \in Edges <=> x \in graph.preds[y]
  BY DEF Edges
<1>3. \A x, y \in Nodes : y \in AdjOf(graph)[x] <=> <<x, y>> \in Edges
  BY <1>2 DEF AdjOf, Nodes
<1>4. AdjOf(graph) = AlongEdges(Nodes, Edges)
  <2>1. ASSUME NEW x \in Nodes
        PROVE  {y \in Nodes : x \in graph.preds[y]} = {e[2] : e \in {z \in Edges : z[1] = x}}
    <3>1. ASSUME NEW y \in Nodes, x \in graph.preds[y]
          PROVE  y \in {e[2] : e \in {z \in Edges : z[1] = x}}
      <4>1. <<x, y>> \in {z \in Edges : z[1] = x}
        BY <1>2, <3>1
      <4> QED BY <4>1
    <3>2. ASSUME NEW e \in Edges, e[1] = x PROVE e[2] \in Nodes /\ x \in graph.preds[e[2]]
      <4>1. e = <<x, e[2]>> /\ e[2] \in Nodes
        BY <1>1, <3>2
      <4> QED BY <1>2, <4>1
    <3> QED BY <3>1, <3>2
  <2> QED BY <2>1 DEF AdjOf, AlongEdges, Nodes
<1>5. WalksOf(Edges) = [m \in Nodes |-> Reached(AdjOf(graph), {m})]
  BY <1>4 DEF WalksOf, AlongEdges
<1> QED BY <1>1, <1>3, <1>4, <1>5

LEMMA StepsToIs ==
    ASSUME WorkflowIInv, NEW a \in Nodes, NEW b \in Met(AdjOf(graph), a), a # b,
           NEW D \in Distances(Nodes, AdjOf(graph), a)
    PROVE  StepsTo(a, b) = D[b]
<1> DEFINE adj == AdjOf(graph)
           n == Cardinality(Nodes)
           K == {k \in 1 .. n : b \in WalksEnd(Edges, a, k)}
<1>1. IsFiniteSet(Nodes) /\ adj \in [Nodes -> SUBSET Nodes] /\ n \in Nat
  BY GraphIs, FS_CardinalityType
<1>2. adj = AlongEdges(Nodes, Edges) /\ Edges \in SUBSET (Nodes \X Nodes)
  BY WalksAre
<1>3. IsDistance(adj, a, Met(adj, a), n, D)
  BY DEF Distances
<1>4. StepsTo(a, b) = Min(K)
  BY DEF StepsTo, WalksEnd
<1> HIDE DEF adj
<1>5. \A m \in 0 .. n :
         /\ \A y \in WalksEnd(Edges, a, m) : y \in Met(adj, a) /\ D[y] <= m
         /\ \A y \in Met(adj, a) : D[y] = m => y \in WalksEnd(Edges, a, m)
  <2> SUFFICES ASSUME NEW m \in 0 .. n
               PROVE  /\ \A y \in WalksEnd(Edges, a, m) : y \in Met(adj, a) /\ D[y] <= m
                      /\ \A y \in Met(adj, a) : D[y] = m => y \in WalksEnd(Edges, a, m)
    OBVIOUS
  <2>1. D \in Distances(Nodes, adj, a)
    BY DEF adj
  <2> QED BY <1>1, <1>2, <2>1, WalksAreLong
<1>6. D[b] \in 1 .. n /\ b \in Met(adj, a)
  <2>1. b \in Met(adj, a)
    BY DEF adj
  <2> QED BY <1>1, <1>3, <2>1 DEF IsDistance
<1>7. D[b] \in K /\ \A k \in K : D[b] <= k
  BY <1>1, <1>5, <1>6
<1> HIDE DEF K
<1>8. \A m \in K : (\A k \in K : m <= k) => m = D[b]
  <2>1. \A m \in K : m \in Nat
    BY DEF K
  <2> QED BY <1>7, <2>1
<1>9. Min(K) = D[b]
  BY <1>7, <1>8 DEF Min
<1> QED BY <1>4, <1>9

LEMMA RouteIsShortest ==
    ASSUME WorkflowIInv, NEW a \in Nodes, NEW b \in Nodes, a # b, NEW rev \in BOOLEAN
    PROVE  LET there == ShortestRoute(graph, a, b)
               walks == WalksOf(Edges)
           IN  /\ b \notin walks[a] => there = NoPath
               /\ b \in walks[a] => there # NoPath /\ IsShortest(walks, Route(graph, there, rev), a, b)
<1> DEFINE adj == AdjOf(graph)
           n == Cardinality(Nodes)
           succ == graph.succ
           p == WalkBack(RouteSearch(succ, a, b, n), a, b, n)
           walks == WalksOf(Edges)
           r == Route(graph, p, rev)
<1>1. /\ Nodes \in SUBSET NodeId /\ IsFiniteSet(Nodes) /\ Len(graph.order) = n
      /\ IsList(Nodes, adj, succ) /\ adj \in [Nodes -> SUBSET Nodes]
      /\ graph.preds \in [Nodes -> SUBSET Nodes]
  BY GraphIs
<1>2. /\ walks = [m \in Nodes |-> Reached(adj, {m})]
      /\ \A x, y \in Nodes : y \in adj[x] <=> <<x, y>> \in Edges
  BY WalksAre
<1>3. ShortestRoute(graph, a, b) = p
  BY <1>1 DEF ShortestRoute, Nodes
<1>4. \A x, y \in Nodes : y \in adj[x] <=> x \in graph.preds[y]
  BY DEF AdjOf, Nodes
<1>5. PICK D \in Distances(Nodes, adj, a) : TRUE
  BY <1>1, DistanceIs
<1>6. b \in walks[a] <=> b \in Met(adj, a)
  BY <1>2 DEF Met
<1> HIDE DEF adj, n, succ, p, walks
<1>7. /\ b \notin Met(adj, a) => p = NoPath
      /\ b \in Met(adj, a) => p \in Seq(Nodes) /\ IsWay(adj, D, a, b, p)
  BY <1>1, <1>5, RouteIsWay DEF n, p
<1>8. CASE b \notin walks[a]
  BY <1>3, <1>6, <1>7, <1>8 DEF walks
<1>9. CASE b \in walks[a]
  <2>1. b \in Met(adj, a) /\ p \in Seq(Nodes) /\ IsWay(adj, D, a, b, p)
    BY <1>6, <1>7, <1>9
  <2>2. /\ p # NoPath /\ p[1] = a /\ p[Len(p)] = b /\ D[a] + Len(p) = D[b] + 1
        /\ \A i \in 1 .. Len(p) - 1 : p[i + 1] \in adj[p[i]]
    BY <2>1 DEF IsWay, NoPath
  <2>3. Head(p) = a /\ Last(p) = b /\ Len(p) \in Nat
    BY <2>1, <2>2 DEF Last, NoPath
  <2>4. Len(p) = StepsTo(a, b) + 1
    <3>1. StepsTo(a, b) = D[b]
      BY <2>1, StepsToIs DEF adj
    <3>2. D[a] = 0 /\ D[b] \in Nat
      <4>1. IsDistance(adj, a, Met(adj, a), Cardinality(Nodes), D)
        BY DEF Distances
      <4> QED BY <1>1, <2>1, <4>1 DEF IsDistance
    <3> QED BY <2>2, <2>3, <3>1, <3>2
  <2>5. \A i \in 1 .. Len(p) - 1 : <<p[i], p[i + 1]>> \in Edges
    <3> SUFFICES ASSUME NEW i \in 1 .. Len(p) - 1 PROVE <<p[i], p[i + 1]>> \in Edges
      OBVIOUS
    <3>1. i \in 1 .. Len(p) /\ i + 1 \in 1 .. Len(p)
      BY <2>3
    <3>2. p[i] \in Nodes /\ p[i + 1] \in Nodes
      BY <2>1, <3>1
    <3> QED BY <1>2, <2>2, <3>2
  <2>6. r.path = p /\ r.corridor = (Downstream(graph, a) \cup {a}) \cap (Upstream(graph, b) \cup {b})
    BY <2>2, <2>3 DEF Route
  <2>7. Downstream(graph, a) \cup {a} = Reached(adj, {a}) \cup {a}
    <3>1. [s \in DOMAIN succ |-> ToSet(succ[s])] = adj
      BY <1>1 DEF IsList
    <3> QED BY <3>1 DEF Downstream, succ
  <2>8. Upstream(graph, b) \cup {b} = Reached(graph.preds, {b}) \cup {b}
    BY DEF Upstream
  <2>9. IsReach(Nodes, adj, {a}, Reached(adj, {a})) /\ IsReach(Nodes, graph.preds, {b}, Reached(graph.preds, {b}))
    BY <1>1, ReachedIs
  <2>10. ASSUME NEW c \in Nodes
         PROVE  c \in Reached(graph.preds, {b}) <=> b \in Reached(adj, {c})
    <3>1. ASSUME c \in Reached(graph.preds, {b}) PROVE b \in Reached(adj, {c})
      BY <1>1, <1>4, <3>1, ReachedBack
    <3>2. ASSUME b \in Reached(adj, {c}) PROVE c \in Reached(graph.preds, {b})
      BY <1>1, <1>4, <3>2, ReachedBack
    <3> QED BY <3>1, <3>2
  <2>11. r.corridor = {c \in Nodes : (c = a \/ c \in walks[a]) /\ (c = b \/ b \in walks[c])}
    <3>1. \A c \in Nodes : walks[c] = Reached(adj, {c})
      BY <1>2
    <3>2. Reached(adj, {a}) \in SUBSET Nodes /\ Reached(graph.preds, {b}) \in SUBSET Nodes
      BY <2>9 DEF IsReach
    <3> HIDE DEF r
    <3> QED BY <2>6, <2>7, <2>8, <2>10, <3>1, <3>2
  <2> HIDE DEF r
  <2>12. IsShortest(walks, r, a, b)
    BY <2>2, <2>3, <2>4, <2>5, <2>6, <2>11 DEF IsShortest
  <2> QED BY <1>3, <1>9, <2>2, <2>12 DEF r, walks
<1> QED BY <1>8, <1>9

\* However the ledgers grow: between two nodes the route is a shortest walk along
\* the edges, in the one direction or else in the other, or there is no walk; and its
\* corridor is what lies on any walk between its ends (shortestRoute, routeBetween).
THEOREM RoutesAreShortestHolds == WorkflowSpec => []RoutesAreShortest
<1>1. ASSUME WorkflowIInv PROVE RoutesAreShortest
  <2> DEFINE walks == WalksOf(Edges)
  <2> SUFFICES ASSUME NEW a \in Nodes, NEW b \in Nodes, a # b
               PROVE  IsRoute(walks, RouteBetween(graph, a, b), a, b)
    BY DEF RoutesAreShortest, RoutesAmong
  <2> DEFINE there == ShortestRoute(graph, a, b)
             back  == ShortestRoute(graph, b, a)
  <2>1. /\ b \notin walks[a] => there = NoPath
        /\ b \in walks[a] => there # NoPath /\ IsShortest(walks, Route(graph, there, FALSE), a, b)
    BY <1>1, RouteIsShortest
  <2>2. /\ a \notin walks[b] => back = NoPath
        /\ a \in walks[b] => back # NoPath /\ IsShortest(walks, Route(graph, back, TRUE), b, a)
    BY <1>1, RouteIsShortest
  <2>3. RouteBetween(graph, a, b) =
           IF there # NoPath THEN Route(graph, there, FALSE) ELSE Route(graph, back, TRUE)
    BY DEF RouteBetween, RouteOr
  <2> HIDE DEF walks, there, back
  <2>4. CASE b \in walks[a]
    <3>1. RouteBetween(graph, a, b) = Route(graph, there, FALSE)
      BY <2>1, <2>3, <2>4
    <3>2. ~ Route(graph, there, FALSE).reversed
      BY DEF Route
    <3> QED BY <2>1, <2>4, <3>1, <3>2 DEF IsRoute
  <2>5. CASE b \notin walks[a] /\ a \in walks[b]
    BY <2>1, <2>2, <2>3, <2>5 DEF IsRoute, Route
  <2>6. CASE b \notin walks[a] /\ a \notin walks[b]
    <3>1. RouteBetween(graph, a, b) = Route(graph, NoPath, TRUE)
      BY <2>1, <2>2, <2>3, <2>6
    <3>2. RouteBetween(graph, a, b).path = NoPath
      BY <3>1 DEF Route
    <3> QED BY <2>6, <3>2 DEF IsRoute
  <2> QED BY <2>4, <2>5, <2>6
<1> QED BY WorkflowInitIInv, WorkflowNextIInv, <1>1, PTL DEF WorkflowSpec

=============================================================================
