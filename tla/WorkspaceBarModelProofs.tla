----------------------- MODULE WorkspaceBarModelProofs -----------------------
(***************************************************************************)
(* What the workspace bar guarantees for any workspaces, hosts and number  *)
(* of windows: its entries are ordered, match the windows, are persisted   *)
(* and reported, and the active one is the most recent.                    *)
(*                                                                         *)
(* The loops of the model (reconcile, serialize, the restore, the search   *)
(* for the next entry) are local recursive functions.  Each has two lemmas *)
(* here: one that the function exists, and one that a fact holds after     *)
(* every turn.  Both take the first turn of which the claim is false,      *)
(* which LeastOfNat provides, and refute it from the turn before.          *)
(***************************************************************************)
EXTENDS WorkspaceBarModel, SequenceTheorems, WellFoundedInduction, TLAPS

-----------------------------------------------------------------------------
(* Numbers                                                                  *)

LEMMA LeastOfNat ==
    ASSUME NEW T \in SUBSET Nat, T # {}
    PROVE  \E m \in T : \A k \in T : m <= k
<1> DEFINE R == {ss \in Nat \X Nat : ss[1] < ss[2]}
<1>1. IsWellFoundedOn(R, Nat)
  BY NatLessThanWellFounded DEF OpToRel
<1> HIDE DEF R
<1>2. PICK m \in T : \A y \in T : ~ (<<y, m>> \in R)
  BY <1>1, WFMin
<1>3. \A y \in T : ~(y < m)
  BY <1>2 DEF R
<1> QED BY <1>3

LEMMA MaxIs ==
    ASSUME NEW n \in Nat, NEW T \in SUBSET (0..n), T # {}
    PROVE  Max(T) \in T /\ \A k \in T : k <= Max(T)
<1> DEFINE D == {n - k : k \in T}
<1>0. \A k \in T : k \in Nat /\ n - k \in Nat
  OBVIOUS
<1>1. D \in SUBSET Nat /\ D # {}
  BY <1>0
<1> HIDE DEF D
<1>2. PICK d \in D : \A e \in D : d <= e
  BY <1>1, LeastOfNat
<1>3. PICK m \in T : d = n - m
  BY <1>2 DEF D
<1>4. \A k \in T : m >= k
  <2> TAKE k \in T
  <2>1. n - k \in D
    BY DEF D
  <2>2. n - m <= n - k
    BY <1>2, <1>3, <2>1
  <2> QED BY <1>0, <2>2
<1> QED BY <1>0, <1>4 DEF Max

LEMMA MinIs ==
    ASSUME NEW T \in SUBSET Nat, T # {}
    PROVE  Min(T) \in T /\ \A k \in T : Min(T) <= k
BY LeastOfNat DEF Min

-----------------------------------------------------------------------------
(* Sequences with an element more, less or another                          *)

LEMMA InsertAtIs ==
    ASSUME NEW S, NEW s \in Seq(S), NEW x \in S, NEW at \in 1..(Len(s) + 1)
    PROVE  /\ InsertAt(s, at, x) \in Seq(S)
           /\ Len(InsertAt(s, at, x)) = Len(s) + 1
           /\ \A i \in 1..(Len(s) + 1) :
                 InsertAt(s, at, x)[i] = IF i < at THEN s[i]
                                         ELSE IF i = at THEN x ELSE s[i - 1]
<1> DEFINE l == SubSeq(s, 1, at - 1)
           r == SubSeq(s, at, Len(s))
<1>1. Len(s) \in Nat /\ \A i \in 1..Len(s) : s[i] \in S
  OBVIOUS
<1>2. l \in Seq(S) /\ Len(l) = at - 1 /\ \A i \in 1..(at - 1) : l[i] = s[i]
  BY <1>1, SubSeqProperties
<1>3. /\ r \in Seq(S) /\ Len(r) = Len(s) - at + 1
      /\ \A i \in 1..(Len(s) - at + 1) : r[i] = s[at + i - 1]
  <2>1. \A i \in at..Len(s) : s[i] \in S
    BY <1>1
  <2>2. at \in Int /\ Len(s) \in Int
    BY <1>1
  <2> QED BY <1>1, <2>1, <2>2, SubSeqProperties
<1>4. <<x>> \in Seq(S) /\ Len(<<x>>) = 1 /\ <<x>>[1] = x
  OBVIOUS
<1> HIDE DEF l, r
<1> DEFINE lx == l \o <<x>>
<1>5. /\ lx \in Seq(S) /\ Len(lx) = at
      /\ \A i \in 1..at : lx[i] = IF i < at THEN s[i] ELSE x
  BY <1>1, <1>2, <1>4, ConcatProperties
<1> HIDE DEF lx
<1>6. /\ lx \o r \in Seq(S) /\ Len(lx \o r) = Len(s) + 1
      /\ \A i \in 1..(Len(s) + 1) :
            (lx \o r)[i] = IF i <= at THEN lx[i] ELSE r[i - at]
  <2>1. /\ lx \o r \in Seq(S) /\ Len(lx \o r) = Len(lx) + Len(r)
        /\ \A i \in 1..(Len(lx) + Len(r)) :
              (lx \o r)[i] = IF i <= Len(lx) THEN lx[i] ELSE r[i - Len(lx)]
    BY <1>3, <1>5, ConcatProperties
  <2>2. Len(lx) + Len(r) = Len(s) + 1
    BY <1>1, <1>3, <1>5
  <2> QED BY <1>5, <2>1, <2>2
<1>7. \A i \in (at + 1)..(Len(s) + 1) : r[i - at] = s[i - 1]
  BY <1>1, <1>3
<1>8. InsertAt(s, at, x) = lx \o r
  BY DEF InsertAt, lx, l, r
<1> QED BY <1>1, <1>5, <1>6, <1>7, <1>8

LEMMA RemoveAtIs ==
    ASSUME NEW S, NEW s \in Seq(S), NEW at \in 1..Len(s)
    PROVE  /\ RemoveAt(s, at) \in Seq(S)
           /\ Len(RemoveAt(s, at)) = Len(s) - 1
           /\ \A i \in 1..(Len(s) - 1) :
                 RemoveAt(s, at)[i] = IF i < at THEN s[i] ELSE s[i + 1]
<1> DEFINE l == SubSeq(s, 1, at - 1)
           r == SubSeq(s, at + 1, Len(s))
<1>1. Len(s) \in Nat /\ \A i \in 1..Len(s) : s[i] \in S
  OBVIOUS
<1>2. l \in Seq(S) /\ Len(l) = at - 1 /\ \A i \in 1..(at - 1) : l[i] = s[i]
  BY <1>1, SubSeqProperties
<1>3. /\ r \in Seq(S) /\ Len(r) = Len(s) - at
      /\ \A i \in 1..(Len(s) - at) : r[i] = s[at + i]
  <2>1. \A i \in (at + 1)..Len(s) : s[i] \in S
    BY <1>1
  <2>2. at + 1 \in Int /\ Len(s) \in Int
    BY <1>1
  <2>3. /\ r \in Seq(S)
        /\ Len(r) = IF at + 1 <= Len(s) THEN Len(s) - (at + 1) + 1 ELSE 0
        /\ \A i \in 1..(Len(s) - (at + 1) + 1) : r[i] = s[(at + 1) + i - 1]
    BY <2>1, <2>2, SubSeqProperties
  <2> HIDE DEF r
  <2>4. Len(r) = Len(s) - at
    BY <1>1, <2>3
  <2>5. ASSUME NEW i \in 1..(Len(s) - at)
        PROVE  r[i] = s[at + i]
    <3>1. i \in 1..(Len(s) - (at + 1) + 1) /\ (at + 1) + i - 1 = at + i
      BY <1>1
    <3> QED BY <2>3, <3>1
  <2> QED BY <2>3, <2>4, <2>5
<1> HIDE DEF l, r
<1>4. /\ l \o r \in Seq(S) /\ Len(l \o r) = Len(s) - 1
      /\ \A i \in 1..(Len(s) - 1) :
            (l \o r)[i] = IF i <= at - 1 THEN l[i] ELSE r[i - (at - 1)]
  <2>1. Len(l) + Len(r) = Len(s) - 1 /\ Len(l) = at - 1
    BY <1>1, <1>2, <1>3
  <2>2. /\ l \o r \in Seq(S) /\ Len(l \o r) = Len(l) + Len(r)
        /\ \A i \in 1..(Len(l) + Len(r)) :
              (l \o r)[i] = IF i <= Len(l) THEN l[i] ELSE r[i - Len(l)]
    BY <1>2, <1>3, ConcatProperties
  <2> QED BY <2>1, <2>2
<1>5. \A i \in at..(Len(s) - 1) : r[i - (at - 1)] = s[i + 1]
  BY <1>1, <1>3
<1>6. RemoveAt(s, at) = l \o r
  BY DEF RemoveAt, l, r
<1> QED BY <1>1, <1>2, <1>4, <1>5, <1>6

LEMMA ReplaceAtIs ==
    ASSUME NEW S, NEW s \in Seq(S), NEW at \in 1..Len(s), NEW x \in S
    PROVE  /\ ReplaceAt(s, at, x) \in Seq(S)
           /\ Len(ReplaceAt(s, at, x)) = Len(s)
           /\ \A i \in 1..Len(s) :
                 ReplaceAt(s, at, x)[i] = IF i = at THEN x ELSE s[i]
BY ExceptSeq DEF ReplaceAt

-----------------------------------------------------------------------------
(* Entries                                                                  *)

\* One entry per workspace.
UniqueIds(es) == \A i, j \in DOMAIN es : es[i].id = es[j].id => i = j

\* HostsContiguous of any entries.
Contiguous(es) ==
    \A i, j \in DOMAIN es : i < j =>
        /\ es[j].host = Local => es[i].host = Local
        /\ es[i].host = es[j].host => \A k \in i..j : es[k].host = es[i].host

Tidy(es) == es \in Seq(EntryState) /\ UniqueIds(es) /\ Contiguous(es)

\* An entry that goes leaves the others as they are.
LEMMA RemoveKeeps ==
    ASSUME NEW es, Tidy(es), NEW at \in DOMAIN es
    PROVE  /\ Tidy(RemoveAt(es, at))
           /\ Range(RemoveAt(es, at)) = Range(es) \ {es[at]}
<1> DEFINE n == RemoveAt(es, at)
           p(i) == IF i < at THEN i ELSE i + 1
<1>1. es \in Seq(EntryState) /\ Len(es) \in Nat /\ DOMAIN es = 1..Len(es) /\ at \in 1..Len(es)
  BY DEF Tidy
<1>2. /\ n \in Seq(EntryState) /\ Len(n) = Len(es) - 1
      /\ \A i \in 1..(Len(es) - 1) : n[i] = es[p(i)]
  BY <1>1, RemoveAtIs
<1>3. DOMAIN n = 1..(Len(es) - 1)
  BY <1>2
<1> HIDE DEF n
<1>4. UniqueIds(n)
  <2> SUFFICES ASSUME NEW i \in DOMAIN n, NEW j \in DOMAIN n, n[i].id = n[j].id
               PROVE  i = j
    BY DEF UniqueIds
  <2>1. p(i) \in DOMAIN es /\ p(j) \in DOMAIN es
    BY <1>1, <1>3
  <2>2. n[i] = es[p(i)] /\ n[j] = es[p(j)]
    BY <1>2, <1>3
  <2>3. p(i) = p(j)
    BY <2>1, <2>2 DEF Tidy, UniqueIds
  <2> QED BY <1>1, <1>3, <2>3
<1>5. Contiguous(n)
  <2> SUFFICES ASSUME NEW i \in DOMAIN n, NEW j \in DOMAIN n, i < j
               PROVE  /\ n[j].host = Local => n[i].host = Local
                      /\ n[i].host = n[j].host => \A k \in i..j : n[k].host = n[i].host
    BY DEF Contiguous
  <2>1. p(i) \in DOMAIN es /\ p(j) \in DOMAIN es /\ p(i) < p(j)
    BY <1>1, <1>3
  <2>2. /\ es[p(j)].host = Local => es[p(i)].host = Local
        /\ es[p(i)].host = es[p(j)].host =>
              \A k \in p(i)..p(j) : es[k].host = es[p(i)].host
    BY <2>1 DEF Tidy, Contiguous
  <2>3. \A k \in i..j : p(k) \in p(i)..p(j) /\ n[k] = es[p(k)]
    BY <1>1, <1>2, <1>3
  <2>4. n[i] = es[p(i)] /\ n[j] = es[p(j)]
    BY <1>2, <1>3
  <2> QED BY <2>2, <2>3, <2>4
<1>6. Range(n) = Range(es) \ {es[at]}
  <2>1. \A i \in DOMAIN n : p(i) \in DOMAIN es /\ p(i) # at /\ n[i] = es[p(i)]
    BY <1>1, <1>2, <1>3
  <2>2. \A i \in DOMAIN es : i # at => es[i] # es[at]
    BY DEF Tidy, UniqueIds
  <2>3. \A i \in DOMAIN es : i # at => \E k \in DOMAIN n : n[k] = es[i]
    <3> SUFFICES ASSUME NEW i \in DOMAIN es, i # at PROVE \E k \in DOMAIN n : n[k] = es[i]
      OBVIOUS
    <3> DEFINE k == IF i < at THEN i ELSE i - 1
    <3>1. k \in DOMAIN n /\ p(k) = i
      BY <1>1, <1>3
    <3> QED BY <1>2, <1>3, <3>1
  <2> HIDE DEF p
  <2> QED BY <2>1, <2>2, <2>3 DEF Range
<1> QED BY <1>2, <1>4, <1>5, <1>6 DEF Tidy, n

\* An entry that changes, but for its workspace and host, stays where it is.
LEMMA ReplaceKeeps ==
    ASSUME NEW es, Tidy(es), NEW at \in DOMAIN es,
           NEW x \in EntryState, x.id = es[at].id, x.host = es[at].host
    PROVE  /\ Tidy(ReplaceAt(es, at, x))
           /\ Range(ReplaceAt(es, at, x)) = (Range(es) \ {es[at]}) \cup {x}
<1> DEFINE n == ReplaceAt(es, at, x)
<1>1. es \in Seq(EntryState) /\ Len(es) \in Nat /\ DOMAIN es = 1..Len(es)
  BY DEF Tidy
<1>2. n \in Seq(EntryState) /\ Len(n) = Len(es) /\ DOMAIN n = 1..Len(es)
  BY <1>1, ReplaceAtIs
<1>3. \A i \in 1..Len(es) : n[i] = IF i = at THEN x ELSE es[i]
  BY <1>1 DEF ReplaceAt
<1> HIDE DEF n
<1>4. \A i \in DOMAIN n : n[i].id = es[i].id /\ n[i].host = es[i].host
  BY <1>2, <1>3
<1>5. UniqueIds(n) /\ Contiguous(n)
  <2>1. UniqueIds(n)
    BY <1>1, <1>2, <1>4 DEF Tidy, UniqueIds
  <2>2. \A i, j \in DOMAIN n : \A k \in i..j : k \in DOMAIN n
    BY <1>1, <1>2
  <2>3. Contiguous(n)
    <3> SUFFICES ASSUME NEW i \in DOMAIN n, NEW j \in DOMAIN n, i < j
                 PROVE  /\ n[j].host = Local => n[i].host = Local
                        /\ n[i].host = n[j].host => \A k \in i..j : n[k].host = n[i].host
      BY DEF Contiguous
    <3>1. /\ es[j].host = Local => es[i].host = Local
          /\ es[i].host = es[j].host => \A k \in i..j : es[k].host = es[i].host
      BY <1>1, <1>2 DEF Tidy, Contiguous
    <3> QED BY <1>4, <2>2, <3>1
  <2> QED BY <2>1, <2>3
<1>6. Range(n) = (Range(es) \ {es[at]}) \cup {x}
  <2>1. \A i \in DOMAIN es : i # at => es[i] # es[at]
    BY DEF Tidy, UniqueIds
  <2> QED BY <1>1, <1>2, <1>3, <2>1 DEF Range
<1> QED BY <1>2, <1>5, <1>6 DEF Tidy, n

\* Where insert puts an entry: behind the last one of its host; a new host goes
\* last, or first if it is the local one.
LEMMA InsertGoes ==
    ASSUME NEW es, Tidy(es), NEW x \in EntryState
    PROVE  \E at \in 1..(Len(es) + 1) :
              /\ Insert(es, x) = InsertAt(es, at, x)
              /\ \A k \in DOMAIN es : k >= at => es[k].host # x.host
              /\ \/ at > 1 /\ es[at - 1].host = x.host
                 \/ /\ \A k \in DOMAIN es : es[k].host # x.host
                    /\ at = IF x.host = Local THEN 1 ELSE Len(es) + 1
<1> DEFINE group == {i \in DOMAIN es : es[i].host = x.host}
<1>1. Len(es) \in Nat /\ DOMAIN es = 1..Len(es)
  BY DEF Tidy
<1>2. Insert(es, x) = InsertAt(es, IF group # {} THEN Max(group) + 1
                                   ELSE IF x.host = Local THEN 1 ELSE Len(es) + 1, x)
  BY DEF Insert, IndexWhere
<1>3. CASE group # {}
  <2>1. Max(group) \in group /\ \A k \in group : k <= Max(group)
    <3>1. group \in SUBSET (0..Len(es))
      BY <1>1
    <3> QED BY <1>1, <1>3, <3>1, MaxIs
  <2>2. Max(group) + 1 \in 1..(Len(es) + 1)
    BY <1>1, <2>1
  <2>3. \A k \in DOMAIN es : k >= Max(group) + 1 => es[k].host # x.host
    <3>1. \A k \in DOMAIN es : es[k].host = x.host => k <= Max(group)
      BY <2>1
    <3>2. Max(group) \in Nat /\ \A k \in DOMAIN es : k \in Nat
      BY <1>1, <2>1
    <3> HIDE DEF group
    <3> QED BY <3>1, <3>2
  <2>4. Max(group) + 1 > 1 /\ es[(Max(group) + 1) - 1].host = x.host
    BY <1>1, <2>1
  <2> QED BY <1>2, <1>3, <2>2, <2>3, <2>4
<1>4. CASE group = {}
  <2> DEFINE at == IF x.host = Local THEN 1 ELSE Len(es) + 1
  <2>1. at \in 1..(Len(es) + 1) /\ \A k \in DOMAIN es : es[k].host # x.host
    BY <1>1, <1>4
  <2> QED BY <1>2, <1>4, <2>1
<1> QED BY <1>3, <1>4

\* An entry that comes next to one of its host, or where a new host belongs.
LEMMA InsertAtKeeps ==
    ASSUME NEW es, Tidy(es), NEW x \in EntryState, \A i \in DOMAIN es : es[i].id # x.id,
           NEW at \in 1..(Len(es) + 1),
           \/ at > 1 /\ es[at - 1].host = x.host
           \/ at <= Len(es) /\ es[at].host = x.host
           \/ /\ \A k \in DOMAIN es : es[k].host # x.host
              /\ at = IF x.host = Local THEN 1 ELSE Len(es) + 1
    PROVE  /\ Tidy(InsertAt(es, at, x))
           /\ Range(InsertAt(es, at, x)) = Range(es) \cup {x}
<1>1. es \in Seq(EntryState) /\ Len(es) \in Nat /\ DOMAIN es = 1..Len(es)
  BY DEF Tidy
<1>2. \/ at > 1 /\ es[at - 1].host = x.host
      \/ at <= Len(es) /\ es[at].host = x.host
      \/ /\ \A k \in DOMAIN es : es[k].host # x.host
         /\ at = IF x.host = Local THEN 1 ELSE Len(es) + 1
  OBVIOUS
<1> DEFINE n == InsertAt(es, at, x)
           p(i) == IF i < at THEN i ELSE i - 1
<1>3. /\ n \in Seq(EntryState) /\ Len(n) = Len(es) + 1
      /\ \A i \in 1..(Len(es) + 1) : n[i] = IF i = at THEN x ELSE es[p(i)]
  <2>1. /\ n \in Seq(EntryState) /\ Len(n) = Len(es) + 1
        /\ \A i \in 1..(Len(es) + 1) :
              n[i] = IF i < at THEN es[i] ELSE IF i = at THEN x ELSE es[i - 1]
    <3> HIDE DEF p
    <3> QED BY <1>1, InsertAtIs
  <2> HIDE DEF n
  <2> QED BY <1>1, <2>1
<1>4. DOMAIN n = 1..(Len(es) + 1) /\ n[at] = x
  BY <1>3
<1> HIDE DEF n
<1>5. \A i \in DOMAIN n : i # at => p(i) \in DOMAIN es /\ n[i] = es[p(i)]
  BY <1>1, <1>3, <1>4
<1>6. \A i, j \in DOMAIN n : i # at /\ j # at /\ i < j => p(i) < p(j)
  BY <1>1, <1>4
<1>7. UniqueIds(n)
  <2> SUFFICES ASSUME NEW i \in DOMAIN n, NEW j \in DOMAIN n, n[i].id = n[j].id, i < j
               PROVE  FALSE
    BY <1>4 DEF UniqueIds
  <2>1. i # at /\ j # at
    BY <1>4, <1>5
  <2>2. p(i) = p(j)
    BY <1>5, <2>1 DEF Tidy, UniqueIds
  <2> QED BY <1>1, <1>4, <1>5, <1>6, <2>1, <2>2
<1>8. Contiguous(n)
  <2>1. CASE \/ at > 1 /\ es[at - 1].host = x.host
             \/ at <= Len(es) /\ es[at].host = x.host
    <3> DEFINE left == at > 1 /\ es[at - 1].host = x.host
               c    == IF left THEN at ELSE at + 1
               q(i) == IF i < c THEN i ELSE i - 1
    <3>1. \A i \in DOMAIN n : q(i) \in DOMAIN es /\ n[i].host = es[q(i)].host
      <4>1. CASE left
        BY <1>1, <1>3, <1>4, <4>1
      <4>2. CASE ~left
        BY <1>1, <1>3, <1>4, <2>1, <4>2
      <4> QED BY <4>1, <4>2
    <3>0. c \in Nat
      BY <1>1
    <3> HIDE DEF c
    <3> SUFFICES ASSUME NEW i \in DOMAIN n, NEW j \in DOMAIN n, i < j
                 PROVE  /\ n[j].host = Local => n[i].host = Local
                        /\ n[i].host = n[j].host => \A k \in i..j : n[k].host = n[i].host
      BY DEF Contiguous
    <3>2. \A k \in i..j : k \in DOMAIN n /\ q(k) \in q(i)..q(j)
      BY <1>1, <1>4, <3>0
    <3>3. q(i) <= q(j)
      BY <1>1, <1>4, <3>0
    <3>4. CASE q(i) = q(j)
      <4>1. \A k \in i..j : n[k].host = es[q(k)].host /\ q(k) = q(i)
        BY <1>1, <1>4, <3>1, <3>2, <3>4
      <4>2. i \in i..j /\ j \in i..j
        BY <1>4
      <4> QED BY <4>1, <4>2
    <3>5. CASE q(i) < q(j)
      <4>0. q(i) \in DOMAIN es /\ q(j) \in DOMAIN es
        BY <3>1
      <4> HIDE DEF q
      <4>1. /\ es[q(j)].host = Local => es[q(i)].host = Local
            /\ es[q(i)].host = es[q(j)].host =>
                  \A k \in q(i)..q(j) : es[k].host = es[q(i)].host
        BY <3>5, <4>0 DEF Tidy, Contiguous
      <4>2. n[i].host = es[q(i)].host /\ n[j].host = es[q(j)].host
        BY <3>1
      <4>3. \A k \in i..j : n[k].host = es[q(k)].host
        BY <3>1, <3>2
      <4> QED BY <3>2, <4>1, <4>2, <4>3
    <3> QED BY <1>1, <1>4, <3>3, <3>4, <3>5
  <2>2. CASE /\ \A k \in DOMAIN es : es[k].host # x.host
             /\ at = IF x.host = Local THEN 1 ELSE Len(es) + 1
    <3> SUFFICES ASSUME NEW i \in DOMAIN n, NEW j \in DOMAIN n, i < j
                 PROVE  /\ n[j].host = Local => n[i].host = Local
                        /\ n[i].host = n[j].host => \A k \in i..j : n[k].host = n[i].host
      BY DEF Contiguous
    <3>1. CASE i = at
      <4>1. at = 1 /\ x.host = Local
        BY <1>1, <1>4, <2>2, <3>1
      <4>2. p(j) \in DOMAIN es /\ n[j] = es[p(j)]
        BY <1>4, <1>5, <3>1
      <4> QED BY <1>4, <2>2, <3>1, <4>1, <4>2
    <3>2. CASE j = at
      <4>1. x.host # Local
        BY <1>1, <1>4, <2>2, <3>2
      <4>2. p(i) \in DOMAIN es /\ n[i] = es[p(i)]
        BY <1>4, <1>5, <3>2
      <4> QED BY <1>4, <2>2, <3>2, <4>1, <4>2
    <3>3. CASE i # at /\ j # at
      <4>1. \A k \in i..j : k \in DOMAIN n /\ k # at
        BY <1>1, <1>4, <2>2, <3>3
      <4>2. \A k \in i..j : p(k) \in DOMAIN es /\ n[k] = es[p(k)] /\ p(k) \in p(i)..p(j)
        BY <1>1, <1>4, <1>5, <2>2, <4>1
      <4>3. i \in i..j /\ j \in i..j
        BY <1>4
      <4>4. p(i) < p(j)
        BY <1>6, <3>3
      <4>5. /\ es[p(j)].host = Local => es[p(i)].host = Local
            /\ es[p(i)].host = es[p(j)].host =>
                  \A k \in p(i)..p(j) : es[k].host = es[p(i)].host
        <5>1. p(i) \in DOMAIN es /\ p(j) \in DOMAIN es
          BY <4>2, <4>3
        <5> HIDE DEF p
        <5> QED BY <4>4, <5>1 DEF Tidy, Contiguous
      <4> HIDE DEF p
      <4> QED BY <4>2, <4>3, <4>5
    <3> QED BY <3>1, <3>2, <3>3
  <2> QED BY <1>2, <2>1, <2>2
<1>9. Range(n) = Range(es) \cup {x}
  <2>1. \A i \in DOMAIN es : \E k \in DOMAIN n : n[k] = es[i]
    <3> SUFFICES ASSUME NEW i \in DOMAIN es PROVE \E k \in DOMAIN n : n[k] = es[i]
      OBVIOUS
    <3> DEFINE k == IF i < at THEN i ELSE i + 1
    <3>1. k \in DOMAIN n /\ k # at /\ p(k) = i
      BY <1>1, <1>4
    <3> QED BY <1>5, <3>1
  <2> HIDE DEF p
  <2> QED BY <1>4, <1>5, <2>1 DEF Range
<1> QED BY <1>3, <1>7, <1>8, <1>9 DEF Tidy, n

LEMMA InsertKeeps ==
    ASSUME NEW es, Tidy(es), NEW x \in EntryState, \A i \in DOMAIN es : es[i].id # x.id
    PROVE  /\ Tidy(Insert(es, x))
           /\ Range(Insert(es, x)) = Range(es) \cup {x}
<1>1. PICK at \in 1..(Len(es) + 1) :
          /\ Insert(es, x) = InsertAt(es, at, x)
          /\ \A k \in DOMAIN es : k >= at => es[k].host # x.host
          /\ \/ at > 1 /\ es[at - 1].host = x.host
             \/ /\ \A k \in DOMAIN es : es[k].host # x.host
                /\ at = IF x.host = Local THEN 1 ELSE Len(es) + 1
  BY InsertGoes
<1>2. Tidy(InsertAt(es, at, x)) /\ Range(InsertAt(es, at, x)) = Range(es) \cup {x}
  BY <1>1, InsertAtKeeps
<1> QED BY <1>1, <1>2

LEMMA IndexOfIs ==
    ASSUME NEW es, UniqueIds(es), NEW i \in DOMAIN es
    PROVE  IndexOf(es, es[i].id) = i
BY DEF IndexOf, UniqueIds

LEMMA KnownHasIndex ==
    ASSUME NEW es, NEW id, Known(es, id)
    PROVE  IndexOf(es, id) \in DOMAIN es /\ es[IndexOf(es, id)].id = id
BY DEF IndexOf, Known

-----------------------------------------------------------------------------
(* The order of the entries                                                 *)

\* An entry that stays on its host has those before it there that come before it now.
InOrder(es, fs) ==
    \A i, j \in DOMAIN fs, l \in DOMAIN es :
        i < j /\ fs[i].host = fs[j].host /\ es[l].id = fs[j].id /\ es[l].host = fs[j].host =>
            \E k \in DOMAIN es : k < l /\ es[k].id = fs[i].id /\ es[k].host = fs[i].host

\* Entries that may change, but for their workspaces and hosts.
SamePlaces(es, fs) ==
    /\ DOMAIN fs = DOMAIN es
    /\ \A i \in DOMAIN es : fs[i].id = es[i].id /\ fs[i].host = es[i].host

LEMMA OrderStays ==
    ASSUME NEW es, UniqueIds(es)
    PROVE  InOrder(es, es)
BY DEF InOrder, UniqueIds

\* Some of the entries, in their order.
LEMMA OrderOfSome ==
    ASSUME NEW es, NEW gs, NEW fs, InOrder(es, gs), NEW p,
           \A i \in DOMAIN fs : p[i] \in DOMAIN gs /\ fs[i].id = gs[p[i]].id
                                /\ fs[i].host = gs[p[i]].host,
           \A i, j \in DOMAIN fs : i < j => p[i] < p[j]
    PROVE  InOrder(es, fs)
<1> SUFFICES ASSUME NEW i \in DOMAIN fs, NEW j \in DOMAIN fs, NEW l \in DOMAIN es,
                    i < j, fs[i].host = fs[j].host, es[l].id = fs[j].id, es[l].host = fs[j].host
             PROVE  \E k \in DOMAIN es : k < l /\ es[k].id = fs[i].id /\ es[k].host = fs[i].host
  BY DEF InOrder
<1>1. p[i] \in DOMAIN gs /\ p[j] \in DOMAIN gs /\ p[i] < p[j]
  OBVIOUS
<1> QED BY <1>1 DEF InOrder

LEMMA OrderInPlace ==
    ASSUME NEW es, NEW gs, NEW fs, InOrder(es, gs), SamePlaces(gs, fs)
    PROVE  InOrder(es, fs)
BY DEF InOrder, SamePlaces

LEMMA OrderFromPlace ==
    ASSUME NEW es, NEW gs, NEW fs, SamePlaces(es, gs), InOrder(gs, fs)
    PROVE  InOrder(es, fs)
BY DEF InOrder, SamePlaces

LEMMA ReplaceInPlace ==
    ASSUME NEW es, Tidy(es), NEW at \in DOMAIN es,
           NEW x, x.id = es[at].id, x.host = es[at].host
    PROVE  SamePlaces(es, ReplaceAt(es, at, x))
BY DEF SamePlaces, ReplaceAt

LEMMA RemoveInOrder ==
    ASSUME NEW es, NEW gs, Tidy(gs), InOrder(es, gs), NEW at \in DOMAIN gs
    PROVE  InOrder(es, RemoveAt(gs, at))
<1> DEFINE n == RemoveAt(gs, at)
           p == [i \in DOMAIN n |-> IF i < at THEN i ELSE i + 1]
<1>1. gs \in Seq(EntryState) /\ Len(gs) \in Nat /\ DOMAIN gs = 1..Len(gs) /\ at \in 1..Len(gs)
  BY DEF Tidy
<1>2. /\ n \in Seq(EntryState) /\ Len(n) = Len(gs) - 1
      /\ \A i \in 1..(Len(gs) - 1) : n[i] = IF i < at THEN gs[i] ELSE gs[i + 1]
  BY <1>1, RemoveAtIs
<1>3. DOMAIN n = 1..(Len(gs) - 1)
  BY <1>2
<1> HIDE DEF n
<1>4. \A i \in DOMAIN n : p[i] = IF i < at THEN i ELSE i + 1
  OBVIOUS
<1> HIDE DEF p
<1>5. \A i \in DOMAIN n : p[i] \in DOMAIN gs /\ n[i] = gs[p[i]]
  BY <1>1, <1>2, <1>3, <1>4
<1>6. \A i, j \in DOMAIN n : i < j => p[i] < p[j]
  BY <1>1, <1>3, <1>4
<1> QED BY <1>5, <1>6, OrderOfSome DEF n

\* insert puts an entry behind those of its host: all of them have to come before it.
LEMMA InsertInOrder ==
    ASSUME NEW es, NEW gs, Tidy(gs), InOrder(es, gs), NEW x \in EntryState,
           \A l \in DOMAIN es : es[l].id # x.id \/ es[l].host # x.host
    PROVE  InOrder(es, Insert(gs, x))
<1>1. PICK at \in 1..(Len(gs) + 1) :
          /\ Insert(gs, x) = InsertAt(gs, at, x)
          /\ \A k \in DOMAIN gs : k >= at => gs[k].host # x.host
  BY InsertGoes
<1> DEFINE n == InsertAt(gs, at, x)
           q(i) == IF i < at THEN i ELSE i - 1
<1>2. gs \in Seq(EntryState) /\ Len(gs) \in Nat /\ DOMAIN gs = 1..Len(gs)
  BY DEF Tidy
<1>3. /\ n \in Seq(EntryState) /\ Len(n) = Len(gs) + 1
      /\ \A i \in 1..(Len(gs) + 1) : n[i] = IF i < at THEN gs[i]
                                            ELSE IF i = at THEN x ELSE gs[i - 1]
  BY <1>2, InsertAtIs
<1>4. DOMAIN n = 1..(Len(gs) + 1)
  BY <1>3
<1> HIDE DEF n
<1>5. ASSUME NEW i \in DOMAIN n
      PROVE  \/ i = at /\ n[i] = x
             \/ i # at /\ q(i) \in DOMAIN gs /\ n[i] = gs[q(i)]
  <2>1. CASE i < at
    BY <1>2, <1>3, <1>4, <2>1
  <2>2. CASE i = at
    BY <1>3, <1>4, <2>2
  <2>3. CASE i > at
    BY <1>2, <1>3, <1>4, <2>3
  <2> QED BY <1>4, <2>1, <2>2, <2>3
<1>6. \A i, j \in DOMAIN n : i < j /\ i # at /\ j # at => q(i) < q(j)
  BY <1>2, <1>4
<1>7. ASSUME NEW j \in DOMAIN n, at < j
      PROVE  n[j].host # x.host
  <2>1. n[j] = gs[j - 1] /\ j - 1 \in DOMAIN gs /\ j - 1 >= at
    BY <1>2, <1>3, <1>4, <1>7
  <2> QED BY <1>1, <2>1
<1> HIDE DEF q
<1>8. InOrder(es, n)
  <2> SUFFICES ASSUME NEW i \in DOMAIN n, NEW j \in DOMAIN n, NEW l \in DOMAIN es,
                      i < j, n[i].host = n[j].host, es[l].id = n[j].id, es[l].host = n[j].host
               PROVE  \E k \in DOMAIN es : k < l /\ es[k].id = n[i].id /\ es[k].host = n[i].host
    BY DEF InOrder
  <2>1. j # at
    BY <1>5
  <2>2. i # at
    BY <1>5, <1>7
  <2> QED BY <1>5, <1>6, <2>1, <2>2 DEF InOrder
<1> QED BY <1>1, <1>8 DEF n

-----------------------------------------------------------------------------
(* The loop over the entries that are known                                 *)

WindowsOK(ws) == DOMAIN ws \subseteq WindowId /\ \A w \in DOMAIN ws : ws[w] \in Shown

\* What becomes of an entry that stays.
Stays(e, ws) == WindowFor(e, ws) # NoWindow \/ e.pinned
Final(e, ws, b) ==
    IF WindowFor(e, ws) # NoWindow THEN Bound(e, WindowFor(e, ws), ws, b)
    ELSE [e EXCEPT !.window = NoWindow]
Becomes(e, ws, b) == IF Stays(e, ws) THEN {Final(e, ws, b)} ELSE {}

LEMMA WindowForIs ==
    ASSUME NEW e, NEW ws, WindowsOK(ws)
    PROVE  LET w == WindowFor(e, ws) IN
           /\ w \in DOMAIN ws \cup {NoWindow}
           /\ w # NoWindow => w \in DOMAIN ws /\ w \in WindowId /\ ws[w].shows = e.id
           /\ w = NoWindow => \A o \in DOMAIN ws : ws[o].shows # e.id
           /\ (e.window \in DOMAIN ws /\ ws[e.window].shows = e.id) => w = e.window
<1> DEFINE candidates == {w \in DOMAIN ws : ws[w].shows = e.id}
<1>1. candidates \in SUBSET Nat /\ NoWindow \notin DOMAIN ws
  BY ConstantsAssumption DEF WindowsOK, WindowId
<1>2. candidates # {} => Min(candidates) \in candidates
  BY <1>1, MinIs
<1>3. WindowFor(e, ws) = IF e.window \in candidates THEN e.window
                         ELSE IF candidates = {} THEN NoWindow ELSE Min(candidates)
  BY DEF WindowFor
<1> QED BY <1>1, <1>2, <1>3 DEF WindowsOK

LEMMA BoundIs ==
    ASSUME NEW e \in EntryState, NEW ws, WindowsOK(ws), NEW w \in DOMAIN ws,
           NEW b, b.activeTime \in 0..MaxTime
    PROVE  /\ Bound(e, w, ws, b) \in EntryState
           /\ Bound(e, w, ws, b).id = e.id
           /\ Bound(e, w, ws, b).window = w
           /\ Bound(e, w, ws, b).host = ws[w].host
           /\ Bound(e, w, ws, b).pinned = e.pinned
           /\ Bound(e, w, ws, b).time =
                 IF w = b.active /\ e.time < b.activeTime THEN b.activeTime ELSE e.time
<1>1. ws[w].host \in Host /\ w \in WindowId
  BY DEF WindowsOK, Shown, Host
<1> QED BY <1>1 DEF Bound, EntryState

LEMMA FinalIs ==
    ASSUME NEW e \in EntryState, NEW ws, WindowsOK(ws), NEW b, b.activeTime \in 0..MaxTime
    PROVE  Final(e, ws, b) \in EntryState /\ Final(e, ws, b).id = e.id
<1>1. CASE WindowFor(e, ws) = NoWindow
  BY <1>1 DEF Final, EntryState
<1>2. CASE WindowFor(e, ws) # NoWindow
  BY <1>2, BoundIs, WindowForIs DEF Final
<1> QED BY <1>1, <1>2

\* One turn of the loop.
TurnsInto(r, e, ws, b, n) ==
    /\ Tidy(n.entries) /\ n.changed \in BOOLEAN
    /\ Range(n.entries) = (Range(r.entries) \ {e}) \cup Becomes(e, ws, b)
    /\ n.changed = FALSE => r.changed = FALSE /\ n.entries = r.entries

LEMMA ReconcileEntryKeeps ==
    ASSUME NEW r, Tidy(r.entries), r.changed \in BOOLEAN, NEW e \in Range(r.entries),
           NEW ws, WindowsOK(ws), NEW b, b.activeTime \in 0..MaxTime
    PROVE  TurnsInto(r, e, ws, b, ReconcileEntry(r, e, ws, b))
<1> DEFINE n == ReconcileEntry(r, e, ws, b)
           w == WindowFor(e, ws)
           i == IndexOf(r.entries, e.id)
           bound == Bound(e, w, ws, b)
<1> SUFFICES /\ Tidy(n.entries) /\ n.changed \in BOOLEAN
             /\ Range(n.entries) = (Range(r.entries) \ {e}) \cup Becomes(e, ws, b)
             /\ n.changed = FALSE => r.changed = FALSE /\ n.entries = r.entries
  BY DEF TurnsInto
<1>1. PICK j \in DOMAIN r.entries : r.entries[j] = e
  BY DEF Range
<1>2. i = j
  BY <1>1, IndexOfIs DEF Tidy
<1>3. i \in DOMAIN r.entries /\ r.entries[i] = e
  BY <1>1, <1>2
<1>4. e \in EntryState
  BY <1>1, ElementOfSeq, LenProperties DEF Tidy
<1>5. \A o \in Range(r.entries) : o.id = e.id => o = e
  BY <1>3 DEF Tidy, UniqueIds, Range
<1>6. n = IF w # NoWindow
          THEN [entries |-> IF bound.host = e.host
                            THEN ReplaceAt(r.entries, i, bound)
                            ELSE Insert(RemoveAt(r.entries, i), bound),
                changed |-> r.changed \/ e # bound]
          ELSE [entries |-> IF e.pinned
                            THEN ReplaceAt(r.entries, i, [e EXCEPT !.window = NoWindow])
                            ELSE RemoveAt(r.entries, i),
                changed |-> r.changed \/ e.window # NoWindow \/ ~e.pinned]
  BY DEF ReconcileEntry, BindChanges
<1> HIDE DEF i, n
<1>7. CASE w # NoWindow
  <2>1. bound \in EntryState /\ bound.id = e.id
    BY <1>4, <1>7, BoundIs, WindowForIs
  <2>2. Becomes(e, ws, b) = {bound}
    BY <1>7 DEF Becomes, Stays, Final
  <2>3. /\ n.entries = IF bound.host = e.host THEN ReplaceAt(r.entries, i, bound)
                       ELSE Insert(RemoveAt(r.entries, i), bound)
        /\ n.changed = (r.changed \/ e # bound)
    BY <1>6, <1>7
  <2> HIDE DEF bound
  <2>4. CASE bound.host = e.host
    <3>1. /\ Tidy(ReplaceAt(r.entries, i, bound))
          /\ Range(ReplaceAt(r.entries, i, bound)) = (Range(r.entries) \ {e}) \cup {bound}
      BY <1>3, <2>1, <2>4, ReplaceKeeps
    <3>2. bound = e => ReplaceAt(r.entries, i, bound) = r.entries
      BY <1>3 DEF ReplaceAt, Tidy
    <3> QED BY <2>2, <2>3, <2>4, <3>1, <3>2
  <2>5. CASE bound.host # e.host
    <3> DEFINE left == RemoveAt(r.entries, i)
    <3>1. Tidy(left) /\ Range(left) = Range(r.entries) \ {e}
      BY <1>3, RemoveKeeps
    <3> HIDE DEF left
    <3>2. \A k \in DOMAIN left : left[k] \in Range(left)
      BY DEF Range
    <3>3. \A k \in DOMAIN left : left[k].id # bound.id
      BY <1>5, <2>1, <3>1, <3>2
    <3>4. Tidy(Insert(left, bound)) /\ Range(Insert(left, bound)) = Range(left) \cup {bound}
      BY <2>1, <3>1, <3>3, InsertKeeps
    <3>5. n.changed
      BY <2>3, <2>5
    <3> QED BY <2>2, <2>3, <2>5, <3>1, <3>4, <3>5 DEF left
  <2> QED BY <2>4, <2>5
<1>8. CASE w = NoWindow /\ e.pinned
  <2> DEFINE x == [e EXCEPT !.window = NoWindow]
  <2>1. x \in EntryState /\ x.id = e.id /\ x.host = e.host
    BY <1>4 DEF EntryState
  <2>2. Becomes(e, ws, b) = {x}
    BY <1>8 DEF Becomes, Stays, Final
  <2>3. /\ n.entries = ReplaceAt(r.entries, i, x)
        /\ n.changed = (r.changed \/ e.window # NoWindow)
    BY <1>6, <1>8
  <2>4. e.window = NoWindow => x = e
    BY <1>4 DEF EntryState
  <2> HIDE DEF x
  <2>5. /\ Tidy(ReplaceAt(r.entries, i, x))
        /\ Range(ReplaceAt(r.entries, i, x)) = (Range(r.entries) \ {e}) \cup {x}
    BY <1>3, <2>1, ReplaceKeeps
  <2>6. x = e => ReplaceAt(r.entries, i, x) = r.entries
    BY <1>3 DEF ReplaceAt, Tidy
  <2> QED BY <2>2, <2>3, <2>4, <2>5, <2>6
<1>9. CASE w = NoWindow /\ ~e.pinned
  <2>1. Becomes(e, ws, b) = {}
    BY <1>9 DEF Becomes, Stays
  <2>2. n.entries = RemoveAt(r.entries, i) /\ n.changed
    BY <1>6, <1>9
  <2>3. n.changed \in BOOLEAN
    BY <1>6, <1>9
  <2>4. Tidy(RemoveAt(r.entries, i)) /\ Range(RemoveAt(r.entries, i)) = Range(r.entries) \ {e}
    BY <1>3, RemoveKeeps
  <2> QED BY <2>1, <2>2, <2>3, <2>4
<1> QED BY <1>7, <1>8, <1>9

\* One turn moves an entry only to another host, behind the entries there.
LEMMA ReconcileEntryInOrder ==
    ASSUME NEW r, Tidy(r.entries), NEW e \in Range(r.entries),
           NEW ws, WindowsOK(ws), NEW b, b.activeTime \in 0..MaxTime,
           NEW es, UniqueIds(es), e \in Range(es), InOrder(es, r.entries)
    PROVE  InOrder(es, ReconcileEntry(r, e, ws, b).entries)
<1> DEFINE n == ReconcileEntry(r, e, ws, b)
           w == WindowFor(e, ws)
           i == IndexOf(r.entries, e.id)
           bound == Bound(e, w, ws, b)
           x == [e EXCEPT !.window = NoWindow]
<1>1. PICK j \in DOMAIN r.entries : r.entries[j] = e
  BY DEF Range
<1>2. i \in DOMAIN r.entries /\ r.entries[i] = e
  BY <1>1, IndexOfIs DEF Tidy
<1>3. e \in EntryState
  BY <1>1, ElementOfSeq, LenProperties DEF Tidy
<1>4. /\ w # NoWindow => n.entries = IF bound.host = e.host
                                     THEN ReplaceAt(r.entries, i, bound)
                                     ELSE Insert(RemoveAt(r.entries, i), bound)
      /\ w = NoWindow => n.entries = IF e.pinned THEN ReplaceAt(r.entries, i, x)
                                     ELSE RemoveAt(r.entries, i)
  BY DEF ReconcileEntry
<1> HIDE DEF i, n
<1>5. CASE w # NoWindow
  <2>1. bound \in EntryState /\ bound.id = e.id
    BY <1>3, <1>5, BoundIs, WindowForIs
  <2> HIDE DEF bound
  <2>2. CASE bound.host = e.host
    <3>1. SamePlaces(r.entries, ReplaceAt(r.entries, i, bound))
      BY <1>2, <2>1, <2>2, ReplaceInPlace
    <3> QED BY <1>4, <1>5, <2>2, <3>1, OrderInPlace DEF n
  <2>3. CASE bound.host # e.host
    <3> DEFINE left == RemoveAt(r.entries, i)
    <3>1. Tidy(left) /\ InOrder(es, left)
      BY <1>2, RemoveKeeps, RemoveInOrder
    <3> HIDE DEF left
    <3>2. \A l \in DOMAIN es : es[l].id = bound.id => es[l].host = e.host
      BY <2>1 DEF UniqueIds, Range
    <3>3. InOrder(es, Insert(left, bound))
      BY <2>1, <2>3, <3>1, <3>2, InsertInOrder
    <3> QED BY <1>4, <1>5, <2>3, <3>3 DEF left, n
  <2> QED BY <2>2, <2>3
<1>6. CASE w = NoWindow /\ e.pinned
  <2>1. x.id = e.id /\ x.host = e.host
    BY <1>3 DEF EntryState
  <2> HIDE DEF x
  <2>2. SamePlaces(r.entries, ReplaceAt(r.entries, i, x))
    BY <1>2, <2>1, ReplaceInPlace
  <2> QED BY <1>4, <1>6, <2>2, OrderInPlace DEF n
<1>7. CASE w = NoWindow /\ ~e.pinned
  BY <1>2, <1>4, <1>7, RemoveInOrder DEF n
<1> QED BY <1>5, <1>6, <1>7

\* The loop of ReconcileKnown, by how many of the entries it has seen.
KnownLoop(b, ws) ==
    CHOOSE after : after = [k \in 0..Len(b.entries) |->
        IF k = 0 THEN [entries |-> b.entries, changed |-> FALSE]
        ELSE ReconcileEntry(after[k - 1], b.entries[k], ws, b)]

LEMMA KnownLoopIs ==
    ASSUME NEW b, Len(b.entries) \in Nat, NEW ws
    PROVE  KnownLoop(b, ws) = [k \in 0..Len(b.entries) |->
               IF k = 0 THEN [entries |-> b.entries, changed |-> FALSE]
               ELSE ReconcileEntry(KnownLoop(b, ws)[k - 1], b.entries[k], ws, b)]
<1> DEFINE n == Len(b.entries)
           Solves(f, m) == f = [k \in 0..m |->
               IF k = 0 THEN [entries |-> b.entries, changed |-> FALSE]
               ELSE ReconcileEntry(f[k - 1], b.entries[k], ws, b)]
           T == {m \in 0..n : ~ \E f : Solves(f, m)}
<1>1. \E f : Solves(f, n)
  <2> SUFFICES ASSUME T # {} PROVE FALSE
    BY DEF T
  <2>1. T \in SUBSET Nat
    OBVIOUS
  <2>2. PICK m \in T : \A k \in T : m <= k
    <3> HIDE DEF T
    <3> QED BY <2>1, LeastOfNat
  <2>3. m # 0
    <3>1. Solves([k \in 0..0 |-> [entries |-> b.entries, changed |-> FALSE]], 0)
      OBVIOUS
    <3> QED BY <3>1
  <2>4. m - 1 \in 0..n /\ m - 1 \notin T
    <3>1. n \in Nat /\ m \in 0..n
      OBVIOUS
    <3> HIDE DEF T, n
    <3> QED BY <2>2, <2>3, <3>1
  <2>5. PICK f : Solves(f, m - 1)
    <3> HIDE DEF Solves
    <3> QED BY <2>4
  <2> DEFINE g == [k \in 0..m |-> IF k = m
                                  THEN ReconcileEntry(f[m - 1], b.entries[m], ws, b)
                                  ELSE f[k]]
  <2>6. \A k \in 0..(m - 1) : g[k] = f[k] /\ (k # 0 => k - 1 \in 0..(m - 1))
    BY <2>4
  <2>7. m \in Nat /\ \A k \in 0..m : k = m \/ k \in 0..(m - 1)
    BY <2>4
  <2>8. g[m] = ReconcileEntry(g[m - 1], b.entries[m], ws, b)
    BY <2>3, <2>4, <2>6, <2>7
  <2>9. \A k \in 0..(m - 1) :
            g[k] = IF k = 0 THEN [entries |-> b.entries, changed |-> FALSE]
                   ELSE ReconcileEntry(g[k - 1], b.entries[k], ws, b)
    <3> HIDE DEF g
    <3>1. \A k \in 0..(m - 1) :
            f[k] = IF k = 0 THEN [entries |-> b.entries, changed |-> FALSE]
                   ELSE ReconcileEntry(f[k - 1], b.entries[k], ws, b)
      BY <2>5
    <3> QED BY <2>6, <3>1
  <2>10. Solves(g, m)
    BY <2>3, <2>7, <2>8, <2>9
  <2> QED BY <2>10
<1> QED BY <1>1 DEF KnownLoop

\* All entries were seen: what stays is what its window makes of it.
LEMMA ReconcileKnownIs ==
    ASSUME NEW b, Tidy(b.entries), b.activeTime \in 0..MaxTime, NEW ws, WindowsOK(ws)
    PROVE  LET r == ReconcileKnown(b, ws) IN
           /\ Tidy(r.entries) /\ r.changed \in BOOLEAN
           /\ Range(r.entries) = {Final(e, ws, b) : e \in {o \in Range(b.entries) : Stays(o, ws)}}
           /\ r.changed = FALSE => r.entries = b.entries
           /\ InOrder(b.entries, r.entries)
<1> DEFINE es == b.entries
           n == Len(es)
           L == KnownLoop(b, ws)
           Done(k) == {Final(es[j], ws, b) : j \in {i \in 1..k : Stays(es[i], ws)}}
           Left(k) == {es[j] : j \in (k + 1)..n}
           Holds(k) == /\ Tidy(L[k].entries) /\ L[k].changed \in BOOLEAN
                       /\ Range(L[k].entries) = Left(k) \cup Done(k)
                       /\ L[k].changed = FALSE => L[k].entries = es
                       /\ InOrder(es, L[k].entries)
<1>1. n \in Nat /\ DOMAIN es = 1..n /\ \A i \in 1..n : es[i] \in EntryState
  BY DEF Tidy
<1>2. ReconcileKnown(b, ws) = L[n]
  BY DEF ReconcileKnown, KnownLoop
<1>3. /\ L[0] = [entries |-> es, changed |-> FALSE]
      /\ \A k \in 1..n : L[k] = ReconcileEntry(L[k - 1], es[k], ws, b)
  <2>1. L = [k \in 0..n |-> IF k = 0 THEN [entries |-> es, changed |-> FALSE]
                            ELSE ReconcileEntry(L[k - 1], es[k], ws, b)]
    BY <1>1, KnownLoopIs
  <2> HIDE DEF L, es
  <2>2. 0 \in 0..n /\ \A k \in 1..n : k \in 0..n /\ k # 0
    BY <1>1
  <2> HIDE DEF n
  <2>3. \A k \in 0..n : L[k] = IF k = 0 THEN [entries |-> es, changed |-> FALSE]
                               ELSE ReconcileEntry(L[k - 1], es[k], ws, b)
    BY <2>1, Zenon
  <2> QED BY <2>2, <2>3
<1>4. n = Len(es)
  OBVIOUS
<1> HIDE DEF L, es
<1>5. Holds(0)
  <2>1. Left(0) = Range(es) /\ Done(0) = {}
    BY <1>1 DEF Range
  <2>2. Tidy(es) /\ InOrder(es, es)
    BY OrderStays DEF es, Tidy
  <2> QED BY <1>3, <2>1, <2>2
<1>6. ASSUME NEW k \in 1..n, Holds(k - 1)
      PROVE  Holds(k)
  <2>1. es[k] \in Range(L[k - 1].entries)
    <3>1. es[k] \in Left(k - 1)
      BY <1>1
    <3> HIDE DEF Left, Done
    <3> QED BY <1>6, <3>1
  <2>2. /\ Tidy(L[k].entries) /\ L[k].changed \in BOOLEAN
        /\ Range(L[k].entries) = (Range(L[k - 1].entries) \ {es[k]})
              \cup Becomes(es[k], ws, b)
        /\ L[k].changed = FALSE => L[k - 1].changed = FALSE /\ L[k].entries = L[k - 1].entries
    <3> DEFINE r == L[k - 1]
               e == es[k]
    <3>1. Tidy(r.entries) /\ r.changed \in BOOLEAN /\ e \in Range(r.entries)
      BY <1>6, <2>1
    <3>2. L[k] = ReconcileEntry(r, e, ws, b)
      BY <1>3
    <3> HIDE DEF r, e
    <3>3. TurnsInto(r, e, ws, b, ReconcileEntry(r, e, ws, b))
      BY <3>1, ReconcileEntryKeeps
    <3> QED BY <3>2, <3>3 DEF TurnsInto, r, e
  <2>7. InOrder(es, L[k].entries)
    <3> DEFINE r == L[k - 1]
               e == es[k]
    <3>1. Tidy(r.entries) /\ InOrder(es, r.entries) /\ e \in Range(r.entries)
      BY <1>6, <2>1
    <3>2. UniqueIds(es) /\ e \in Range(es) /\ L[k] = ReconcileEntry(r, e, ws, b)
      BY <1>1, <1>3 DEF Tidy, Range, es
    <3> HIDE DEF r, e
    <3>3. InOrder(es, ReconcileEntry(r, e, ws, b).entries)
      BY <3>1, <3>2, ReconcileEntryInOrder
    <3> QED BY <3>2, <3>3
  <2>3. Left(k - 1) \ {es[k]} = Left(k)
    <3>1. \A j \in (k + 1)..n : es[j] # es[k] /\ j \in (k - 1 + 1)..n
      BY <1>1 DEF Tidy, UniqueIds, es
    <3>2. \A j \in (k - 1 + 1)..n : j = k \/ j \in (k + 1)..n
      BY <1>1
    <3> QED BY <3>1, <3>2
  <2>4. es[k] \notin Done(k - 1)
    <3>1. \A j \in 1..(k - 1) : es[j].id # es[k].id
      BY <1>1 DEF Tidy, UniqueIds, es
    <3>2. \A j \in 1..(k - 1) : Final(es[j], ws, b).id = es[j].id
      BY <1>1, FinalIs
    <3> QED BY <3>1, <3>2
  <2>5. Done(k) = Done(k - 1) \cup Becomes(es[k], ws, b)
    <3>1. \A j \in Int : j \in 1..k <=> (j \in 1..(k - 1) \/ j = k)
      BY <1>1
    <3>2. \A j \in 1..k : j \in Int
      BY <1>1
    <3> QED BY <1>1, <3>1, <3>2 DEF Becomes
  <2> HIDE DEF Left, Done
  <2>6. Range(L[k].entries) = Left(k) \cup Done(k)
    BY <1>6, <2>2, <2>3, <2>4, <2>5
  <2> QED BY <1>6, <2>2, <2>6, <2>7
<1>7. Holds(n)
  <2> DEFINE T == {k \in 0..n : ~Holds(k)}
  <2> HIDE DEF Holds
  <2> SUFFICES ASSUME T # {} PROVE FALSE
    BY <1>1
  <2>1. T \in SUBSET Nat
    OBVIOUS
  <2>2. PICK m \in T : \A k \in T : m <= k
    <3> HIDE DEF T
    <3> QED BY <2>1, LeastOfNat
  <2>3. m # 0 /\ m \in 1..n /\ m - 1 \in 0..n
    BY <1>1, <1>5, <2>2
  <2>4. Holds(m - 1)
    BY <2>2, <2>3
  <2> QED BY <1>6, <2>3, <2>4
<1>8. Left(n) = {} /\ Done(n) = {Final(e, ws, b) : e \in {o \in Range(es) : Stays(o, ws)}}
  BY <1>1 DEF Range
<1> HIDE DEF Left, Done
<1> QED BY <1>2, <1>7, <1>8 DEF es

-----------------------------------------------------------------------------
(* The loop over the windows that add an entry                              *)

AddLoop(es, ws, b) ==
    CHOOSE after : after = [w \in 0..MaxWindow |->
        IF w = 0 THEN es
        ELSE IF w \in NewWindows(b.entries, ws)
             THEN Insert(after[w - 1], NewEntry(w, ws, b))
             ELSE after[w - 1]]

LEMMA AddLoopIs ==
    ASSUME NEW es, NEW ws, NEW b
    PROVE  AddLoop(es, ws, b) = [w \in 0..MaxWindow |->
               IF w = 0 THEN es
               ELSE IF w \in NewWindows(b.entries, ws)
                    THEN Insert(AddLoop(es, ws, b)[w - 1], NewEntry(w, ws, b))
                    ELSE AddLoop(es, ws, b)[w - 1]]
<1> DEFINE new == NewWindows(b.entries, ws)
           n == MaxWindow
           Solves(f, m) == f = [w \in 0..m |->
               IF w = 0 THEN es
               ELSE IF w \in new THEN Insert(f[w - 1], NewEntry(w, ws, b)) ELSE f[w - 1]]
           T == {m \in 0..n : ~ \E f : Solves(f, m)}
<1> HIDE DEF new
<1>1. \E f : Solves(f, n)
  <2> SUFFICES ASSUME T # {} PROVE FALSE
    BY ConstantsAssumption DEF T
  <2>1. T \in SUBSET Nat
    OBVIOUS
  <2>2. PICK m \in T : \A k \in T : m <= k
    <3> HIDE DEF T
    <3> QED BY <2>1, LeastOfNat
  <2>3. m # 0
    <3>1. Solves([k \in 0..0 |-> es], 0)
      OBVIOUS
    <3> QED BY <3>1
  <2>4. m - 1 \in 0..n /\ m - 1 \notin T
    <3>1. n \in Nat /\ m \in 0..n
      BY ConstantsAssumption
    <3> HIDE DEF T, n
    <3> QED BY <2>2, <2>3, <3>1
  <2>5. PICK f : Solves(f, m - 1)
    <3> HIDE DEF Solves
    <3> QED BY <2>4
  <2>6. Solves([k \in 0..m |-> IF k = m THEN IF m \in new
                                             THEN Insert(f[m - 1], NewEntry(m, ws, b))
                                             ELSE f[m - 1]
                               ELSE f[k]], m)
    BY <2>1, <2>2, <2>3, <2>5
  <2> QED BY <2>6
<1> QED BY <1>1 DEF AddLoop, new

LEMMA NewEntryIs ==
    ASSUME NEW ws, WindowsOK(ws), NEW w \in DOMAIN ws, ws[w].shows # NoEntry,
           NEW b, b.activeTime \in 0..MaxTime
    PROVE  /\ NewEntry(w, ws, b) \in EntryState
           /\ NewEntry(w, ws, b).id = ws[w].shows
           /\ NewEntry(w, ws, b).window = w
           /\ NewEntry(w, ws, b).host = ws[w].host
           /\ ~NewEntry(w, ws, b).pinned
           /\ NewEntry(w, ws, b).time =
                 IF w = b.active /\ 0 < b.activeTime THEN b.activeTime ELSE 0
<1> DEFINE e == [id |-> ws[w].shows, host |-> ws[w].host, pinned |-> FALSE,
                 window |-> NoWindow, time |-> 0]
<1>1. ws[w].host \in Host /\ ws[w].shows \in Entry
  BY DEF WindowsOK, Shown, Host
<1>2. e \in EntryState
  BY <1>1, ConstantsAssumption DEF EntryState
<1>3. e.id = ws[w].shows /\ e.pinned = FALSE /\ e.time = 0
  OBVIOUS
<1>4. NewEntry(w, ws, b) = Bound(e, w, ws, b)
  BY DEF NewEntry
<1> HIDE DEF e
<1> QED BY <1>2, <1>3, <1>4, BoundIs

LEMMA AddNewIs ==
    ASSUME NEW b, b.activeTime \in 0..MaxTime, NEW ws, WindowsOK(ws), NEW es, Tidy(es),
           \A e \in Range(es) : Known(b.entries, e.id)
    PROVE  LET r == AddNew(es, ws, b) IN
           /\ Tidy(r)
           /\ Range(r) = Range(es) \cup {NewEntry(w, ws, b) : w \in NewWindows(b.entries, ws)}
           /\ NewWindows(b.entries, ws) = {} => r = es
           /\ InOrder(b.entries, es) => InOrder(b.entries, r)
<1> DEFINE n == MaxWindow
           new == NewWindows(b.entries, ws)
           L == AddLoop(es, ws, b)
           Done(k) == {NewEntry(w, ws, b) : w \in new \cap 1..k}
           Holds(k) == /\ Tidy(L[k])
                       /\ Range(L[k]) = Range(es) \cup Done(k)
                       /\ new = {} => L[k] = es
                       /\ InOrder(b.entries, es) => InOrder(b.entries, L[k])
<1>1. n \in Nat
  BY ConstantsAssumption
<1>2. AddNew(es, ws, b) = L[n]
  BY DEF AddNew, AddLoop
<1>3. L[0] = es
  BY <1>1, AddLoopIs
<1>4. \A w \in 1..n : L[w] = IF w \in new THEN Insert(L[w - 1], NewEntry(w, ws, b)) ELSE L[w - 1]
  BY <1>1, AddLoopIs
<1>5. /\ \A w \in new : w \in DOMAIN ws /\ w \in 1..n /\ ws[w].shows # NoEntry
                        /\ ~Known(b.entries, ws[w].shows)
      /\ \A v, w \in new : ws[v].shows = ws[w].shows => v <= w
  BY DEF NewWindows, WindowsOK, WindowId
<1> HIDE DEF L, new
<1>6. Holds(0)
  BY <1>3
<1>7. ASSUME NEW k \in 1..n, Holds(k - 1)
      PROVE  Holds(k)
  <2>1. CASE k \notin new
    <3>1. L[k] = L[k - 1]
      BY <1>4, <2>1
    <3>2. new \cap 1..k = new \cap 1..(k - 1)
      BY <1>1, <2>1
    <3> QED BY <1>7, <3>1, <3>2
  <2>2. CASE k \in new
    <3> DEFINE x == NewEntry(k, ws, b)
    <3>1. x \in EntryState /\ x.id = ws[k].shows
      BY <1>5, <2>2, NewEntryIs
    <3>2. \A e \in Range(es) : e.id # x.id
      BY <1>5, <2>2, <3>1
    <3>3. \A e \in Done(k - 1) : e.id # x.id
      <4> SUFFICES ASSUME NEW w \in new \cap 1..(k - 1), NewEntry(w, ws, b).id = x.id
                   PROVE  FALSE
        OBVIOUS
      <4>1. NewEntry(w, ws, b).id = ws[w].shows
        BY <1>5, NewEntryIs
      <4>2. k <= w /\ w <= k - 1
        BY <1>5, <2>2, <3>1, <4>1
      <4> QED BY <1>1, <4>2
    <3>4. L[k] = Insert(L[k - 1], x)
      BY <1>4, <2>2
    <3>5. Done(k) = Done(k - 1) \cup {x}
      <4>1. new \cap 1..k = (new \cap 1..(k - 1)) \cup {k}
        BY <1>1, <2>2
      <4> QED BY <4>1
    <3> HIDE DEF x, Done
    <3>6. \A i \in DOMAIN L[k - 1] : L[k - 1][i].id # x.id
      <4>1. \A i \in DOMAIN L[k - 1] : L[k - 1][i] \in Range(es) \cup Done(k - 1)
        BY <1>7 DEF Range
      <4> QED BY <3>2, <3>3, <4>1
    <3>7. Tidy(L[k]) /\ Range(L[k]) = Range(L[k - 1]) \cup {x}
      BY <1>7, <3>1, <3>4, <3>6, InsertKeeps
    <3>8. \A l \in DOMAIN b.entries : b.entries[l].id # x.id
      BY <1>5, <2>2, <3>1 DEF Known
    <3>9. InOrder(b.entries, es) => InOrder(b.entries, L[k])
      BY <1>7, <3>1, <3>4, <3>8, InsertInOrder
    <3> QED BY <1>7, <2>2, <3>5, <3>7, <3>9
  <2> QED BY <2>1, <2>2
<1>8. Holds(n)
  <2> DEFINE T == {k \in 0..n : ~Holds(k)}
  <2> HIDE DEF Holds
  <2> SUFFICES ASSUME T # {} PROVE FALSE
    BY <1>1
  <2>1. T \in SUBSET Nat
    BY <1>1
  <2>2. PICK m \in T : \A k \in T : m <= k
    <3> HIDE DEF T
    <3> QED BY <2>1, LeastOfNat
  <2>3. m # 0 /\ m \in 1..n /\ m - 1 \in 0..n
    BY <1>1, <1>6, <2>2
  <2>4. Holds(m - 1)
    BY <2>2, <2>3
  <2> QED BY <1>7, <2>3, <2>4
<1>9. new \cap 1..n = new
  BY <1>5
<1> QED BY <1>2, <1>8, <1>9 DEF new

-----------------------------------------------------------------------------
(* What is persisted, and restored from it                                  *)

KeptLoop(es) ==
    CHOOSE upTo : upTo = [k \in 0..Len(es) |->
        IF k = 0 THEN <<>>
        ELSE upTo[k - 1] \o (IF es[k].pinned THEN <<Kept(es[k])>> ELSE <<>>)]

LEMMA KeptLoopIs ==
    ASSUME NEW es, Len(es) \in Nat
    PROVE  /\ KeptLoop(es)[0] = <<>>
           /\ \A k \in 1..Len(es) : KeptLoop(es)[k] =
                 KeptLoop(es)[k - 1] \o (IF es[k].pinned THEN <<Kept(es[k])>> ELSE <<>>)
<1> DEFINE n == Len(es)
           More(k) == IF es[k].pinned THEN <<Kept(es[k])>> ELSE <<>>
           Solves(f, m) == f = [k \in 0..m |-> IF k = 0 THEN <<>> ELSE f[k - 1] \o More(k)]
           T == {m \in 0..n : ~ \E f : Solves(f, m)}
<1> HIDE DEF More
<1>0. n \in Nat
  OBVIOUS
<1>1. \E f : Solves(f, n)
  <2> SUFFICES ASSUME T # {} PROVE FALSE
    <3> HIDE DEF Solves
    <3> QED BY <1>0
  <2>1. T \in SUBSET Nat
    OBVIOUS
  <2>2. PICK m \in T : \A k \in T : m <= k
    <3> HIDE DEF T
    <3> QED BY <2>1, LeastOfNat
  <2>3. m # 0
    <3>1. Solves([k \in 0..0 |-> <<>>], 0)
      OBVIOUS
    <3> QED BY <3>1
  <2>4. m - 1 \in 0..n /\ m - 1 \notin T
    <3> HIDE DEF Solves
    <3> QED BY <1>0, <2>2, <2>3
  <2>5. PICK f : Solves(f, m - 1)
    <3> HIDE DEF Solves
    <3> QED BY <2>4
  <2> DEFINE g == [k \in 0..m |-> IF k = m THEN f[m - 1] \o More(m) ELSE f[k]]
  <2>6. \A k \in 0..(m - 1) : g[k] = f[k] /\ (k # 0 => k - 1 \in 0..(m - 1))
    BY <2>4
  <2>7. m \in Nat /\ \A k \in 0..m : k = m \/ k \in 0..(m - 1)
    BY <2>4
  <2>8. g[m] = g[m - 1] \o More(m)
    <3>1. m \in 0..m /\ m - 1 \in 0..(m - 1)
      BY <2>3, <2>4, <2>7
    <3>2. g[m] = f[m - 1] \o More(m)
      BY <3>1
    <3> HIDE DEF g
    <3> QED BY <2>6, <3>1, <3>2
  <2>9. \A k \in 0..(m - 1) : g[k] = IF k = 0 THEN <<>> ELSE g[k - 1] \o More(k)
    <3> HIDE DEF g
    <3>1. \A k \in 0..(m - 1) : f[k] = IF k = 0 THEN <<>> ELSE f[k - 1] \o More(k)
      BY <2>5
    <3> QED BY <2>6, <3>1
  <2>10. Solves(g, m)
    BY <2>3, <2>7, <2>8, <2>9
  <2> QED BY <2>10
<1> DEFINE L == KeptLoop(es)
<1>2. L = [k \in 0..n |-> IF k = 0 THEN <<>> ELSE L[k - 1] \o More(k)]
  BY <1>1 DEF KeptLoop, More
<1> HIDE DEF L
<1>3. 0 \in 0..n /\ \A k \in 1..n : k \in 0..n /\ k # 0
  OBVIOUS
<1> HIDE DEF n
<1>4. \A k \in 0..n : L[k] = IF k = 0 THEN <<>> ELSE L[k - 1] \o More(k)
  BY <1>2, Zenon
<1>5. L[0] = <<>> /\ \A k \in 1..n : L[k] = L[k - 1] \o More(k)
  BY <1>3, <1>4
<1> QED BY <1>5 DEF L, n, More

\* The pinned entries one after the other: p[i] comes from the entry at f[i].
ComesFrom(p, es, f, k) ==
    /\ p \in Seq(Persisted)
    /\ f \in [1..Len(p) -> 1..k]
    /\ \A i \in 1..Len(p) : p[i] = Kept(es[f[i]])
    /\ \A i, j \in 1..Len(p) : i < j => f[i] < f[j]

LEMMA KeptIs ==
    ASSUME NEW e \in EntryState
    PROVE  Kept(e) \in Persisted /\ Kept(e).id = e.id /\ Kept(e).host = e.host
BY DEF Kept, EntryState, Persisted

LEMMA SerializeIs ==
    ASSUME NEW es \in Seq(EntryState)
    PROVE  \E f : ComesFrom(Serialize(es), es, f, Len(es))
<1> DEFINE n == Len(es)
           L == KeptLoop(es)
           Holds(k) == \E f : ComesFrom(L[k], es, f, k)
<1>1. n \in Nat /\ \A i \in 1..n : es[i] \in EntryState
  OBVIOUS
<1>2. Serialize(es) = L[n]
  BY DEF Serialize, KeptLoop
<1>3. /\ L[0] = <<>>
      /\ \A k \in 1..n : L[k] = L[k - 1] \o (IF es[k].pinned THEN <<Kept(es[k])>> ELSE <<>>)
  BY <1>1, KeptLoopIs
<1> HIDE DEF L
<1>4. Holds(0)
  <2>1. ComesFrom(<<>>, es, <<>>, 0)
    BY DEF ComesFrom
  <2> QED BY <1>3, <2>1
<1>5. ASSUME NEW k \in 1..n, Holds(k - 1)
      PROVE  Holds(k)
  <2>1. PICK f : ComesFrom(L[k - 1], es, f, k - 1)
    BY <1>5
  <2> DEFINE p == L[k - 1]
             m == Len(p)
  <2>2. m \in Nat /\ p \in Seq(Persisted)
    BY <2>1 DEF ComesFrom
  <2>3. f \in [1..m -> 1..k]
    BY <1>1, <2>1 DEF ComesFrom
  <2>4. CASE ~es[k].pinned
    <3>1. L[k] = p
      BY <1>3, <2>2, <2>4, ConcatEmptySeq
    <3>2. ComesFrom(p, es, f, k)
      BY <2>1, <2>3 DEF ComesFrom
    <3> QED BY <3>1, <3>2
  <2>5. CASE es[k].pinned
    <3> DEFINE x == Kept(es[k])
               q == p \o <<x>>
               g == [i \in 1..(m + 1) |-> IF i = m + 1 THEN k ELSE f[i]]
    <3>1. L[k] = q
      BY <1>3, <2>5
    <3>2. x \in Persisted
      BY <1>1, KeptIs
    <3>3. <<x>> \in Seq(Persisted) /\ Len(<<x>>) = 1 /\ <<x>>[1] = x
      BY <3>2
    <3>4. /\ q \in Seq(Persisted) /\ Len(q) = m + 1
          /\ \A i \in 1..(m + 1) : q[i] = IF i <= m THEN p[i] ELSE x
      <4> HIDE DEF x, p
      <4>1. /\ q \in Seq(Persisted) /\ Len(q) = m + 1
            /\ \A i \in 1..(m + 1) : q[i] = IF i <= m THEN p[i] ELSE <<x>>[i - m]
        BY <2>2, <3>3, ConcatProperties
      <4>2. \A i \in 1..(m + 1) : i <= m \/ i - m = 1
        BY <2>2
      <4> QED BY <3>3, <4>1, <4>2
    <3> HIDE DEF q
    <3>5. g \in [1..(m + 1) -> 1..k]
      BY <1>1, <2>2, <2>3
    <3>6. \A i \in 1..(m + 1) : q[i] = Kept(es[g[i]])
      BY <2>1, <2>2, <3>4 DEF ComesFrom
    <3>7. \A i, j \in 1..(m + 1) : i < j => g[i] < g[j]
      <4> SUFFICES ASSUME NEW i \in 1..(m + 1), NEW j \in 1..(m + 1), i < j PROVE g[i] < g[j]
        OBVIOUS
      <4>1. i \in 1..m /\ g[i] = f[i] /\ f[i] \in 1..(k - 1)
        <5>1. i \in 1..m
          BY <2>2
        <5>2. f \in [1..m -> 1..(k - 1)]
          BY <2>1 DEF ComesFrom
        <5>3. g[i] = f[i]
          BY <2>2, <5>1
        <5>4. f[i] \in 1..(k - 1)
          BY <5>1, <5>2
        <5> QED BY <5>1, <5>3, <5>4
      <4>2. CASE j = m + 1
        BY <1>1, <4>1, <4>2
      <4>3. CASE j # m + 1
        BY <2>1, <2>2, <4>1, <4>3 DEF ComesFrom
      <4> QED BY <4>2, <4>3
    <3> HIDE DEF g
    <3>8. ComesFrom(q, es, g, k)
      BY <3>4, <3>5, <3>6, <3>7 DEF ComesFrom
    <3> QED BY <3>1, <3>8
  <2> QED BY <2>4, <2>5
<1>6. Holds(n)
  <2> DEFINE T == {k \in 0..n : ~Holds(k)}
  <2> HIDE DEF Holds
  <2> SUFFICES ASSUME T # {} PROVE FALSE
    BY <1>1
  <2>1. T \in SUBSET Nat
    BY <1>1
  <2>2. PICK m \in T : \A k \in T : m <= k
    <3> HIDE DEF T
    <3> QED BY <2>1, LeastOfNat
  <2>3. m # 0 /\ m \in 1..n /\ m - 1 \in 0..n
    BY <1>1, <1>4, <2>2
  <2>4. Holds(m - 1)
    BY <2>2, <2>3
  <2> QED BY <1>5, <2>3, <2>4
<1> QED BY <1>2, <1>6

\* Tidy entries are persisted tidily.
LEMMA SerializeKeeps ==
    ASSUME NEW es, Tidy(es)
    PROVE  /\ Serialize(es) \in Seq(Persisted)
           /\ UniqueIds(Serialize(es)) /\ Contiguous(Serialize(es))
<1> DEFINE p == Serialize(es)
           m == Len(p)
<1>1. es \in Seq(EntryState) /\ Len(es) \in Nat /\ DOMAIN es = 1..Len(es)
  BY DEF Tidy
<1>2. PICK f : ComesFrom(p, es, f, Len(es))
  BY <1>1, SerializeIs
<1>3. p \in Seq(Persisted) /\ m \in Nat /\ DOMAIN p = 1..m
  BY <1>2 DEF ComesFrom
<1> HIDE DEF p
<1>4. \A i \in 1..m : f[i] \in DOMAIN es /\ p[i].id = es[f[i]].id /\ p[i].host = es[f[i]].host
  <2> SUFFICES ASSUME NEW i \in 1..m
               PROVE  f[i] \in DOMAIN es /\ p[i].id = es[f[i]].id /\ p[i].host = es[f[i]].host
    OBVIOUS
  <2>1. f[i] \in 1..Len(es) /\ p[i] = Kept(es[f[i]])
    BY <1>2 DEF ComesFrom
  <2>2. es[f[i]] \in EntryState
    BY <1>1, <2>1
  <2>3. Kept(es[f[i]]).id = es[f[i]].id /\ Kept(es[f[i]]).host = es[f[i]].host
    BY <2>2, KeptIs
  <2> QED BY <1>1, <2>1, <2>3
<1>5. \A i, j \in 1..m : i < j => f[i] < f[j]
  BY <1>2 DEF ComesFrom
<1>6. UniqueIds(p)
  <2> SUFFICES ASSUME NEW i \in 1..m, NEW j \in 1..m, p[i].id = p[j].id, i < j PROVE FALSE
    BY <1>3 DEF UniqueIds
  <2>1. f[i] = f[j]
    <3>1. UniqueIds(es)
      BY DEF Tidy
    <3>2. f[i] \in DOMAIN es /\ f[j] \in DOMAIN es /\ es[f[i]].id = es[f[j]].id
      BY <1>4
    <3> DEFINE x == f[i]
               y == f[j]
    <3> HIDE DEF x, y
    <3>3. x = y
      BY <3>1, <3>2 DEF UniqueIds, x, y
    <3> QED BY <3>3 DEF x, y
  <2>2. f[i] < f[j] /\ f[i] \in Nat
    BY <1>1, <1>4, <1>5
  <2> QED BY <2>1, <2>2
<1>7. Contiguous(p)
  <2> SUFFICES ASSUME NEW i \in 1..m, NEW j \in 1..m, i < j
               PROVE  /\ p[j].host = Local => p[i].host = Local
                      /\ p[i].host = p[j].host => \A k \in i..j : p[k].host = p[i].host
    BY <1>3 DEF Contiguous
  <2>1. /\ es[f[j]].host = Local => es[f[i]].host = Local
        /\ es[f[i]].host = es[f[j]].host =>
              \A k \in f[i]..f[j] : es[k].host = es[f[i]].host
    BY <1>4, <1>5 DEF Tidy, Contiguous
  <2>2. \A k \in i..j : k \in 1..m /\ f[k] \in f[i]..f[j]
    <3> SUFFICES ASSUME NEW k \in i..j PROVE k \in 1..m /\ f[k] \in f[i]..f[j]
      OBVIOUS
    <3>1. k \in 1..m
      BY <1>3
    <3>2. f[k] \in Nat /\ f[i] \in Nat /\ f[j] \in Nat
      BY <1>1, <1>4, <3>1
    <3>3. f[i] <= f[k]
      BY <1>3, <1>5, <3>1, <3>2
    <3>4. f[k] <= f[j]
      BY <1>3, <1>5, <3>1, <3>2
    <3> QED BY <3>1, <3>2, <3>3, <3>4
  <2> QED BY <1>4, <2>1, <2>2
<1> QED BY <1>3, <1>6, <1>7 DEF p

LEMMA SerializePinned ==
    ASSUME NEW es \in Seq(EntryState), \A i \in 1..Len(es) : es[i].pinned
    PROVE  Serialize(es) = [i \in 1..Len(es) |-> Kept(es[i])]
<1> DEFINE n == Len(es)
           L == KeptLoop(es)
           Holds(k) == L[k] \in Seq(Persisted) /\ Len(L[k]) = k /\ \A i \in 1..k : L[k][i] = Kept(es[i])
<1>1. n \in Nat /\ \A i \in 1..n : es[i] \in EntryState
  OBVIOUS
<1>2. Serialize(es) = L[n]
  BY DEF Serialize, KeptLoop
<1>3. L[0] = <<>> /\ \A k \in 1..n : L[k] = L[k - 1] \o <<Kept(es[k])>>
  <2>1. \A k \in 1..n : es[k].pinned
    OBVIOUS
  <2> QED BY <1>1, <2>1, KeptLoopIs
<1> HIDE DEF L
<1>4. Holds(0)
  BY <1>3
<1>5. ASSUME NEW k \in 1..n, Holds(k - 1)
      PROVE  Holds(k)
  <2> DEFINE p == L[k - 1]
             x == Kept(es[k])
  <2>1. k - 1 \in Nat /\ p \in Seq(Persisted) /\ Len(p) = k - 1
    BY <1>1, <1>5
  <2>2. x \in Persisted
    BY <1>1, KeptIs
  <2>3. <<x>> \in Seq(Persisted) /\ Len(<<x>>) = 1 /\ <<x>>[1] = x
    BY <2>2
  <2>4. L[k] = p \o <<x>>
    BY <1>3
  <2> HIDE DEF x, p
  <2>5. /\ p \o <<x>> \in Seq(Persisted) /\ Len(p \o <<x>>) = k
        /\ \A i \in 1..k : (p \o <<x>>)[i] = IF i <= k - 1 THEN p[i] ELSE <<x>>[i - (k - 1)]
    BY <2>1, <2>3, ConcatProperties
  <2>6. \A i \in 1..k : i <= k - 1 \/ i = k
    BY <2>1
  <2>7. \A i \in 1..k : L[k][i] = Kept(es[i])
    <3> SUFFICES ASSUME NEW i \in 1..k PROVE L[k][i] = Kept(es[i])
      OBVIOUS
    <3>1. CASE i <= k - 1
      <4>1. i \in 1..(k - 1)
        BY <2>1, <3>1
      <4>2. p[i] = Kept(es[i])
        BY <1>5, <4>1 DEF p
      <4> QED BY <2>4, <2>5, <3>1, <4>2
    <3>2. CASE i = k
      <4>1. ~(i <= k - 1) /\ i - (k - 1) = 1
        BY <2>1, <3>2
      <4> QED BY <2>3, <2>4, <2>5, <3>2, <4>1 DEF x
    <3> QED BY <2>6, <3>1, <3>2
  <2> QED BY <2>4, <2>5, <2>7
<1>6. Holds(n)
  <2> DEFINE T == {k \in 0..n : ~Holds(k)}
  <2> HIDE DEF Holds
  <2> SUFFICES ASSUME T # {} PROVE FALSE
    BY <1>1
  <2>1. T \in SUBSET Nat
    BY <1>1
  <2>2. PICK m \in T : \A k \in T : m <= k
    <3> HIDE DEF T
    <3> QED BY <2>1, LeastOfNat
  <2>3. m # 0 /\ m \in 1..n /\ m - 1 \in 0..n
    BY <1>1, <1>4, <2>2
  <2>4. Holds(m - 1)
    BY <2>2, <2>3
  <2> QED BY <1>5, <2>3, <2>4
<1>7. L[n] = [i \in 1..n |-> Kept(es[i])]
  <2>1. L[n] \in [1..n -> Persisted]
    BY <1>6
  <2> QED BY <1>6, <2>1
<1> QED BY <1>2, <1>7

RestoredLoop(p) ==
    CHOOSE after : after = [k \in 0..Len(p) |->
        IF k = 0 THEN <<>> ELSE Insert(after[k - 1], RestoredEntry(p[k]))]

LEMMA RestoredLoopIs ==
    ASSUME NEW p, Len(p) \in Nat
    PROVE  /\ RestoredLoop(p)[0] = <<>>
           /\ \A k \in 1..Len(p) :
                 RestoredLoop(p)[k] = Insert(RestoredLoop(p)[k - 1], RestoredEntry(p[k]))
<1> DEFINE n == Len(p)
           Solves(f, m) == f = [k \in 0..m |-> IF k = 0 THEN <<>>
                                               ELSE Insert(f[k - 1], RestoredEntry(p[k]))]
           T == {m \in 0..n : ~ \E f : Solves(f, m)}
<1>0. n \in Nat
  OBVIOUS
<1>1. \E f : Solves(f, n)
  <2> SUFFICES ASSUME T # {} PROVE FALSE
    <3> HIDE DEF Solves
    <3> QED BY <1>0
  <2>1. T \in SUBSET Nat
    OBVIOUS
  <2>2. PICK m \in T : \A k \in T : m <= k
    <3> HIDE DEF T
    <3> QED BY <2>1, LeastOfNat
  <2>3. m # 0
    <3>1. Solves([k \in 0..0 |-> <<>>], 0)
      OBVIOUS
    <3> QED BY <3>1
  <2>4. m - 1 \in 0..n /\ m - 1 \notin T
    <3> HIDE DEF Solves
    <3> QED BY <1>0, <2>2, <2>3
  <2>5. PICK f : Solves(f, m - 1)
    <3> HIDE DEF Solves
    <3> QED BY <2>4
  <2> DEFINE g == [k \in 0..m |-> IF k = m THEN Insert(f[m - 1], RestoredEntry(p[m])) ELSE f[k]]
  <2>6. \A k \in 0..(m - 1) : g[k] = f[k] /\ (k # 0 => k - 1 \in 0..(m - 1))
    BY <2>4
  <2>7. m \in Nat /\ \A k \in 0..m : k = m \/ k \in 0..(m - 1)
    BY <2>4
  <2>8. g[m] = Insert(g[m - 1], RestoredEntry(p[m]))
    <3>1. m \in 0..m /\ m - 1 \in 0..(m - 1)
      BY <2>3, <2>4, <2>7
    <3>2. g[m] = Insert(f[m - 1], RestoredEntry(p[m]))
      BY <3>1
    <3> HIDE DEF g
    <3> QED BY <2>6, <3>1, <3>2
  <2>9. \A k \in 0..(m - 1) :
            g[k] = IF k = 0 THEN <<>> ELSE Insert(g[k - 1], RestoredEntry(p[k]))
    <3> HIDE DEF g
    <3>1. \A k \in 0..(m - 1) :
              f[k] = IF k = 0 THEN <<>> ELSE Insert(f[k - 1], RestoredEntry(p[k]))
      BY <2>5
    <3> QED BY <2>6, <3>1
  <2>10. Solves(g, m)
    BY <2>3, <2>7, <2>8, <2>9
  <2> QED BY <2>10
<1> DEFINE L == RestoredLoop(p)
<1>2. L = [k \in 0..n |-> IF k = 0 THEN <<>> ELSE Insert(L[k - 1], RestoredEntry(p[k]))]
  BY <1>1 DEF RestoredLoop
<1> HIDE DEF L
<1>3. 0 \in 0..n /\ \A k \in 1..n : k \in 0..n /\ k # 0
  OBVIOUS
<1> HIDE DEF n
<1>4. \A k \in 0..n : L[k] = IF k = 0 THEN <<>> ELSE Insert(L[k - 1], RestoredEntry(p[k]))
  BY <1>2, Zenon
<1>5. L[0] = <<>> /\ \A k \in 1..n : L[k] = Insert(L[k - 1], RestoredEntry(p[k]))
  BY <1>3, <1>4
<1> QED BY <1>5 DEF L, n

LEMMA RestoredEntryIs ==
    ASSUME NEW p \in Persisted
    PROVE  /\ RestoredEntry(p) \in EntryState
           /\ RestoredEntry(p).id = p.id /\ RestoredEntry(p).host = p.host
           /\ RestoredEntry(p).window = NoWindow /\ RestoredEntry(p).pinned
           /\ RestoredEntry(p).time = p.time
           /\ Kept(RestoredEntry(p)) = p
BY DEF RestoredEntry, EntryState, Persisted, Kept

\* What was persisted tidily comes back as it was: insert appends every time.
LEMMA RestoredIs ==
    ASSUME NEW p \in Seq(Persisted), UniqueIds(p), Contiguous(p)
    PROVE  /\ Tidy(Restored(p))
           /\ Restored(p) = [i \in 1..Len(p) |-> RestoredEntry(p[i])]
           /\ Serialize(Restored(p)) = p
<1> DEFINE n == Len(p)
           L == RestoredLoop(p)
           Upto(k) == [i \in 1..k |-> RestoredEntry(p[i])]
           Holds(k) == L[k] = Upto(k)
<1>1. n \in Nat /\ DOMAIN p = 1..n /\ \A i \in 1..n : p[i] \in Persisted
  OBVIOUS
<1>2. Restored(p) = L[n]
  BY DEF Restored, RestoredLoop
<1>3. L[0] = <<>> /\ \A k \in 1..n : L[k] = Insert(L[k - 1], RestoredEntry(p[k]))
  BY <1>1, RestoredLoopIs
<1> HIDE DEF L
<1>4. ASSUME NEW k \in 0..n
      PROVE  /\ Upto(k) \in Seq(EntryState) /\ Len(Upto(k)) = k /\ DOMAIN Upto(k) = 1..k
             /\ Tidy(Upto(k))
             /\ \A i \in 1..k : Upto(k)[i] = RestoredEntry(p[i])
  <2>1. k \in Nat /\ \A i \in 1..k : i \in 1..n
    BY <1>1
  <2>2. \A i \in 1..k : RestoredEntry(p[i]) \in EntryState
    BY <1>1, <2>1, RestoredEntryIs
  <2>3. Upto(k) \in Seq(EntryState) /\ Len(Upto(k)) = k /\ DOMAIN Upto(k) = 1..k
    BY <2>1, <2>2
  <2>4. \A i \in 1..k : Upto(k)[i].id = p[i].id /\ Upto(k)[i].host = p[i].host
    BY <1>1, <2>1, RestoredEntryIs
  <2>5. UniqueIds(Upto(k))
    <3> SUFFICES ASSUME NEW i \in 1..k, NEW j \in 1..k, Upto(k)[i].id = Upto(k)[j].id
                 PROVE  i = j
      BY <2>3 DEF UniqueIds
    <3>1. p[i].id = p[j].id /\ i \in DOMAIN p /\ j \in DOMAIN p
      BY <1>1, <2>1, <2>4
    <3> QED BY <3>1 DEF UniqueIds
  <2>6. Contiguous(Upto(k))
    <3> SUFFICES ASSUME NEW i \in 1..k, NEW j \in 1..k, i < j
                 PROVE  /\ p[j].host = Local => p[i].host = Local
                        /\ p[i].host = p[j].host => \A m \in i..j : p[m].host = p[i].host
      <4>1. \A i, j \in 1..k : \A m \in i..j : m \in 1..k
        BY <2>1
      <4> HIDE DEF Upto
      <4> QED BY <2>3, <2>4, <4>1 DEF Contiguous
    <3>1. i \in DOMAIN p /\ j \in DOMAIN p
      BY <1>1, <2>1
    <3> QED BY <3>1 DEF Contiguous
  <2>7. \A i \in 1..k : Upto(k)[i] = RestoredEntry(p[i])
    OBVIOUS
  <2> HIDE DEF Upto
  <2> QED BY <2>3, <2>5, <2>6, <2>7 DEF Tidy
<1>5. Holds(0)
  BY <1>3
<1>6. ASSUME NEW k \in 1..n, Holds(k - 1)
      PROVE  Holds(k)
  <2> DEFINE es == Upto(k - 1)
             x == RestoredEntry(p[k])
  <2>1. k - 1 \in 0..n /\ k \in Nat /\ k - 1 \in Nat
    BY <1>1
  <2>2. /\ es \in Seq(EntryState) /\ Len(es) = k - 1 /\ DOMAIN es = 1..(k - 1) /\ Tidy(es)
        /\ \A i \in 1..(k - 1) : es[i] = RestoredEntry(p[i])
    BY <1>4, <2>1
  <2>3. x \in EntryState /\ x.host = p[k].host
    BY <1>1, RestoredEntryIs
  <2>4. \A i \in 1..(k - 1) : i \in 1..n /\ es[i].host = p[i].host
    BY <1>1, <2>1, <2>2, RestoredEntryIs
  <2>5. L[k] = Insert(es, x)
    BY <1>3, <1>6
  <2> HIDE DEF es, x
  <2>6. PICK at \in 1..(Len(es) + 1) :
              /\ Insert(es, x) = InsertAt(es, at, x)
              /\ \A i \in DOMAIN es : i >= at => es[i].host # x.host
              /\ \/ at > 1 /\ es[at - 1].host = x.host
                 \/ /\ \A i \in DOMAIN es : es[i].host # x.host
                    /\ at = IF x.host = Local THEN 1 ELSE Len(es) + 1
    BY <2>2, <2>3, InsertGoes
  <2>7. at = k
    <3> SUFFICES ASSUME at < k PROVE FALSE
      BY <2>1, <2>2
    <3>1. at \in 1..(k - 1) /\ p[at].host # p[k].host
      BY <2>1, <2>2, <2>3, <2>4, <2>6
    <3>2. CASE at > 1 /\ es[at - 1].host = x.host
      <4>1. at - 1 \in 1..n /\ k \in 1..n /\ at - 1 < k /\ at \in (at - 1)..k
        BY <1>1, <2>1, <3>1, <3>2
      <4>2. p[at - 1].host = p[k].host
        BY <2>1, <2>3, <2>4, <3>1, <3>2
      <4>3. p[at].host = p[at - 1].host
        BY <1>1, <4>1, <4>2 DEF Contiguous
      <4> QED BY <3>1, <4>2, <4>3
    <3>3. CASE x.host = Local
      <4>1. at \in 1..n /\ k \in 1..n /\ at < k
        BY <1>1, <3>1
      <4>2. p[at].host = Local
        BY <1>1, <2>3, <3>3, <4>1 DEF Contiguous
      <4> QED BY <2>3, <3>1, <3>3, <4>2
    <3> QED BY <2>1, <2>2, <2>6, <3>1, <3>2, <3>3
  <2>8. /\ L[k] \in Seq(EntryState) /\ Len(L[k]) = k
        /\ \A i \in 1..k : L[k][i] = IF i < k THEN es[i] ELSE x
    <3>1. k \in 1..(Len(es) + 1) /\ Len(es) + 1 = k
      BY <2>1, <2>2
    <3>2. /\ InsertAt(es, k, x) \in Seq(EntryState) /\ Len(InsertAt(es, k, x)) = k
          /\ \A i \in 1..k : InsertAt(es, k, x)[i] =
                IF i < k THEN es[i] ELSE IF i = k THEN x ELSE es[i - 1]
      BY <2>2, <2>3, <3>1, InsertAtIs
    <3> QED BY <2>1, <2>5, <2>6, <2>7, <3>2
  <2>9. \A i \in 1..k : L[k][i] = RestoredEntry(p[i])
    <3>1. \A i \in 1..k : i < k => i \in 1..(k - 1)
      BY <2>1
    <3>2. \A i \in 1..k : ~(i < k) => i = k
      BY <2>1
    <3> QED BY <2>2, <2>8, <3>1, <3>2 DEF x
  <2>10. L[k] \in [1..k -> EntryState]
    BY <2>8
  <2> QED BY <2>9, <2>10
<1>7. Holds(n)
  <2> DEFINE T == {k \in 0..n : ~Holds(k)}
  <2> HIDE DEF Holds
  <2> SUFFICES ASSUME T # {} PROVE FALSE
    BY <1>1
  <2>1. T \in SUBSET Nat
    BY <1>1
  <2>2. PICK m \in T : \A k \in T : m <= k
    <3> HIDE DEF T
    <3> QED BY <2>1, LeastOfNat
  <2>3. m # 0 /\ m \in 1..n /\ m - 1 \in 0..n
    BY <1>1, <1>5, <2>2
  <2>4. Holds(m - 1)
    BY <2>2, <2>3
  <2> QED BY <1>6, <2>3, <2>4
<1>8. n \in 0..n
  BY <1>1
<1>9. /\ Upto(n) \in Seq(EntryState) /\ Len(Upto(n)) = n /\ Tidy(Upto(n))
      /\ \A i \in 1..n : Upto(n)[i] = RestoredEntry(p[i])
  BY <1>4, <1>8
<1>10. Serialize(Upto(n)) = p
  <2>1. \A i \in 1..n : Upto(n)[i].pinned /\ Kept(Upto(n)[i]) = p[i]
    BY <1>1, <1>9, RestoredEntryIs
  <2> HIDE DEF Upto
  <2>2. Serialize(Upto(n)) = [i \in 1..n |-> Kept(Upto(n)[i])]
    BY <1>9, <2>1, SerializePinned
  <2>3. p \in [1..n -> Persisted]
    BY <1>1
  <2> QED BY <2>1, <2>2, <2>3
<1> QED BY <1>2, <1>7, <1>9, <1>10

-----------------------------------------------------------------------------
(* reorder                                                                  *)

GroupOf(es, i) == {k \in DOMAIN es : es[k].host = es[i].host}

LEMMA GroupIs ==
    ASSUME NEW es, Tidy(es), NEW i \in DOMAIN es
    PROVE  /\ Min(GroupOf(es, i)) \in 1..i
           /\ Max(GroupOf(es, i)) \in i..Len(es)
           /\ \A k \in DOMAIN es : es[k].host = es[i].host
                 <=> k \in Min(GroupOf(es, i))..Max(GroupOf(es, i))
<1> DEFINE group == GroupOf(es, i)
           lo == Min(group)
           hi == Max(group)
<1>1. Len(es) \in Nat /\ DOMAIN es = 1..Len(es)
  BY DEF Tidy
<1>2. group \in SUBSET Nat /\ group \in SUBSET (0..Len(es)) /\ i \in group
  BY <1>1 DEF GroupOf
<1>3. lo \in group /\ \A k \in group : lo <= k
  BY <1>2, MinIs
<1>4. hi \in group /\ \A k \in group : k <= hi
  BY <1>1, <1>2, MaxIs
<1>5. /\ lo \in DOMAIN es /\ hi \in DOMAIN es
      /\ es[lo].host = es[i].host /\ es[hi].host = es[i].host
  BY <1>3, <1>4 DEF GroupOf
<1>6. \A k \in lo..hi : es[k].host = es[i].host
  <2>1. CASE lo < hi
    BY <1>5, <2>1 DEF Tidy, Contiguous
  <2>2. CASE ~(lo < hi)
    BY <1>1, <1>5, <2>2
  <2> QED BY <2>1, <2>2
<1>7. \A k \in DOMAIN es : es[k].host = es[i].host => k \in group
  BY DEF GroupOf
<1> HIDE DEF group
<1> DEFINE l == lo
           h == hi
<1>8. l \in Nat /\ h \in Nat /\ l <= i /\ i <= h /\ h <= Len(es) /\ l >= 1
  BY <1>1, <1>2, <1>3, <1>4, <1>5
<1>9. \A k \in DOMAIN es : es[k].host = es[i].host <=> k \in l..h
  <2> SUFFICES ASSUME NEW k \in DOMAIN es PROVE es[k].host = es[i].host <=> k \in l..h
    OBVIOUS
  <2>1. es[k].host = es[i].host => l <= k /\ k <= h
    BY <1>3, <1>4, <1>7
  <2> QED BY <1>1, <1>6, <1>8, <2>1
<1> HIDE DEF l, h
<1>10. l \in 1..i /\ h \in i..Len(es)
  BY <1>1, <1>8
<1> QED BY <1>9, <1>10 DEF l, h, group

\* Before the other entry, but not out of the group.
LEMMA TargetIs ==
    ASSUME NEW es, Tidy(es), NEW i \in DOMAIN es, NEW before,
           before = NoEntry \/ Known(es, before),
           NEW lo, lo = Min(GroupOf(es, i)), NEW hi, hi = Max(GroupOf(es, i)),
           NEW b, b = IndexOf(es, before)
    PROVE  TargetPosition(es, es[i].id, before) =
               IF before = NoEntry \/ b > hi THEN hi + 1 ELSE IF b < lo THEN lo ELSE b
<1>1. IndexOf(es, es[i].id) = i
  BY IndexOfIs DEF Tidy
<1>2. Len(es) \in Nat /\ DOMAIN es = 1..Len(es)
  BY DEF Tidy
<1>3. lo \in Nat /\ hi \in Nat /\ lo <= hi /\ hi <= Len(es) /\ lo >= 1
  BY <1>2, GroupIs
<1>4. TargetPosition(es, es[i].id, before) =
          IF before = NoEntry THEN hi + 1 ELSE Min({Max({b, lo}), hi + 1})
  BY <1>1 DEF TargetPosition, IndexWhere, GroupOf
<1>5. ASSUME before # NoEntry
      PROVE  Min({Max({b, lo}), hi + 1}) =
                 IF b > hi THEN hi + 1 ELSE IF b < lo THEN lo ELSE b
  <2>1. b \in 1..Len(es)
    BY <1>2, <1>5, KnownHasIndex
  <2>2. {b, lo} \in SUBSET (0..Len(es)) /\ {b, lo} # {}
    BY <1>2, <1>3, <2>1
  <2> DEFINE m == Max({b, lo})
  <2>3. m \in {b, lo} /\ \A k \in {b, lo} : k <= m
    BY <1>2, <2>2, MaxIs
  <2> HIDE DEF m
  <2>4. {m, hi + 1} \in SUBSET Nat /\ {m, hi + 1} # {}
    BY <1>3, <2>1, <2>3
  <2> DEFINE x == Min({m, hi + 1})
  <2>5. x \in {m, hi + 1} /\ \A k \in {m, hi + 1} : x <= k
    BY <2>4, MinIs
  <2> HIDE DEF x
  <2>6. x = IF b > hi THEN hi + 1 ELSE IF b < lo THEN lo ELSE b
    BY <1>3, <2>1, <2>3, <2>5
  <2> QED BY <2>6 DEF x, m
<1> QED BY <1>4, <1>5

\* What RemoveAt takes away again.
LEMMA RemoveInserted ==
    ASSUME NEW S, NEW s \in Seq(S), NEW x \in S, NEW at \in 1..(Len(s) + 1)
    PROVE  RemoveAt(InsertAt(s, at, x), at) = s
<1> DEFINE n == InsertAt(s, at, x)
           r == RemoveAt(n, at)
<1>1. Len(s) \in Nat
  OBVIOUS
<1>2. /\ n \in Seq(S) /\ Len(n) = Len(s) + 1
      /\ \A i \in 1..(Len(s) + 1) : n[i] = IF i < at THEN s[i]
                                          ELSE IF i = at THEN x ELSE s[i - 1]
  BY InsertAtIs
<1> HIDE DEF n
<1>3. at \in 1..Len(n)
  BY <1>2
<1>4. /\ r \in Seq(S) /\ Len(r) = Len(s)
      /\ \A i \in 1..Len(s) : r[i] = IF i < at THEN n[i] ELSE n[i + 1]
  <2>1. /\ r \in Seq(S) /\ Len(r) = Len(n) - 1
        /\ \A i \in 1..(Len(n) - 1) : r[i] = IF i < at THEN n[i] ELSE n[i + 1]
    BY <1>2, <1>3, RemoveAtIs
  <2> QED BY <1>1, <1>2, <2>1
<1> HIDE DEF r
<1>5. \A i \in 1..Len(s) : r[i] = s[i]
  <2> SUFFICES ASSUME NEW i \in 1..Len(s) PROVE r[i] = s[i]
    OBVIOUS
  <2>1. CASE i < at
    BY <1>1, <1>2, <1>4, <2>1
  <2>2. CASE ~(i < at)
    <3>1. i + 1 \in 1..(Len(s) + 1) /\ ~(i + 1 < at) /\ i + 1 # at /\ (i + 1) - 1 = i
      BY <1>1, <2>2
    <3> QED BY <1>2, <1>4, <2>2, <3>1
  <2> QED BY <2>1, <2>2
<1>6. r = s
  BY <1>4, <1>5, SeqEqual
<1> QED BY <1>6 DEF r, n

\* Where reorder leaves the entry, and the others.
LEMMA ReorderedIs ==
    ASSUME NEW es, Tidy(es), NEW i \in DOMAIN es, NEW before,
           before = NoEntry \/ Known(es, before),
           NEW t, t = TargetPosition(es, es[i].id, before)
    PROVE  LET r  == Reordered(es, es[i].id, before)
               at == IF t \in {i, i + 1} THEN i ELSE IF t > i THEN t - 1 ELSE t
           IN  /\ t \in Min(GroupOf(es, i))..(Max(GroupOf(es, i)) + 1)
               /\ Tidy(r) /\ Range(r) = Range(es)
               /\ at \in DOMAIN r /\ r[at] = es[i]
               /\ RemoveAt(r, at) = RemoveAt(es, i)
               /\ t \in DOMAIN es \ {i} => at + 1 \in DOMAIN r /\ r[at + 1] = es[t]
<1> DEFINE lo == Min(GroupOf(es, i))
           hi == Max(GroupOf(es, i))
           r  == Reordered(es, es[i].id, before)
           at == IF t \in {i, i + 1} THEN i ELSE IF t > i THEN t - 1 ELSE t
           s  == RemoveAt(es, i)
           x  == es[i]
<1>1. es \in Seq(EntryState) /\ Len(es) \in Nat /\ DOMAIN es = 1..Len(es) /\ i \in 1..Len(es)
  BY DEF Tidy
<1>2. /\ lo \in 1..i /\ hi \in i..Len(es)
      /\ \A k \in DOMAIN es : es[k].host = x.host <=> k \in lo..hi
  BY GroupIs
<1>3. t \in lo..(hi + 1)
  <2> DEFINE b == IndexOf(es, before)
  <2>1. t = IF before = NoEntry \/ b > hi THEN hi + 1 ELSE IF b < lo THEN lo ELSE b
    BY TargetIs
  <2>2. before # NoEntry => b \in 1..Len(es)
    BY <1>1, KnownHasIndex
  <2> HIDE DEF b, lo, hi
  <2>0. lo \in Nat /\ hi \in Nat /\ lo <= hi
    BY <1>1, <1>2
  <2>3. CASE before = NoEntry
    BY <2>0, <2>1, <2>3
  <2>4. CASE before # NoEntry
    <3>1. t = IF b > hi THEN hi + 1 ELSE IF b < lo THEN lo ELSE b
      BY <2>1, <2>4
    <3>2. b \in Nat
      BY <1>1, <2>2, <2>4
    <3> QED BY <2>0, <3>1, <3>2
  <2> QED BY <2>3, <2>4
<1>4. r = IF t \in {i, i + 1} THEN es ELSE InsertAt(s, at, x)
  <2>1. IndexOf(es, es[i].id) = i
    BY IndexOfIs DEF Tidy
  <2> QED BY <2>1 DEF Reordered
<1>5. /\ Tidy(s) /\ Range(s) = Range(es) \ {x} /\ Len(s) = Len(es) - 1
      /\ \A k \in 1..(Len(es) - 1) : s[k] = IF k < i THEN es[k] ELSE es[k + 1]
  BY <1>1, RemoveKeeps, RemoveAtIs
<1>6. x \in EntryState /\ x \in Range(es)
  BY <1>1 DEF Range
<1> SUFFICES /\ Tidy(r) /\ Range(r) = Range(es)
             /\ at \in DOMAIN r /\ r[at] = x
             /\ RemoveAt(r, at) = s
             /\ t \in DOMAIN es \ {i} => at + 1 \in DOMAIN r /\ r[at + 1] = es[t]
  BY <1>3
<1> HIDE DEF lo, hi, r, s, x
<1>7. CASE t \in {i, i + 1}
  <2>1. r = es /\ at = i
    BY <1>4, <1>7
  <2>2. t \in DOMAIN es \ {i} => t = at + 1
    BY <1>7, <2>1
  <2> QED BY <2>1, <2>2 DEF s, x
<1>8. CASE t \notin {i, i + 1}
  <2>1. /\ at \in 1..(Len(s) + 1)
        /\ \/ t > i + 1 /\ at = t - 1 /\ at > 1 /\ at - 1 >= i /\ at \in lo..hi
           \/ t < i /\ at = t /\ at <= Len(s) /\ at \in lo..hi
    <3>1. /\ lo \in Nat /\ hi \in Nat /\ i \in Nat /\ lo >= 1 /\ lo <= i /\ i <= hi /\ hi <= Len(es)
          /\ Len(s) = Len(es) - 1 /\ t >= lo /\ t <= hi + 1 /\ t \in Nat
      BY <1>1, <1>2, <1>3, <1>5
    <3> HIDE DEF lo, hi, s
    <3>2. CASE t > i + 1
      BY <1>1, <3>1, <3>2
    <3>3. CASE t < i
      BY <1>1, <3>1, <3>3
    <3> QED BY <1>8, <3>1, <3>2, <3>3
  <2>2. r = InsertAt(s, at, x)
    BY <1>4, <1>8
  <2> HIDE DEF at
  <2>3. \/ at > 1 /\ s[at - 1].host = x.host
        \/ at <= Len(s) /\ s[at].host = x.host
    <3>1. CASE t > i + 1 /\ at = t - 1 /\ at > 1 /\ at - 1 >= i /\ at \in lo..hi
      <4>1. at - 1 \in 1..(Len(es) - 1) /\ ~(at - 1 < i) /\ (at - 1) + 1 = at /\ at \in DOMAIN es
        <5>1. lo \in Nat /\ hi \in Nat /\ i \in Nat /\ lo >= 1 /\ hi <= Len(es) /\ i >= 1
          BY <1>1, <1>2
        <5> HIDE DEF lo, hi
        <5>2. at \in Nat /\ at >= 1 /\ at <= Len(es)
          BY <1>1, <3>1, <5>1
        <5> QED BY <1>1, <3>1, <5>1, <5>2
      <4>2. s[at - 1] = es[at]
        BY <1>5, <4>1
      <4> QED BY <1>2, <3>1, <4>1, <4>2
    <3>2. CASE t < i /\ at = t /\ at <= Len(s) /\ at \in lo..hi
      <4>1. at \in 1..(Len(es) - 1) /\ at < i /\ at \in DOMAIN es
        BY <1>1, <1>2, <1>5, <3>2
      <4>2. s[at] = es[at]
        BY <1>5, <4>1
      <4> QED BY <1>2, <3>2, <4>1, <4>2
    <3> QED BY <2>1, <3>1, <3>2
  <2>4. \A k \in DOMAIN s : s[k].id # x.id
    <3>1. \A k \in DOMAIN s : s[k] \in Range(es) \ {x}
      BY <1>5 DEF Range
    <3>2. \A e \in Range(es) : e.id = x.id => e = x
      BY DEF Range, Tidy, UniqueIds, x
    <3> QED BY <3>1, <3>2
  <2>5. Tidy(r) /\ Range(r) = Range(es)
    <3>1. Tidy(InsertAt(s, at, x)) /\ Range(InsertAt(s, at, x)) = Range(s) \cup {x}
      BY <1>5, <1>6, <2>1, <2>3, <2>4, InsertAtKeeps
    <3> QED BY <1>5, <1>6, <2>2, <3>1
  <2>6. s \in Seq(EntryState)
    BY <1>5 DEF Tidy
  <2>7. /\ r \in Seq(EntryState) /\ Len(r) = Len(s) + 1
        /\ \A k \in 1..(Len(s) + 1) : r[k] = IF k < at THEN s[k]
                                            ELSE IF k = at THEN x ELSE s[k - 1]
    <3>1. /\ InsertAt(s, at, x) \in Seq(EntryState) /\ Len(InsertAt(s, at, x)) = Len(s) + 1
          /\ \A k \in 1..(Len(s) + 1) :
                InsertAt(s, at, x)[k] = IF k < at THEN s[k] ELSE IF k = at THEN x ELSE s[k - 1]
      <4>1. s \in Seq(EntryState) /\ x \in EntryState /\ at \in 1..(Len(s) + 1)
        BY <1>6, <2>1, <2>6
      <4> HIDE DEF s, x
      <4> QED BY <4>1, InsertAtIs
    <3> HIDE DEF s, x, r
    <3> QED BY <2>2, <3>1
  <2>8. DOMAIN r = 1..(Len(s) + 1)
    BY <2>7
  <2>9. at \in DOMAIN r /\ r[at] = x
    BY <2>1, <2>7, <2>8
  <2>10. RemoveAt(r, at) = s
    BY <1>6, <2>1, <2>2, <2>6, RemoveInserted
  <2>11. ASSUME t \in DOMAIN es \ {i}
         PROVE  at + 1 \in DOMAIN r /\ r[at + 1] = es[t]
    <3>1. CASE t > i + 1 /\ at = t - 1 /\ at > 1 /\ at - 1 >= i /\ at \in lo..hi
      <4>1. /\ at + 1 \in 1..(Len(s) + 1) /\ ~(at + 1 < at) /\ at + 1 # at /\ (at + 1) - 1 = at
            /\ at \in 1..(Len(es) - 1) /\ ~(at < i) /\ at + 1 = t
        BY <1>1, <1>2, <1>5, <2>11, <3>1
      <4>2. r[at + 1] = s[at] /\ s[at] = es[at + 1]
        BY <1>5, <2>7, <4>1
      <4> QED BY <2>8, <4>1, <4>2
    <3>2. CASE t < i /\ at = t /\ at <= Len(s) /\ at \in lo..hi
      <4>1. /\ at + 1 \in 1..(Len(s) + 1) /\ ~(at + 1 < at) /\ at + 1 # at /\ (at + 1) - 1 = at
            /\ at \in 1..(Len(es) - 1) /\ at < i /\ at = t
        BY <1>1, <1>2, <1>5, <2>11, <3>2
      <4>2. r[at + 1] = s[at] /\ s[at] = es[at]
        BY <1>5, <2>7, <4>1
      <4> QED BY <2>8, <4>1, <4>2
    <3> QED BY <2>1, <3>1, <3>2
  <2> QED BY <2>5, <2>9, <2>10, <2>11
<1> QED BY <1>7, <1>8

-----------------------------------------------------------------------------
(* The invariant, and what the methods of the model do to it                *)

\* The binding of EntriesMatchWindows for any entries and windows.
Matches(es, ws) ==
    /\ \A e \in Range(es) :
          \/ /\ e.window \in DOMAIN ws /\ ws[e.window].shows = e.id
             /\ ws[e.window].host = e.host
          \/ /\ \A w \in DOMAIN ws : ws[w].shows # e.id
             /\ e.window = NoWindow /\ e.pinned
    /\ \A w \in DOMAIN ws : ws[w].shows # NoEntry => \E e \in Range(es) : e.id = ws[w].shows

\* A bar that persisted its tidy entries.
Sound(b) == b \in Bar /\ Tidy(b.entries) /\ b.persisted = Serialize(b.entries)

IInv == TypeOK /\ Sound(bar) /\ Matches(bar.entries, windows)

LEMMA OnDidChangeModelIs ==
    ASSUME NEW b \in Bar, Tidy(b.entries), NEW changed \in BOOLEAN,
           changed = FALSE => b.persisted = Serialize(b.entries)
    PROVE  LET r == OnDidChangeModel(b, changed) IN
           /\ Sound(r)
           /\ r.entries = b.entries /\ r.status = b.status
           /\ r.active = b.active /\ r.activeTime = b.activeTime
           /\ changed \/ b.reported => r.reported
           /\ changed = FALSE => r = b
<1>1. CASE changed
  <2> DEFINE r == [b EXCEPT !.persisted = Serialize(b.entries), !.reported = TRUE]
  <2>1. Serialize(b.entries) \in Seq(Persisted)
    BY SerializeKeeps
  <2>2. OnDidChangeModel(b, changed) = r
    BY <1>1 DEF OnDidChangeModel
  <2>3. /\ r \in Bar /\ r.entries = b.entries /\ r.persisted = Serialize(b.entries)
        /\ r.status = b.status /\ r.active = b.active /\ r.activeTime = b.activeTime
        /\ r.reported
    BY <2>1 DEF Bar
  <2> HIDE DEF r
  <2> QED BY <1>1, <2>2, <2>3 DEF Sound
<1>2. CASE ~changed
  <2>1. OnDidChangeModel(b, changed) = b
    BY <1>2 DEF OnDidChangeModel
  <2> QED BY <1>2, <2>1 DEF Sound
<1> QED BY <1>1, <1>2

\* reconcile makes of a known entry what its window makes of it, and adds the others.
Reconciled(b, ws, r) ==
    /\ Sound(r) /\ Matches(r.entries, ws)
    /\ Range(r.entries) = {Final(e, ws, b) : e \in {o \in Range(b.entries) : Stays(o, ws)}}
                          \cup {NewEntry(w, ws, b) : w \in NewWindows(b.entries, ws)}
    /\ r.status = b.status \cap DOMAIN ws
    /\ r.active = b.active /\ r.activeTime = b.activeTime
    /\ r.reported \/ r.entries = b.entries
    /\ b.reported => r.reported
    /\ InOrder(b.entries, r.entries)

LEMMA ReconcileIs ==
    ASSUME NEW b, Sound(b), NEW ws, WindowsOK(ws)
    PROVE  Reconciled(b, ws, Reconcile(b, ws))
<1> DEFINE es == b.entries
           known == ReconcileKnown(b, ws)
           new == NewWindows(es, ws)
           Finals == {Final(e, ws, b) : e \in {o \in Range(es) : Stays(o, ws)}}
           News == {NewEntry(w, ws, b) : w \in new}
           all == AddNew(known.entries, ws, b)
           changed == known.changed \/ new # {}
           b2 == [b EXCEPT !.entries = all, !.status = StatusLeft(b, ws)]
           r == Reconcile(b, ws)
<1>1. b \in Bar /\ Tidy(es) /\ b.activeTime \in 0..MaxTime /\ b.persisted = Serialize(es)
  BY DEF Sound, Bar
<1>2. \A e \in Range(es) : e \in EntryState
  BY <1>1 DEF Tidy, Range
<1>3. /\ Tidy(known.entries) /\ known.changed \in BOOLEAN /\ Range(known.entries) = Finals
      /\ known.changed = FALSE => known.entries = es
      /\ InOrder(es, known.entries)
  BY <1>1, ReconcileKnownIs
<1>4. \A e \in Range(known.entries) : Known(es, e.id)
  <2>1. \A e \in Range(es) : Final(e, ws, b).id = e.id
    BY <1>1, <1>2, FinalIs
  <2>2. \A e \in Range(es) : Known(es, e.id)
    BY DEF Known, Range
  <2> QED BY <1>3, <2>1, <2>2
<1>5. /\ Tidy(all) /\ Range(all) = Finals \cup News /\ (new = {} => all = known.entries)
      /\ InOrder(es, all)
  <2> DEFINE k == known.entries
  <2>1. Tidy(k) /\ Range(k) = Finals /\ InOrder(es, k) /\ \A e \in Range(k) : Known(es, e.id)
    BY <1>3, <1>4
  <2> HIDE DEF known, k, Finals
  <2>2. /\ Tidy(AddNew(k, ws, b))
        /\ Range(AddNew(k, ws, b)) = Range(k) \cup News
        /\ new = {} => AddNew(k, ws, b) = k
        /\ InOrder(es, AddNew(k, ws, b))
    BY <1>1, <2>1, AddNewIs
  <2> QED BY <2>1, <2>2 DEF k
<1>6. b2 \in Bar /\ b2.entries = all /\ b2.status = b.status \cap DOMAIN ws
      /\ b2.active = b.active /\ b2.activeTime = b.activeTime /\ b2.persisted = b.persisted
      /\ b2.reported = b.reported
  <2>1. all \in Seq(EntryState)
    BY <1>5 DEF Tidy
  <2> HIDE DEF all
  <2> QED BY <1>1, <2>1 DEF Bar, StatusLeft
<1>7. r = OnDidChangeModel(b2, changed)
  BY DEF Reconcile
<1>8. changed \in BOOLEAN /\ (changed = FALSE => all = es)
  BY <1>3, <1>5
<1> HIDE DEF b2, r, changed, all, known
<1>9. /\ Sound(r) /\ r.entries = all /\ r.status = b.status \cap DOMAIN ws
      /\ r.active = b.active /\ r.activeTime = b.activeTime
      /\ r.reported \/ r.entries = es
      /\ b.reported => r.reported
  <2>1. changed = FALSE => b2.persisted = Serialize(b2.entries)
    BY <1>1, <1>6, <1>8
  <2>2. /\ Sound(r) /\ r.entries = b2.entries /\ r.status = b2.status
        /\ r.active = b2.active /\ r.activeTime = b2.activeTime
        /\ changed \/ b2.reported => r.reported
    BY <1>5, <1>6, <1>7, <1>8, <2>1, OnDidChangeModelIs
  <2> QED BY <1>6, <1>8, <2>2
<1>10. Matches(all, ws)
  <2>1. ASSUME NEW e \in Range(es), Stays(e, ws)
        PROVE  LET f == Final(e, ws, b) IN
               \/ /\ f.window \in DOMAIN ws /\ ws[f.window].shows = f.id
                  /\ ws[f.window].host = f.host
               \/ /\ \A w \in DOMAIN ws : ws[w].shows # f.id
                  /\ f.window = NoWindow /\ f.pinned
    <3> DEFINE w == WindowFor(e, ws)
    <3>1. e \in EntryState
      BY <1>2
    <3>2. CASE w # NoWindow
      <4>1. w \in DOMAIN ws /\ ws[w].shows = e.id
        BY <3>2, WindowForIs
      <4>2. Final(e, ws, b) = Bound(e, w, ws, b)
        BY <3>2 DEF Final
      <4> QED BY <1>1, <3>1, <4>1, <4>2, BoundIs
    <3>3. CASE w = NoWindow
      <4>1. \A o \in DOMAIN ws : ws[o].shows # e.id
        BY <3>3, WindowForIs
      <4>2. Final(e, ws, b) = [e EXCEPT !.window = NoWindow] /\ e.pinned
        BY <2>1, <3>3 DEF Final, Stays
      <4>3. /\ [e EXCEPT !.window = NoWindow].id = e.id
            /\ [e EXCEPT !.window = NoWindow].window = NoWindow
            /\ [e EXCEPT !.window = NoWindow].pinned = e.pinned
        BY <3>1 DEF EntryState
      <4> QED BY <4>1, <4>2, <4>3
    <3> QED BY <3>2, <3>3
  <2>2. ASSUME NEW w \in new
        PROVE  LET f == NewEntry(w, ws, b) IN
               /\ f.window \in DOMAIN ws /\ ws[f.window].shows = f.id
               /\ ws[f.window].host = f.host
    <3>1. w \in DOMAIN ws /\ ws[w].shows # NoEntry
      BY DEF NewWindows
    <3> QED BY <1>1, <3>1, NewEntryIs
  <2>3. ASSUME NEW w \in DOMAIN ws, ws[w].shows # NoEntry
        PROVE  \E e \in Finals \cup News : e.id = ws[w].shows
    <3>1. CASE Known(es, ws[w].shows)
      <4>1. PICK e \in Range(es) : e.id = ws[w].shows
        BY <3>1 DEF Known, Range
      <4>2. Stays(e, ws)
        BY <4>1, WindowForIs DEF Stays
      <4>3. Final(e, ws, b) \in Finals /\ Final(e, ws, b).id = e.id
        BY <1>1, <1>2, <4>2, FinalIs
      <4> QED BY <4>1, <4>3
    <3>2. CASE ~Known(es, ws[w].shows)
      <4> DEFINE T == {o \in DOMAIN ws : ws[o].shows = ws[w].shows}
      <4>1. T \in SUBSET Nat /\ T # {}
        BY DEF WindowsOK, WindowId
      <4>2. PICK m \in T : \A k \in T : m <= k
        <5> HIDE DEF T
        <5> QED BY <4>1, LeastOfNat
      <4>3. m \in new
        BY <2>3, <3>2, <4>2 DEF NewWindows
      <4>4. NewEntry(m, ws, b) \in News
        BY <4>3
      <4>5. NewEntry(m, ws, b).id = ws[m].shows
        BY <1>1, <2>3, <4>2, NewEntryIs
      <4> QED BY <4>2, <4>4, <4>5
    <3> QED BY <3>1, <3>2
  <2> QED BY <1>5, <2>1, <2>2, <2>3 DEF Matches
<1> QED BY <1>5, <1>9, <1>10 DEF Reconciled, r

LEMMA EntryForIs ==
    ASSUME NEW es, Tidy(es), NEW w
    PROVE  /\ (w = NoWindow \/ \A i \in DOMAIN es : es[i].window # w) => EntryFor(es, w) = NoEntry
           /\ (w # NoWindow /\ \E i \in DOMAIN es : es[i].window = w) =>
                 /\ EntryFor(es, w) # NoEntry
                 /\ \E i \in DOMAIN es : /\ es[i].window = w /\ EntryFor(es, w) = es[i].id
                                         /\ IndexOf(es, EntryFor(es, w)) = i
<1>1. (w = NoWindow \/ \A i \in DOMAIN es : es[i].window # w) => EntryFor(es, w) = NoEntry
  BY DEF EntryFor
<1>2. ASSUME w # NoWindow, \E i \in DOMAIN es : es[i].window = w
      PROVE  /\ EntryFor(es, w) # NoEntry
             /\ \E i \in DOMAIN es : /\ es[i].window = w /\ EntryFor(es, w) = es[i].id
                                     /\ IndexOf(es, EntryFor(es, w)) = i
  <2> DEFINE i == CHOOSE i \in DOMAIN es : es[i].window = w
  <2>1. i \in DOMAIN es /\ es[i].window = w
    BY <1>2
  <2>2. EntryFor(es, w) = es[i].id
    BY <1>2 DEF EntryFor
  <2> HIDE DEF i
  <2>3. es[i] \in EntryState
    BY <2>1 DEF Tidy
  <2>4. es[i].id # NoEntry
    BY <2>3, ConstantsAssumption DEF EntryState
  <2>5. IndexOf(es, es[i].id) = i
    BY <2>1, IndexOfIs DEF Tidy
  <2> QED BY <2>1, <2>2, <2>4, <2>5
<1> QED BY <1>1, <1>2

\* Times and pins do not matter to what windows show, but for an entry without one.
LEMMA ReplaceMatches ==
    ASSUME NEW es, Tidy(es), NEW ws, WindowsOK(ws), Matches(es, ws),
           NEW i \in DOMAIN es, NEW x \in EntryState,
           x.id = es[i].id, x.host = es[i].host, x.window = es[i].window,
           x.pinned = es[i].pinned \/ x.pinned \/ x.window \in DOMAIN ws
    PROVE  Matches(ReplaceAt(es, i, x), ws)
<1>1. Range(ReplaceAt(es, i, x)) = (Range(es) \ {es[i]}) \cup {x}
  BY ReplaceKeeps
<1>2. es[i] \in Range(es)
  BY DEF Range
<1>3. ASSUME NEW w \in DOMAIN ws, ws[w].shows # NoEntry
      PROVE  \E e \in (Range(es) \ {es[i]}) \cup {x} : e.id = ws[w].shows
  BY <1>3 DEF Matches
<1>4. ASSUME NEW e \in (Range(es) \ {es[i]}) \cup {x}
      PROVE  \/ /\ e.window \in DOMAIN ws /\ ws[e.window].shows = e.id
                /\ ws[e.window].host = e.host
             \/ /\ \A w \in DOMAIN ws : ws[w].shows # e.id
                /\ e.window = NoWindow /\ e.pinned
  <2>1. CASE e # x
    BY <1>4, <2>1 DEF Matches
  <2>2. CASE e = x
    <3>1. \/ /\ es[i].window \in DOMAIN ws /\ ws[es[i].window].shows = es[i].id
             /\ ws[es[i].window].host = es[i].host
          \/ /\ \A w \in DOMAIN ws : ws[w].shows # es[i].id
             /\ es[i].window = NoWindow /\ es[i].pinned
      BY <1>2 DEF Matches
    <3>2. x.pinned \in BOOLEAN
      BY DEF EntryState
    <3>3. CASE /\ es[i].window \in DOMAIN ws /\ ws[es[i].window].shows = es[i].id
               /\ ws[es[i].window].host = es[i].host
      BY <2>2, <3>3
    <3>4. CASE /\ \A w \in DOMAIN ws : ws[w].shows # es[i].id
               /\ es[i].window = NoWindow /\ es[i].pinned
      <4>1. CASE x.pinned
        BY <2>2, <3>4, <4>1
      <4>2. CASE x.pinned = es[i].pinned
        BY <2>2, <3>4, <4>2
      <4>3. CASE x.window \in DOMAIN ws
        BY <3>4, <4>3, ConstantsAssumption DEF WindowsOK, WindowId
      <4> QED BY <3>2, <4>1, <4>2, <4>3
    <3> QED BY <3>1, <3>3, <3>4
  <2> QED BY <2>1, <2>2
<1> QED BY <1>1, <1>3, <1>4 DEF Matches

\* setActive raises the time of the entry of the window, and changes nothing else of
\* the entries.
Activated(b, w, t, r) ==
    /\ Sound(r) /\ r.active = w /\ r.activeTime = t /\ r.status = b.status
    /\ b.reported => r.reported
    /\ \/ /\ r.entries = b.entries
          /\ \A i \in DOMAIN b.entries : b.entries[i].window = w => b.entries[i].time >= t
          /\ r.reported \/ EntryFor(b.entries, w) = EntryFor(b.entries, b.active)
       \/ \E i \in DOMAIN b.entries :
             /\ b.entries[i].window = w /\ b.entries[i].time < t
             /\ r.entries = ReplaceAt(b.entries, i, [b.entries[i] EXCEPT !.time = t])
             /\ r.reported

LEMMA ActivateIs ==
    ASSUME NEW b, Sound(b), NEW ws, Matches(b.entries, ws), WindowsOK(ws),
           NEW w \in WindowId, NEW t \in 0..MaxTime
    PROVE  /\ Activated(b, w, t, Activate(b, w, t))
           /\ Matches(Activate(b, w, t).entries, ws)
<1> DEFINE es == b.entries
           entry == EntryFor(es, w)
           i == IndexOf(es, entry)
           raises == entry # NoEntry /\ es[i].time < t
           x == [es[i] EXCEPT !.time = t]
           es2 == IF raises THEN ReplaceAt(es, i, x) ELSE es
           b2 == [b EXCEPT !.active = w, !.activeTime = t, !.entries = es2]
           changed == raises \/ entry # EntryFor(es, b.active)
           r == Activate(b, w, t)
<1>1. b \in Bar /\ Tidy(es) /\ b.persisted = Serialize(es) /\ w # NoWindow
  BY ConstantsAssumption DEF Sound, WindowId
<1>2. r = OnDidChangeModel(b2, changed)
  BY DEF Activate
<1>3. changed \in BOOLEAN /\ raises \in BOOLEAN
  OBVIOUS
<1>4. entry = NoEntry => \A k \in DOMAIN es : es[k].window # w
  BY <1>1, EntryForIs
<1>5. entry # NoEntry => i \in DOMAIN es /\ es[i].window = w
  BY <1>1, EntryForIs
<1>6. \A k \in DOMAIN es : es[k].window = w => k = i
  <2> SUFFICES ASSUME NEW k \in DOMAIN es, es[k].window = w PROVE k = i
    OBVIOUS
  <2>1. entry # NoEntry /\ i \in DOMAIN es /\ es[i].window = w
    BY <1>4, <1>5
  <2> HIDE DEF i, es
  <2>2. es[k] \in Range(es) /\ es[i] \in Range(es)
    BY <2>1 DEF Range
  <2>3. ws[w].shows = es[k].id /\ ws[w].shows = es[i].id
    BY <1>1, <2>1, <2>2 DEF Matches, es
  <2> QED BY <1>1, <2>1, <2>3 DEF Tidy, UniqueIds
<1>7. raises => x \in EntryState /\ x.id = es[i].id /\ x.host = es[i].host
                /\ x.window = es[i].window /\ x.pinned = es[i].pinned
  <2> SUFFICES ASSUME raises PROVE x \in EntryState /\ x.id = es[i].id /\ x.host = es[i].host
                                   /\ x.window = es[i].window /\ x.pinned = es[i].pinned
    OBVIOUS
  <2>1. es[i] \in EntryState
    BY <1>1, <1>5 DEF Tidy
  <2> HIDE DEF i, es
  <2> QED BY <2>1 DEF EntryState
<1>8. Tidy(es2) /\ Matches(es2, ws)
  <2>1. CASE raises
    <3> HIDE DEF i, es, x, raises
    <3>1. i \in DOMAIN es
      BY <1>5, <2>1 DEF raises
    <3> QED BY <1>1, <1>7, <2>1, <3>1, ReplaceKeeps, ReplaceMatches DEF es
  <2>2. CASE ~raises
    BY <1>1, <2>2
  <2> QED BY <2>1, <2>2
<1>9. b2 \in Bar /\ b2.entries = es2 /\ b2.status = b.status /\ b2.persisted = b.persisted
      /\ b2.active = w /\ b2.activeTime = t /\ b2.reported = b.reported
  <2>1. es2 \in Seq(EntryState)
    BY <1>8 DEF Tidy
  <2> HIDE DEF es2
  <2> QED BY <1>1, <2>1 DEF Bar
<1>10. ~raises => es2 = es
  OBVIOUS
<1>11. raises => es2 = ReplaceAt(es, i, x)
  OBVIOUS
<1> HIDE DEF b2, es2
<1>12. /\ Sound(r) /\ r.entries = es2 /\ r.status = b.status /\ r.active = w /\ r.activeTime = t
       /\ changed \/ b.reported => r.reported
  <2>1. changed = FALSE => b2.persisted = Serialize(b2.entries)
    BY <1>1, <1>3, <1>9, <1>10
  <2>2. Tidy(b2.entries)
    BY <1>8, <1>9
  <2> HIDE DEF changed, r, es, raises
  <2>3. /\ Sound(r) /\ r.entries = b2.entries /\ r.status = b2.status
        /\ r.active = b2.active /\ r.activeTime = b2.activeTime
        /\ changed \/ b2.reported => r.reported
    BY <1>2, <1>3, <1>9, <2>1, <2>2, OnDidChangeModelIs
  <2> QED BY <1>9, <2>3
<1> HIDE DEF r
<1>13. Activated(b, w, t, r)
  <2>1. CASE raises
    <3>1. i \in DOMAIN es /\ es[i].window = w /\ es[i].time < t
      BY <1>5, <2>1
    <3>2. r.entries = ReplaceAt(es, i, [es[i] EXCEPT !.time = t]) /\ r.reported
      BY <1>11, <1>12, <2>1
    <3> HIDE DEF i
    <3> QED BY <1>12, <3>1, <3>2 DEF Activated
  <2>2. CASE ~raises
    <3>1. r.entries = es
      BY <1>10, <1>12, <2>2
    <3>2. \A k \in DOMAIN es : es[k].window = w => es[k].time >= t
      <4> SUFFICES ASSUME NEW k \in DOMAIN es, es[k].window = w PROVE es[k].time >= t
        OBVIOUS
      <4>1. k = i /\ entry # NoEntry
        BY <1>4, <1>6
      <4>2. ~(es[k].time < t)
        BY <2>2, <4>1
      <4>3. es[k] \in EntryState
        BY <1>1 DEF Tidy
      <4>4. es[k].time \in Nat /\ t \in Nat
        BY <4>3 DEF EntryState
      <4> QED BY <4>2, <4>4
    <3>3. r.reported \/ EntryFor(es, w) = EntryFor(es, b.active)
      BY <1>12
    <3> QED BY <1>12, <3>1, <3>2, <3>3 DEF Activated
  <2> QED BY <2>1, <2>2
<1> QED BY <1>8, <1>12, <1>13 DEF r

\* What windows see of the bar.
View(b) ==
    [i \in DOMAIN b.entries |->
        <<b.entries[i], b.entries[i].id = EntryFor(b.entries, b.active),
          b.entries[i].window \in b.status>>]

LEMMA SetStatusIs ==
    ASSUME NEW b, Sound(b), NEW w \in WindowId
    PROVE  LET r == SetStatus(b, w) IN
           /\ Sound(r) /\ r.entries = b.entries /\ r.status = b.status \cup {w}
           /\ r.active = b.active /\ r.activeTime = b.activeTime
           /\ r.reported \/ View(r) = View(b)
<1> DEFINE b2 == [b EXCEPT !.status = @ \cup {w}]
           changed == w \notin b.status /\ EntryFor(b.entries, w) # NoEntry
           r == SetStatus(b, w)
<1>1. b \in Bar /\ Tidy(b.entries) /\ b.persisted = Serialize(b.entries) /\ w # NoWindow
  BY ConstantsAssumption DEF Sound, WindowId
<1>2. /\ b2 \in Bar /\ b2.entries = b.entries /\ b2.status = b.status \cup {w}
      /\ b2.active = b.active /\ b2.activeTime = b.activeTime /\ b2.persisted = b.persisted
  BY <1>1 DEF Bar
<1>3. r = OnDidChangeModel(b2, changed)
  BY DEF SetStatus
<1>4. changed \in BOOLEAN
  OBVIOUS
<1> HIDE DEF b2
<1>5. /\ Sound(r) /\ r.entries = b2.entries /\ r.status = b2.status
      /\ r.active = b2.active /\ r.activeTime = b2.activeTime
      /\ changed => r.reported
  <2>1. Tidy(b2.entries) /\ b2.persisted = Serialize(b2.entries)
    BY <1>1, <1>2
  <2> HIDE DEF changed, r
  <2> QED BY <1>2, <1>3, <1>4, <2>1, OnDidChangeModelIs
<1> HIDE DEF r
<1>6. ASSUME ~changed
      PROVE  View(r) = View(b)
  <2>1. \A i \in DOMAIN b.entries :
            b.entries[i].window \in b.status <=> b.entries[i].window \in b.status \cup {w}
    BY <1>1, <1>6, EntryForIs
  <2> QED BY <1>2, <1>5, <2>1 DEF View
<1> QED BY <1>2, <1>5, <1>6 DEF r

LEMMA ClearStatusIs ==
    ASSUME NEW b, Sound(b), NEW w \in WindowId
    PROVE  LET r == ClearStatus(b, w) IN
           /\ Sound(r) /\ r.entries = b.entries /\ r.status = b.status \ {w}
           /\ r.active = b.active /\ r.activeTime = b.activeTime
           /\ r.reported \/ View(r) = View(b)
<1> DEFINE b2 == [b EXCEPT !.status = @ \ {w}]
           changed == w \in b.status /\ EntryFor(b.entries, w) # NoEntry
           r == ClearStatus(b, w)
<1>1. b \in Bar /\ Tidy(b.entries) /\ b.persisted = Serialize(b.entries) /\ w # NoWindow
  BY ConstantsAssumption DEF Sound, WindowId
<1>2. /\ b2 \in Bar /\ b2.entries = b.entries /\ b2.status = b.status \ {w}
      /\ b2.active = b.active /\ b2.activeTime = b.activeTime /\ b2.persisted = b.persisted
  BY <1>1 DEF Bar
<1>3. r = OnDidChangeModel(b2, changed)
  BY DEF ClearStatus
<1>4. changed \in BOOLEAN
  OBVIOUS
<1> HIDE DEF b2
<1>5. /\ Sound(r) /\ r.entries = b2.entries /\ r.status = b2.status
      /\ r.active = b2.active /\ r.activeTime = b2.activeTime
      /\ changed => r.reported
  <2>1. Tidy(b2.entries) /\ b2.persisted = Serialize(b2.entries)
    BY <1>1, <1>2
  <2> HIDE DEF changed, r
  <2> QED BY <1>2, <1>3, <1>4, <2>1, OnDidChangeModelIs
<1> HIDE DEF r
<1>6. ASSUME ~changed
      PROVE  View(r) = View(b)
  <2>1. \A i \in DOMAIN b.entries :
            b.entries[i].window \in b.status <=> b.entries[i].window \in b.status \ {w}
    BY <1>1, <1>6, EntryForIs
  <2> QED BY <1>2, <1>5, <2>1 DEF View
<1> QED BY <1>2, <1>5, <1>6 DEF r

\* pin, unpin and reorder change neither what is active nor a status.
IsEdited(b, ws, r) ==
    /\ Sound(r) /\ Matches(r.entries, ws)
    /\ r.active = b.active /\ r.activeTime = b.activeTime /\ r.status = b.status
    /\ \A f \in Range(r.entries) : \E e \in Range(b.entries) :
          f.id = e.id /\ f.window = e.window /\ f.host = e.host /\ f.time = e.time
    /\ r.reported \/ r.entries = b.entries

LEMMA PinEntryIs ==
    ASSUME NEW b, Sound(b), NEW ws, WindowsOK(ws), Matches(b.entries, ws),
           NEW id, Known(b.entries, id)
    PROVE  IsEdited(b, ws, PinEntry(b, id))
<1> DEFINE es == b.entries
           i == IndexOf(es, id)
           x == [es[i] EXCEPT !.pinned = TRUE]
           es2 == ReplaceAt(es, i, x)
           b2 == [b EXCEPT !.entries = es2]
           changed == ~es[i].pinned
           r == PinEntry(b, id)
<1>1. b \in Bar /\ Tidy(es) /\ b.persisted = Serialize(es)
  BY DEF Sound
<1>2. i \in DOMAIN es
  BY KnownHasIndex
<1>3. es[i] \in EntryState /\ es[i] \in Range(es)
  BY <1>1, <1>2 DEF Tidy, Range
<1>4. r = OnDidChangeModel(b2, changed)
  BY DEF PinEntry, ReplaceAt
<1> HIDE DEF i, es
<1>5. /\ x \in EntryState /\ x.id = es[i].id /\ x.host = es[i].host /\ x.time = es[i].time
      /\ x.window = es[i].window /\ x.pinned /\ (es[i].pinned => x = es[i])
  BY <1>3 DEF EntryState
<1> HIDE DEF x
<1>6. Tidy(es2) /\ Range(es2) = (Range(es) \ {es[i]}) \cup {x}
  BY <1>1, <1>2, <1>5, ReplaceKeeps
<1>7. Matches(es2, ws)
  BY <1>1, <1>2, <1>5, ReplaceMatches DEF es
<1>8. changed \in BOOLEAN /\ (changed = FALSE => es2 = es)
  <2>1. es[i].pinned => es2 = es
    BY <1>1, <1>2, <1>5 DEF ReplaceAt, Tidy
  <2> QED BY <2>1
<1> HIDE DEF es2
<1>9. /\ b2 \in Bar /\ b2.entries = es2 /\ b2.status = b.status /\ b2.persisted = b.persisted
      /\ b2.active = b.active /\ b2.activeTime = b.activeTime
  <2>1. es2 \in Seq(EntryState)
    BY <1>6 DEF Tidy
  <2> QED BY <1>1, <2>1 DEF Bar
<1> HIDE DEF b2, changed
<1>10. /\ Sound(r) /\ r.entries = es2 /\ r.status = b.status
       /\ r.active = b.active /\ r.activeTime = b.activeTime
       /\ changed => r.reported
  <2>1. Tidy(b2.entries) /\ (changed = FALSE => b2.persisted = Serialize(b2.entries))
    BY <1>1, <1>6, <1>8, <1>9
  <2> HIDE DEF r
  <2>2. /\ Sound(r) /\ r.entries = b2.entries /\ r.status = b2.status
        /\ r.active = b2.active /\ r.activeTime = b2.activeTime
        /\ changed => r.reported
    BY <1>4, <1>8, <1>9, <2>1, OnDidChangeModelIs
  <2> QED BY <1>9, <2>2
<1> HIDE DEF r
<1>11. r.reported \/ r.entries = es
  BY <1>8, <1>10
<1>12. \A f \in Range(es2) : \E e \in Range(es) :
          f.id = e.id /\ f.window = e.window /\ f.host = e.host /\ f.time = e.time
  BY <1>3, <1>5, <1>6
<1> QED BY <1>7, <1>10, <1>11, <1>12 DEF IsEdited, es, r

LEMMA UnpinEntryIs ==
    ASSUME NEW b, Sound(b), NEW ws, WindowsOK(ws), Matches(b.entries, ws),
           NEW id, Known(b.entries, id)
    PROVE  IsEdited(b, ws, UnpinEntry(b, id))
<1> DEFINE es == b.entries
           i == IndexOf(es, id)
           x == [es[i] EXCEPT !.pinned = FALSE]
           r == UnpinEntry(b, id)
<1>1. b \in Bar /\ Tidy(es) /\ b.persisted = Serialize(es)
  BY DEF Sound
<1>2. i \in DOMAIN es
  BY KnownHasIndex
<1>3. es[i] \in EntryState /\ es[i] \in Range(es)
  BY <1>1, <1>2 DEF Tidy, Range
<1>4. CASE ~es[i].pinned
  <2>1. r = b
    BY <1>4 DEF UnpinEntry
  <2> QED BY <2>1 DEF IsEdited
<1>5. CASE es[i].pinned
  <2> DEFINE es2 == IF es[i].window = NoWindow THEN RemoveAt(es, i) ELSE ReplaceAt(es, i, x)
             b2 == [b EXCEPT !.entries = es2]
  <2>1. r = OnDidChangeModel(b2, TRUE)
    BY <1>5 DEF UnpinEntry
  <2>2. /\ Tidy(es2) /\ Matches(es2, ws)
        /\ \A f \in Range(es2) : \E e \in Range(es) :
              f.id = e.id /\ f.window = e.window /\ f.host = e.host /\ f.time = e.time
    <3>1. CASE es[i].window = NoWindow
      <4>1. es2 = RemoveAt(es, i)
        BY <3>1
      <4> HIDE DEF i, es2
      <4>2. Tidy(es2) /\ Range(es2) = Range(es) \ {es[i]}
        BY <1>1, <1>2, <4>1, RemoveKeeps
      <4>3. \A w \in DOMAIN ws : ws[w].shows # es[i].id
        BY <1>3, <3>1, ConstantsAssumption DEF Matches, WindowsOK, WindowId
      <4>4. Matches(es2, ws)
        BY <4>2, <4>3 DEF Matches
      <4> QED BY <4>2, <4>4
    <3>2. CASE es[i].window # NoWindow
      <4>1. es2 = ReplaceAt(es, i, x)
        BY <3>2
      <4> HIDE DEF i, es2, es
      <4>2. /\ x \in EntryState /\ x.id = es[i].id /\ x.host = es[i].host /\ x.time = es[i].time
            /\ x.window = es[i].window
        BY <1>3 DEF EntryState
      <4> HIDE DEF x
      <4>3. x.window \in DOMAIN ws
        BY <1>3, <3>2, <4>2 DEF Matches, es
      <4>4. Tidy(es2) /\ Range(es2) = (Range(es) \ {es[i]}) \cup {x}
        BY <1>1, <1>2, <4>1, <4>2, ReplaceKeeps
      <4>5. Matches(es2, ws)
        BY <1>1, <1>2, <4>1, <4>2, <4>3, ReplaceMatches DEF es
      <4> QED BY <1>3, <4>2, <4>4, <4>5
    <3> QED BY <3>1, <3>2
  <2> HIDE DEF es2
  <2>3. /\ b2 \in Bar /\ b2.entries = es2 /\ b2.status = b.status /\ b2.persisted = b.persisted
        /\ b2.active = b.active /\ b2.activeTime = b.activeTime
    <3>1. es2 \in Seq(EntryState)
      BY <2>2 DEF Tidy
    <3> QED BY <1>1, <3>1 DEF Bar
  <2> HIDE DEF b2, r
  <2>4. /\ Sound(r) /\ r.entries = es2 /\ r.status = b.status
        /\ r.active = b.active /\ r.activeTime = b.activeTime
        /\ r.reported
    BY <2>1, <2>2, <2>3, OnDidChangeModelIs
  <2> QED BY <2>2, <2>4 DEF IsEdited, r
<1> QED BY <1>4, <1>5

LEMMA ReorderIs ==
    ASSUME NEW b, Sound(b), NEW ws, Matches(b.entries, ws),
           NEW id, Known(b.entries, id),
           NEW before, before = NoEntry \/ Known(b.entries, before),
           NEW es2, es2 = Reordered(b.entries, id, before)
    PROVE  IsEdited(b, ws, OnDidChangeModel([b EXCEPT !.entries = es2], es2 # b.entries))
<1> DEFINE es == b.entries
           i == IndexOf(es, id)
           b2 == [b EXCEPT !.entries = es2]
           changed == es2 # es
           r == OnDidChangeModel(b2, changed)
<1>1. b \in Bar /\ Tidy(es) /\ b.persisted = Serialize(es)
  BY DEF Sound
<1>2. i \in DOMAIN es /\ es[i].id = id
  BY KnownHasIndex
<1>3. Tidy(es2) /\ Range(es2) = Range(es)
  <2> DEFINE t == TargetPosition(es, es[i].id, before)
  <2>1. es2 = Reordered(es, es[i].id, before)
    BY <1>2
  <2> HIDE DEF i, es
  <2> QED BY <1>1, <1>2, <2>1, ReorderedIs DEF es
<1>4. Matches(es2, ws)
  BY <1>3 DEF Matches
<1>5. /\ b2 \in Bar /\ b2.entries = es2 /\ b2.status = b.status /\ b2.persisted = b.persisted
      /\ b2.active = b.active /\ b2.activeTime = b.activeTime
  <2>1. es2 \in Seq(EntryState)
    BY <1>3 DEF Tidy
  <2> QED BY <1>1, <2>1 DEF Bar
<1>6. changed \in BOOLEAN /\ (changed = FALSE => es2 = es)
  OBVIOUS
<1> HIDE DEF b2, changed
<1>7. /\ Sound(r) /\ r.entries = es2 /\ r.status = b.status
      /\ r.active = b.active /\ r.activeTime = b.activeTime
      /\ changed => r.reported
  BY <1>1, <1>3, <1>5, <1>6, OnDidChangeModelIs
<1> HIDE DEF r
<1> QED BY <1>3, <1>4, <1>6, <1>7 DEF IsEdited, r, b2, changed

-----------------------------------------------------------------------------
(* pickNextActive                                                           *)

BestLoop(es, closed) ==
    CHOOSE best : best = [i \in 0..Len(es) |->
        IF i = 0 THEN 0 ELSE Better(es, i, best[i - 1], closed)]

LEMMA BestLoopIs ==
    ASSUME NEW es, Len(es) \in Nat, NEW closed
    PROVE  /\ BestLoop(es, closed)[0] = 0
           /\ \A k \in 1..Len(es) :
                 BestLoop(es, closed)[k] = Better(es, k, BestLoop(es, closed)[k - 1], closed)
<1> DEFINE n == Len(es)
           Solves(f, m) == f = [k \in 0..m |-> IF k = 0 THEN 0
                                               ELSE Better(es, k, f[k - 1], closed)]
           T == {m \in 0..n : ~ \E f : Solves(f, m)}
<1>0. n \in Nat
  OBVIOUS
<1>1. \E f : Solves(f, n)
  <2> SUFFICES ASSUME T # {} PROVE FALSE
    <3> HIDE DEF Solves
    <3> QED BY <1>0
  <2>1. T \in SUBSET Nat
    OBVIOUS
  <2>2. PICK m \in T : \A k \in T : m <= k
    <3> HIDE DEF T
    <3> QED BY <2>1, LeastOfNat
  <2>3. m # 0
    <3>1. Solves([k \in 0..0 |-> 0], 0)
      OBVIOUS
    <3> QED BY <3>1
  <2>4. m - 1 \in 0..n /\ m - 1 \notin T
    <3> HIDE DEF Solves
    <3> QED BY <1>0, <2>2, <2>3
  <2>5. PICK f : Solves(f, m - 1)
    <3> HIDE DEF Solves
    <3> QED BY <2>4
  <2> DEFINE g == [k \in 0..m |-> IF k = m THEN Better(es, m, f[m - 1], closed) ELSE f[k]]
  <2>6. \A k \in 0..(m - 1) : g[k] = f[k] /\ (k # 0 => k - 1 \in 0..(m - 1))
    BY <2>4
  <2>7. m \in Nat /\ \A k \in 0..m : k = m \/ k \in 0..(m - 1)
    BY <2>4
  <2>8. g[m] = Better(es, m, g[m - 1], closed)
    <3>1. m \in 0..m /\ m - 1 \in 0..(m - 1)
      BY <2>3, <2>4, <2>7
    <3>2. g[m] = Better(es, m, f[m - 1], closed)
      BY <3>1
    <3> HIDE DEF g
    <3> QED BY <2>6, <3>1, <3>2
  <2>9. \A k \in 0..(m - 1) : g[k] = IF k = 0 THEN 0 ELSE Better(es, k, g[k - 1], closed)
    <3> HIDE DEF g
    <3>1. \A k \in 0..(m - 1) : f[k] = IF k = 0 THEN 0 ELSE Better(es, k, f[k - 1], closed)
      BY <2>5
    <3> QED BY <2>6, <3>1
  <2>10. Solves(g, m)
    BY <2>3, <2>7, <2>8, <2>9
  <2> QED BY <2>10
<1> DEFINE L == BestLoop(es, closed)
<1>2. L = [k \in 0..n |-> IF k = 0 THEN 0 ELSE Better(es, k, L[k - 1], closed)]
  BY <1>1 DEF BestLoop
<1> HIDE DEF L
<1>3. 0 \in 0..n /\ \A k \in 1..n : k \in 0..n /\ k # 0
  OBVIOUS
<1> HIDE DEF n
<1>4. \A k \in 0..n : L[k] = IF k = 0 THEN 0 ELSE Better(es, k, L[k - 1], closed)
  BY <1>2, Zenon
<1>5. L[0] = 0 /\ \A k \in 1..n : L[k] = Better(es, k, L[k - 1], closed)
  BY <1>3, <1>4
<1> QED BY <1>5 DEF L, n

\* How far an entry is from the closed one; all are as far from none.
AwayFrom(i, closed) == IF closed > 0 THEN Distance(i, closed) ELSE 0

\* The first of the entries with a window that no other one beats.
Best(es, closed, k, best) ==
    LET others == {i \in 1..k : es[i].window # NoWindow /\ i # closed}
    IN  IF others = {} THEN best = 0
        ELSE /\ best \in others
             /\ \A i \in others \ {best} :
                   \/ es[i].time < es[best].time
                   \/ /\ es[i].time = es[best].time
                      /\ AwayFrom(i, closed) > AwayFrom(best, closed)
                   \/ /\ es[i].time = es[best].time
                      /\ AwayFrom(i, closed) = AwayFrom(best, closed) /\ i > best

LEMMA BestIs ==
    ASSUME NEW es \in Seq(EntryState), NEW closed \in 0..Len(es)
    PROVE  Best(es, closed, Len(es), BestLoop(es, closed)[Len(es)])
<1> DEFINE n == Len(es)
           L == BestLoop(es, closed)
           Holds(k) == Best(es, closed, k, L[k])
<1>1. n \in Nat /\ closed \in Nat /\ \A i \in 1..n : es[i].time \in Nat
  <2>1. n \in Nat /\ closed \in Nat
    OBVIOUS
  <2>2. ASSUME NEW i \in 1..n
        PROVE  es[i].time \in Nat
    <3>1. es[i] \in EntryState
      OBVIOUS
    <3>2. es[i].time \in 0..MaxTime
      BY <3>1 DEF EntryState
    <3> QED BY <3>2, ConstantsAssumption
  <2> QED BY <2>1, <2>2
<1>2. L[0] = 0 /\ \A k \in 1..n : L[k] = Better(es, k, L[k - 1], closed)
  BY <1>1, BestLoopIs
<1> HIDE DEF L
<1>3. Holds(0)
  BY <1>2 DEF Best
<1>4. \A i \in 1..n : AwayFrom(i, closed) \in Nat
  BY <1>1 DEF AwayFrom, Distance
<1>5. ASSUME NEW k \in 1..n, Holds(k - 1)
      PROVE  Holds(k)
  <2> DEFINE before == {i \in 1..(k - 1) : es[i].window # NoWindow /\ i # closed}
             others == {i \in 1..k : es[i].window # NoWindow /\ i # closed}
             best == L[k - 1]
  <2>1. k \in Nat /\ (\A i \in 1..k : i \in 1..n) /\ k - 1 \in Nat
    BY <1>1
  <2>2. L[k] = Better(es, k, best, closed)
    BY <1>2
  <2>3. CASE es[k].window = NoWindow \/ k = closed
    <3>1. L[k] = best
      BY <2>2, <2>3 DEF Better
    <3>2. others = before
      BY <2>1, <2>3
    <3> QED BY <1>5, <3>1, <3>2 DEF Best
  <2>4. CASE es[k].window # NoWindow /\ k # closed
    <3>1. others = before \cup {k} /\ k \notin before
      BY <2>1, <2>4
    <3>2. \A i \in before : i \in 1..n /\ i < k /\ es[i].time \in Nat /\ AwayFrom(i, closed) \in Nat
      BY <1>1, <1>4, <2>1
    <3>3. es[k].time \in Nat /\ AwayFrom(k, closed) \in Nat
      BY <1>1, <1>4
    <3>4. CASE before = {}
      <4>1. best = 0
        BY <1>5, <3>4 DEF Best
      <4>2. L[k] = k
        BY <2>2, <2>4, <4>1 DEF Better
      <4>3. others = {k}
        BY <3>1, <3>4
      <4> QED BY <4>2, <4>3 DEF Best
    <3>5. CASE before # {}
      <4>1. /\ best \in before
            /\ \A i \in before \ {best} :
                  \/ es[i].time < es[best].time
                  \/ /\ es[i].time = es[best].time
                     /\ AwayFrom(i, closed) > AwayFrom(best, closed)
                  \/ /\ es[i].time = es[best].time
                     /\ AwayFrom(i, closed) = AwayFrom(best, closed) /\ i > best
        BY <1>5, <3>5 DEF Best
      <4>2. best # 0 /\ best < k /\ es[best].time \in Nat /\ AwayFrom(best, closed) \in Nat
        BY <3>2, <4>1
      <4> HIDE DEF before, others, best
      <4>3. Prefers(es, k, best, closed) <=>
                \/ es[k].time > es[best].time
                \/ es[k].time = es[best].time /\ AwayFrom(k, closed) < AwayFrom(best, closed)
        <5>1. CASE closed > 0
          BY <5>1 DEF Prefers, AwayFrom
        <5>2. CASE ~(closed > 0)
          BY <5>2 DEF Prefers, AwayFrom
        <5> QED BY <5>1, <5>2
      <4>4. CASE Prefers(es, k, best, closed)
        <5>1. L[k] = k
          BY <2>2, <2>4, <4>4 DEF Better
        <5>2. \A i \in others \ {k} :
                 \/ es[i].time < es[k].time
                 \/ /\ es[i].time = es[k].time
                    /\ AwayFrom(i, closed) > AwayFrom(k, closed)
          <6> SUFFICES ASSUME NEW i \in before
                       PROVE  \/ es[i].time < es[k].time
                              \/ /\ es[i].time = es[k].time
                                 /\ AwayFrom(i, closed) > AwayFrom(k, closed)
            BY <3>1
          <6>1. es[i].time \in Nat /\ AwayFrom(i, closed) \in Nat
            BY <3>2
          <6>2. CASE i = best
            BY <3>3, <4>2, <4>3, <4>4, <6>2
          <6>3. CASE i # best
            BY <3>3, <4>1, <4>2, <4>3, <4>4, <6>1, <6>3
          <6> QED BY <6>2, <6>3
        <5> QED BY <3>1, <5>1, <5>2 DEF Best, others
      <4>5. CASE ~Prefers(es, k, best, closed)
        <5>1. L[k] = best
          BY <2>2, <4>2, <4>5 DEF Better
        <5>2. \/ es[k].time < es[best].time
              \/ /\ es[k].time = es[best].time
                 /\ AwayFrom(k, closed) > AwayFrom(best, closed)
              \/ /\ es[k].time = es[best].time
                 /\ AwayFrom(k, closed) = AwayFrom(best, closed) /\ k > best
          <6>1. ~(es[k].time > es[best].time)
            BY <4>3, <4>5
          <6>2. es[k].time = es[best].time => ~(AwayFrom(k, closed) < AwayFrom(best, closed))
            BY <4>3, <4>5
          <6>3. best \in Nat /\ k \in Nat
            BY <2>1, <3>2, <4>1
          <6> QED BY <3>3, <4>2, <6>1, <6>2, <6>3
        <5> QED BY <3>1, <4>1, <5>1, <5>2 DEF Best, others
      <4> QED BY <4>4, <4>5
    <3> QED BY <3>4, <3>5
  <2> QED BY <2>3, <2>4
<1>6. Holds(n)
  <2> DEFINE T == {k \in 0..n : ~Holds(k)}
  <2> HIDE DEF Holds
  <2> SUFFICES ASSUME T # {} PROVE FALSE
    BY <1>1
  <2>1. T \in SUBSET Nat
    BY <1>1
  <2>2. PICK m \in T : \A k \in T : m <= k
    <3> HIDE DEF T
    <3> QED BY <2>1, LeastOfNat
  <2>3. m # 0 /\ m \in 1..n /\ m - 1 \in 0..n
    BY <1>1, <1>3, <2>2
  <2>4. Holds(m - 1)
    BY <2>2, <2>3
  <2> QED BY <1>5, <2>3, <2>4
<1> QED BY <1>6 DEF L

\* PickNextMeetsComment for any tidy entries.
LEMMA PickNextActiveIs ==
    ASSUME NEW es, Tidy(es), NEW closedId
    PROVE  LET next == PickNextActive(es, closedId)
               others == {i \in DOMAIN es : es[i].window # NoWindow /\ es[i].id # closedId}
               Away(i) == IF Known(es, closedId) THEN Distance(i, IndexOf(es, closedId)) ELSE 0
           IN  IF others = {} THEN next = 0
               ELSE /\ next \in others
                    /\ \A i \in others \ {next} :
                          \/ es[i].time < es[next].time
                          \/ es[i].time = es[next].time /\ Away(i) > Away(next)
                          \/ es[i].time = es[next].time /\ Away(i) = Away(next) /\ i > next
<1> DEFINE closed == IF Known(es, closedId) THEN IndexOf(es, closedId) ELSE 0
           next == PickNextActive(es, closedId)
           others == {i \in DOMAIN es : es[i].window # NoWindow /\ es[i].id # closedId}
           Away(i) == IF Known(es, closedId) THEN Distance(i, IndexOf(es, closedId)) ELSE 0
<1>1. es \in Seq(EntryState) /\ Len(es) \in Nat /\ DOMAIN es = 1..Len(es)
  BY DEF Tidy
<1>2. closed \in 0..Len(es)
  BY <1>1, KnownHasIndex
<1>3. next = BestLoop(es, closed)[Len(es)]
  BY DEF PickNextActive, BestLoop
<1>4. Best(es, closed, Len(es), next)
  BY <1>1, <1>2, <1>3, BestIs
<1>5. \A i \in DOMAIN es : i # closed <=> es[i].id # closedId
  <2>1. CASE Known(es, closedId)
    <3>1. closed \in DOMAIN es /\ es[closed].id = closedId
      BY <2>1, KnownHasIndex
    <3> HIDE DEF closed
    <3> QED BY <3>1 DEF Tidy, UniqueIds
  <2>2. CASE ~Known(es, closedId)
    BY <1>1, <2>2 DEF Known
  <2> QED BY <2>1, <2>2
<1>6. \A i : Away(i) = AwayFrom(i, closed)
  <2>1. CASE Known(es, closedId)
    <3>1. IndexOf(es, closedId) \in 1..Len(es)
      BY <1>1, <2>1, KnownHasIndex
    <3>2. closed = IndexOf(es, closedId) /\ closed > 0
      BY <1>1, <2>1, <3>1
    <3> QED BY <2>1, <3>2 DEF AwayFrom
  <2>2. CASE ~Known(es, closedId)
    BY <2>2 DEF AwayFrom
  <2> QED BY <2>1, <2>2
<1>7. others = {i \in 1..Len(es) : es[i].window # NoWindow /\ i # closed}
  BY <1>1, <1>5
<1> HIDE DEF closed, next, Away, others
<1> SUFFICES IF others = {} THEN next = 0
             ELSE /\ next \in others
                  /\ \A i \in others \ {next} :
                        \/ es[i].time < es[next].time
                        \/ es[i].time = es[next].time /\ Away(i) > Away(next)
                        \/ es[i].time = es[next].time /\ Away(i) = Away(next) /\ i > next
  BY DEF next, Away, others
<1> QED BY <1>4, <1>6, <1>7 DEF Best

-----------------------------------------------------------------------------
(* The steps of the service                                                 *)

\* While the clock is not set back, no entry is newer than what is active, and that
\* entry is as new.
Timely(b, last) ==
    /\ b.activeTime <= last
    /\ \A e \in Range(b.entries) : e.time <= last
    /\ b.active # NoWindow =>
          \A e \in Range(b.entries) :
              /\ e.time <= b.activeTime
              /\ e.window = b.active => e.time = b.activeTime

\* What a step makes of the bar "b" when the windows are then "ws".
Succeeds(b, last, ws, r, next) ==
    /\ Sound(r) /\ Matches(r.entries, ws) /\ r.status \subseteq DOMAIN ws
    /\ r.reported \/ View(r) = View(b)
    /\ b.reported => r.reported
    /\ Timely(b, last) => Timely(r, next)

LEMMA EntriesAre ==
    ASSUME NEW b, Sound(b)
    PROVE  /\ b.activeTime \in Nat /\ b.activeTime \in 0..MaxTime
           /\ \A e \in Range(b.entries) : e \in EntryState /\ e.time \in Nat /\ e.time \in 0..MaxTime
<1>1. b \in Bar /\ b.entries \in Seq(EntryState)
  BY DEF Sound, Tidy
<1>2. b.activeTime \in 0..MaxTime
  BY <1>1 DEF Bar
<1>3. \A e \in Range(b.entries) : e \in EntryState
  BY <1>1 DEF Range
<1>4. \A e \in Range(b.entries) : e.time \in 0..MaxTime
  BY <1>3 DEF EntryState
<1> QED BY <1>2, <1>3, <1>4, ConstantsAssumption

LEMMA ReconcileSucceeds ==
    ASSUME NEW b, Sound(b), NEW ws, WindowsOK(ws), NEW last \in Nat
    PROVE  Succeeds(b, last, ws, Reconcile(b, ws), last)
<1> DEFINE r == Reconcile(b, ws)
<1>1. Reconciled(b, ws, r)
  BY ReconcileIs
<1> HIDE DEF r
<1>2. Sound(r) /\ Matches(r.entries, ws) /\ r.status \subseteq DOMAIN ws
  BY <1>1 DEF Reconciled
<1>3. r.reported \/ View(r) = View(b)
  <2> SUFFICES ASSUME ~r.reported PROVE View(r) = View(b)
    OBVIOUS
  <2>1. r.entries = b.entries /\ r.active = b.active /\ r.status = b.status \cap DOMAIN ws
    BY <1>1 DEF Reconciled
  <2>2. NoWindow \notin b.status
    BY ConstantsAssumption DEF Sound, Bar, WindowId
  <2>3. \A i \in DOMAIN b.entries : b.entries[i].window \in r.status <=> b.entries[i].window \in b.status
    <3> SUFFICES ASSUME NEW i \in DOMAIN b.entries
                 PROVE  b.entries[i].window \in r.status <=> b.entries[i].window \in b.status
      OBVIOUS
    <3>1. b.entries[i] \in Range(r.entries)
      BY <2>1 DEF Range
    <3>2. b.entries[i].window \in DOMAIN ws \/ b.entries[i].window = NoWindow
      BY <1>2, <3>1 DEF Matches
    <3> QED BY <2>1, <2>2, <3>2
  <2> QED BY <2>1, <2>3 DEF View
<1>4. ASSUME Timely(b, last)
      PROVE  Timely(r, last)
  <2> DEFINE Fits(e) == /\ e.time <= last
                        /\ b.active # NoWindow =>
                              /\ e.time <= b.activeTime
                              /\ e.window = b.active => e.time = b.activeTime
  <2>1. b.activeTime \in Nat /\ b.activeTime \in 0..MaxTime
        /\ \A e \in Range(b.entries) : e \in EntryState /\ e.time \in Nat
    BY EntriesAre
  <2>2. b.activeTime <= last /\ \A e \in Range(b.entries) : Fits(e)
    BY <1>4 DEF Timely
  <2>3. ASSUME NEW e \in EntryState, e.time \in Nat, Fits(e), NEW w \in DOMAIN ws
        PROVE  Fits(Bound(e, w, ws, b))
    <3>1. w # NoWindow
      BY ConstantsAssumption DEF WindowsOK, WindowId
    <3>2. /\ Bound(e, w, ws, b).window = w
          /\ Bound(e, w, ws, b).time =
                IF w = b.active /\ e.time < b.activeTime THEN b.activeTime ELSE e.time
      BY <2>1, BoundIs
    <3>3. CASE w = b.active
      BY <2>1, <2>2, <2>3, <3>1, <3>2, <3>3
    <3>4. CASE w # b.active
      BY <2>3, <3>2, <3>4
    <3> QED BY <3>3, <3>4
  <2>4. ASSUME NEW e \in Range(b.entries), Stays(e, ws)
        PROVE  Fits(Final(e, ws, b))
    <3>1. e \in EntryState /\ e.time \in Nat /\ Fits(e)
      BY <2>1, <2>2
    <3>2. CASE WindowFor(e, ws) # NoWindow
      <4>1. WindowFor(e, ws) \in DOMAIN ws
        BY <3>2, WindowForIs
      <4>2. Fits(Bound(e, WindowFor(e, ws), ws, b))
        <5> HIDE DEF Fits
        <5> QED BY <2>3, <3>1, <4>1
      <4> QED BY <3>2, <4>2 DEF Final
    <3>3. CASE WindowFor(e, ws) = NoWindow
      <4>1. Final(e, ws, b) = [e EXCEPT !.window = NoWindow]
        BY <3>3 DEF Final
      <4>2. Final(e, ws, b).time = e.time /\ Final(e, ws, b).window = NoWindow
        BY <3>1, <4>1 DEF EntryState
      <4> QED BY <3>1, <4>2
    <3> QED BY <3>2, <3>3
  <2>5. ASSUME NEW w \in NewWindows(b.entries, ws)
        PROVE  Fits(NewEntry(w, ws, b))
    <3> DEFINE e == [id |-> ws[w].shows, host |-> ws[w].host, pinned |-> FALSE,
                     window |-> NoWindow, time |-> 0]
    <3>1. w \in DOMAIN ws /\ ws[w].shows # NoEntry /\ ws[w] \in Shown
      BY DEF NewWindows, WindowsOK
    <3>2. ws[w].shows \in Entry /\ ws[w].host \in Host
      BY <3>1 DEF Shown, Host
    <3>3. e \in EntryState /\ e.time = 0 /\ e.window = NoWindow
      BY <3>2, ConstantsAssumption DEF EntryState
    <3>4. Fits(e)
      BY <2>1, <3>3
    <3>5. NewEntry(w, ws, b) = Bound(e, w, ws, b)
      BY DEF NewEntry
    <3> HIDE DEF e, Fits
    <3> QED BY <2>3, <3>1, <3>3, <3>4, <3>5
  <2>6. \A e \in Range(r.entries) : Fits(e)
    <3>1. Range(r.entries) = {Final(e, ws, b) : e \in {o \in Range(b.entries) : Stays(o, ws)}}
                             \cup {NewEntry(w, ws, b) : w \in NewWindows(b.entries, ws)}
      BY <1>1 DEF Reconciled
    <3> HIDE DEF Fits
    <3> QED BY <2>4, <2>5, <3>1
  <2>7. r.active = b.active /\ r.activeTime = b.activeTime
    BY <1>1 DEF Reconciled
  <2> QED BY <2>2, <2>6, <2>7 DEF Timely
<1>5. b.reported => r.reported
  BY <1>1 DEF Reconciled
<1> QED BY <1>2, <1>3, <1>4, <1>5 DEF Succeeds, r

LEMMA ActivateSucceeds ==
    ASSUME NEW b, Sound(b), NEW ws, WindowsOK(ws), Matches(b.entries, ws),
           b.status \subseteq DOMAIN ws,
           NEW w \in WindowId, NEW last \in Nat, NEW t \in 0..MaxTime, last < t
    PROVE  Succeeds(b, last, ws, Activate(b, w, t), t)
<1> DEFINE r == Activate(b, w, t)
           es == b.entries
<1>1. Activated(b, w, t, r) /\ Matches(r.entries, ws)
  BY ActivateIs
<1> HIDE DEF r
<1>2. Sound(r) /\ r.status = b.status /\ r.active = w /\ r.activeTime = t /\ (b.reported => r.reported)
  BY <1>1 DEF Activated
<1>3. r.reported \/ View(r) = View(b)
  <2> SUFFICES ASSUME ~r.reported PROVE View(r) = View(b)
    OBVIOUS
  <2>1. r.entries = es /\ EntryFor(es, w) = EntryFor(es, b.active)
    BY <1>1 DEF Activated
  <2> QED BY <1>2, <2>1 DEF View
<1>4. ASSUME Timely(b, last)
      PROVE  Timely(r, t)
  <2>1. /\ \A e \in Range(es) : e \in EntryState /\ e.time \in Nat
        /\ t \in Nat /\ Tidy(es)
    BY EntriesAre, ConstantsAssumption DEF Sound
  <2>2. \A e \in Range(es) : e.time <= last
    BY <1>4 DEF Timely
  <2>3. \A e \in Range(es) : e.time < t
    BY <2>1, <2>2
  <2>4. CASE r.entries = es /\ \A i \in DOMAIN es : es[i].window = w => es[i].time >= t
    <3>1. \A e \in Range(es) : e.window = w => e.time >= t
      BY <2>4 DEF Range
    <3>2. \A e \in Range(es) : e.window # w
      BY <2>1, <2>3, <3>1
    <3> QED BY <1>2, <2>1, <2>3, <2>4, <3>2 DEF Timely
  <2>5. ASSUME NEW i \in DOMAIN es, es[i].window = w,
               r.entries = ReplaceAt(es, i, [es[i] EXCEPT !.time = t])
        PROVE  Timely(r, t)
    <3> DEFINE x == [es[i] EXCEPT !.time = t]
    <3>0. es[i] \in EntryState /\ es[i] \in Range(es)
      BY <2>1 DEF Range
    <3>1. x \in EntryState /\ x.id = es[i].id /\ x.host = es[i].host /\ x.time = t
      <4> HIDE DEF es
      <4> QED BY <3>0 DEF EntryState
    <3> HIDE DEF x
    <3>2. Range(r.entries) = (Range(es) \ {es[i]}) \cup {x}
      <4>1. r.entries = ReplaceAt(es, i, x)
        BY <2>5 DEF x
      <4> HIDE DEF es
      <4>2. Range(ReplaceAt(es, i, x)) = (Range(es) \ {es[i]}) \cup {x}
        BY <2>1, <2>5, <3>1, ReplaceKeeps
      <4> QED BY <4>1, <4>2
    <3>3. \A e \in Range(es) \ {es[i]} : e.window # w
      <4> SUFFICES ASSUME NEW e \in Range(es), e.window = w PROVE e = es[i]
        OBVIOUS
      <4>1. PICK k \in DOMAIN es : e = es[k]
        BY DEF Range
      <4>2. w # NoWindow
        BY ConstantsAssumption DEF WindowId
      <4>3. ws[w].shows = e.id /\ ws[w].shows = es[i].id
        BY <2>5, <3>0, <4>2 DEF Matches
      <4> QED BY <2>1, <4>1, <4>3 DEF Tidy, UniqueIds
    <3>4. \A e \in Range(r.entries) : e.time <= t /\ (e.window = w => e.time = t)
      <4> SUFFICES ASSUME NEW e \in Range(r.entries)
                   PROVE  e.time <= t /\ (e.window = w => e.time = t)
        OBVIOUS
      <4>1. CASE e = x
        BY <2>1, <3>1, <4>1
      <4>2. CASE e # x
        BY <2>1, <2>3, <3>2, <3>3, <4>2
      <4> QED BY <4>1, <4>2
    <3> QED BY <1>2, <2>1, <3>4 DEF Timely
  <2>6. \/ r.entries = es /\ \A i \in DOMAIN es : es[i].window = w => es[i].time >= t
        \/ \E i \in DOMAIN es : /\ es[i].window = w
                                /\ r.entries = ReplaceAt(es, i, [es[i] EXCEPT !.time = t])
    BY <1>1 DEF Activated
  <2> QED BY <2>4, <2>5, <2>6
<1> QED BY <1>1, <1>2, <1>3, <1>4 DEF Succeeds, r

\* One after the other.
LEMMA SucceedsTwice ==
    ASSUME NEW b, NEW last, NEW ws, NEW m, NEW mid, NEW r, NEW next, NEW ws1,
           Succeeds(b, last, ws1, m, mid), Succeeds(m, mid, ws, r, next)
    PROVE  Succeeds(b, last, ws, r, next)
BY DEF Succeeds

LEMMA UpdateSucceeds ==
    ASSUME NEW b, Sound(b), NEW ws, WindowsOK(ws), NEW presented, presented \subseteq WindowId,
           lastTime \in 0..MaxTime, Update(b, ws, presented)
    PROVE  /\ windows' = ws /\ lastTime' \in 0..MaxTime
           /\ Succeeds(b, lastTime, ws, bar', lastTime')
<1> DEFINE m == Reconcile(b, ws)
<1>0. lastTime \in Nat
  BY ConstantsAssumption
<1>1. Succeeds(b, lastTime, ws, m, lastTime)
  BY <1>0, ReconcileSucceeds
<1>2. CASE bar' = m /\ lastTime' = lastTime
  BY <1>1, <1>2 DEF Update
<1>3. CASE /\ MayActivate /\ lastTime' = NextTime
           /\ \E w \in presented : bar' = Activate(m, w, NextTime)
  <2>1. PICK w \in presented : bar' = Activate(m, w, NextTime)
    BY <1>3
  <2> HIDE DEF m
  <2>2. NextTime \in 0..MaxTime /\ lastTime < NextTime
    BY <1>0, <1>3, ConstantsAssumption DEF NextTime, MayActivate
  <2>3. Sound(m) /\ Matches(m.entries, ws) /\ m.status \subseteq DOMAIN ws /\ w \in WindowId
    BY <1>1 DEF Succeeds
  <2> DEFINE r == Activate(m, w, NextTime)
  <2>4. Succeeds(m, lastTime, ws, r, NextTime)
    BY <1>0, <2>2, <2>3, ActivateSucceeds
  <2>5. Succeeds(b, lastTime, ws, r, NextTime)
    BY <1>1, <2>4, SucceedsTwice
  <2> QED BY <1>3, <2>1, <2>2, <2>5 DEF Update
<1> QED BY <1>2, <1>3 DEF Update

\* What the theorems need of a step.
Advances ==
    /\ IInv'
    /\ Restart \/ bar'.reported \/ View(bar') = View(bar)
    /\ ClockMayGoBack = FALSE /\ Timely(bar, lastTime) => Timely(bar', lastTime')

LEMMA CurrentIs ==
    ASSUME IInv
    PROVE  /\ WindowsOK(windows) /\ lastWindow \in Nat /\ lastTime \in 0..MaxTime /\ lastTime \in Nat
           /\ Sound(Current) /\ Matches(Current.entries, windows) /\ Current.status \subseteq DOMAIN windows
           /\ Current.entries = bar.entries /\ Current.active = bar.active
           /\ Current.activeTime = bar.activeTime /\ Current.status = bar.status
<1>1. bar \in Bar
  BY DEF IInv, TypeOK
<1>2. /\ Current \in Bar /\ Current.entries = bar.entries /\ Current.active = bar.active
      /\ Current.activeTime = bar.activeTime /\ Current.status = bar.status
      /\ Current.persisted = bar.persisted
  BY <1>1 DEF Current, Bar
<1>3. WindowsOK(windows) /\ lastWindow \in Nat /\ lastTime \in 0..MaxTime /\ lastTime \in Nat
  BY ConstantsAssumption DEF IInv, TypeOK, WindowsOK, WindowId
<1> QED BY <1>2, <1>3 DEF IInv, TypeOK, Sound

LEMMA AdvancesIf ==
    ASSUME IInv, NEW ws, WindowsOK(ws), windows' = ws,
           lastWindow' \in 0..MaxWindow, DOMAIN ws \subseteq 1..lastWindow',
           lastTime' \in 0..MaxTime, Succeeds(Current, lastTime, ws, bar', lastTime')
    PROVE  Advances
<1>1. IInv'
  BY DEF IInv, TypeOK, WindowsOK, Succeeds, Sound
<1>2. bar'.reported \/ View(bar') = View(bar)
  BY CurrentIs DEF Succeeds, View
<1>3. Timely(bar, lastTime) => Timely(Current, lastTime)
  BY CurrentIs DEF Timely
<1> QED BY <1>1, <1>2, <1>3 DEF Advances, Succeeds

\* A step that changes neither windows nor times.
LEMMA AdvancesInPlace ==
    ASSUME IInv, UNCHANGED <<windows, lastWindow, lastTime>>,
           Sound(bar'), Matches(bar'.entries, windows), bar'.status \subseteq DOMAIN windows,
           bar'.reported \/ View(bar') = View(Current),
           bar'.active = bar.active, bar'.activeTime = bar.activeTime,
           \A f \in Range(bar'.entries) : \E e \in Range(bar.entries) :
              f.window = e.window /\ f.time = e.time
    PROVE  Advances
<1>1. Current.reported = FALSE
  <2>1. bar \in Bar
    BY DEF IInv, TypeOK
  <2> QED BY <2>1 DEF Current, Bar
<1>2. Timely(Current, lastTime) => Timely(bar', lastTime')
  <2> SUFFICES ASSUME Timely(bar, lastTime) PROVE Timely(bar', lastTime')
    BY CurrentIs DEF Timely
  <2> QED BY DEF Timely
<1>3. Succeeds(Current, lastTime, windows, bar', lastTime')
  BY <1>1, <1>2 DEF Succeeds
<1>4. /\ lastWindow' \in 0..MaxWindow /\ DOMAIN windows \subseteq 1..lastWindow'
      /\ lastTime' \in 0..MaxTime /\ windows' = windows
  BY DEF IInv, TypeOK
<1> QED BY <1>3, <1>4, AdvancesIf, CurrentIs

LEMMA OpenAdvances ==
    ASSUME IInv, OnDidOpenWindow
    PROVE  Advances
<1> DEFINE w == lastWindow + 1
           s == [shows |-> NoEntry, host |-> Local]
           ws == [o \in DOMAIN windows \cup {w} |-> IF o = w THEN s ELSE windows[o]]
<1>1. w \in WindowId /\ lastWindow' = w
  BY CurrentIs DEF OnDidOpenWindow, WindowId
<1>2. s \in Shown
  BY DEF Shown
<1>3. DOMAIN ws = DOMAIN windows \cup {w} /\ \A o \in DOMAIN ws : ws[o] \in Shown
  BY <1>2, CurrentIs DEF WindowsOK
<1>4. WindowsOK(ws) /\ DOMAIN ws \subseteq 1..w /\ w \in 0..MaxWindow
  BY <1>1, <1>3, CurrentIs DEF WindowsOK, IInv, TypeOK, WindowId
<1>5. \/ Update(Current, ws, {})
      \/ /\ MayActivate /\ lastTime' = NextTime /\ windows' = ws
         /\ bar' = Reconcile(Activate(Current, w, NextTime), ws)
  BY DEF OnDidOpenWindow
<1> HIDE DEF ws
<1>6. CASE Update(Current, ws, {})
  <2>1. /\ windows' = ws /\ lastTime' \in 0..MaxTime
        /\ Succeeds(Current, lastTime, ws, bar', lastTime')
    <3> DEFINE none == {}
    <3>1. none \subseteq WindowId /\ Update(Current, ws, none)
      BY <1>6
    <3> HIDE DEF none
    <3> QED BY <1>4, <3>1, CurrentIs, UpdateSucceeds
  <2> QED BY <1>1, <1>4, <2>1, AdvancesIf
<1>7. CASE /\ MayActivate /\ lastTime' = NextTime /\ windows' = ws
           /\ bar' = Reconcile(Activate(Current, w, NextTime), ws)
  <2> DEFINE m == Activate(Current, w, NextTime)
  <2>1. NextTime \in 0..MaxTime /\ NextTime \in Nat /\ lastTime < NextTime
    BY <1>7, CurrentIs DEF NextTime, MayActivate
  <2>2. Succeeds(Current, lastTime, windows, m, NextTime)
    BY <1>1, <2>1, CurrentIs, ActivateSucceeds
  <2> HIDE DEF m
  <2>3. Succeeds(m, NextTime, ws, Reconcile(m, ws), NextTime)
    BY <1>4, <2>1, <2>2, ReconcileSucceeds DEF Succeeds
  <2>4. Succeeds(Current, lastTime, ws, bar', lastTime')
    BY <1>7, <2>2, <2>3, SucceedsTwice DEF m
  <2> QED BY <1>1, <1>4, <1>7, <2>1, <2>4, AdvancesIf
<1> QED BY <1>5, <1>6, <1>7

LEMMA LoadAdvances ==
    ASSUME IInv, NEW w \in WindowId, OnWillLoadWindow(w)
    PROVE  Advances
<1> DEFINE m == ClearStatus(Current, w)
<1>1. PICK s \in Shown : Update(m, [windows EXCEPT ![w] = s], {})
  BY DEF OnWillLoadWindow
<1> DEFINE ws == [windows EXCEPT ![w] = s]
           none == {}
<1>2. WindowsOK(ws) /\ DOMAIN ws = DOMAIN windows
  BY CurrentIs DEF WindowsOK
<1>3. none \subseteq WindowId /\ Update(m, ws, none)
  BY <1>1
<1>4. /\ Sound(m) /\ m.entries = Current.entries
      /\ m.active = Current.active /\ m.activeTime = Current.activeTime
      /\ m.reported \/ View(m) = View(Current)
  BY CurrentIs, ClearStatusIs
<1> HIDE DEF m, ws, none
<1>5. /\ windows' = ws /\ lastTime' \in 0..MaxTime
      /\ Succeeds(m, lastTime, ws, bar', lastTime')
  BY <1>2, <1>3, <1>4, CurrentIs, UpdateSucceeds
<1>6. Timely(Current, lastTime) => Timely(m, lastTime)
  BY <1>4 DEF Timely
<1>7. Current.reported = FALSE
  BY DEF IInv, TypeOK, Current, Bar
<1>8. Succeeds(Current, lastTime, ws, bar', lastTime')
  BY <1>4, <1>5, <1>6, <1>7 DEF Succeeds
<1>9. lastWindow' \in 0..MaxWindow /\ DOMAIN ws \subseteq 1..lastWindow'
  BY <1>2 DEF IInv, TypeOK, OnWillLoadWindow
<1> QED BY <1>2, <1>5, <1>8, <1>9, AdvancesIf

LEMMA ReadyAdvances ==
    ASSUME IInv, OnDidSignalReadyWindow
    PROVE  Advances
<1>1. PICK ws \in [DOMAIN windows -> Shown] : Update(Current, ws, DOMAIN windows)
  BY DEF OnDidSignalReadyWindow
<1> DEFINE presented == DOMAIN windows
<1>2. WindowsOK(ws) /\ DOMAIN ws = DOMAIN windows /\ presented \subseteq WindowId
  BY CurrentIs DEF WindowsOK
<1>3. Update(Current, ws, presented)
  BY <1>1
<1>4. lastWindow' \in 0..MaxWindow /\ DOMAIN ws \subseteq 1..lastWindow'
  BY <1>2 DEF IInv, TypeOK, OnDidSignalReadyWindow
<1> HIDE DEF presented
<1>5. /\ windows' = ws /\ lastTime' \in 0..MaxTime
      /\ Succeeds(Current, lastTime, ws, bar', lastTime')
  BY <1>2, <1>3, CurrentIs, UpdateSucceeds
<1> QED BY <1>2, <1>4, <1>5, AdvancesIf

LEMMA PickNextWindowIs ==
    ASSUME IInv, NEW w, NEW around, around \subseteq WindowId
    PROVE  PickNextWindow(w, around) \subseteq WindowId
<1> DEFINE es == bar.entries
           closedId == EntryFor(es, w)
           next == PickNextActive(es, closedId)
           others == {i \in DOMAIN es : es[i].window # NoWindow /\ es[i].id # closedId}
<1>0. Tidy(es) /\ \A i \in DOMAIN es : es[i] \in EntryState
  BY DEF IInv, Sound, Tidy
<1>1. next # 0 => next \in others
  <2> HIDE DEF es, closedId
  <2> QED BY <1>0, PickNextActiveIs
<1>2. next # 0 => es[next].window \in WindowId
  <2> SUFFICES ASSUME next # 0 PROVE es[next].window \in WindowId
    OBVIOUS
  <2>1. next \in DOMAIN es /\ es[next].window # NoWindow
    BY <1>1
  <2>2. es[next] \in EntryState
    BY <1>0, <2>1
  <2> HIDE DEF next, es
  <2> QED BY <2>1, <2>2 DEF EntryState
<1>3. PickNextWindow(w, around) = IF next # 0 THEN {es[next].window} ELSE around
  BY DEF PickNextWindow
<1> HIDE DEF next, es
<1> QED BY <1>2, <1>3

LEMMA CloseAdvances ==
    ASSUME IInv, NEW w \in WindowId, OnDidCloseWindow(w)
    PROVE  Advances
<1> DEFINE around == DOMAIN windows \ {w}
           ws == [o \in around |-> windows[o]]
           presented == PickNextWindow(w, around)
<1>1. WindowsOK(ws) /\ DOMAIN ws = around /\ around \subseteq WindowId
  BY CurrentIs DEF WindowsOK
<1>2. presented \subseteq WindowId
  BY <1>1, PickNextWindowIs
<1>3. Update(Current, ws, presented)
  BY DEF OnDidCloseWindow
<1>4. lastWindow' \in 0..MaxWindow /\ DOMAIN ws \subseteq 1..lastWindow'
  BY <1>1 DEF IInv, TypeOK, OnDidCloseWindow
<1> HIDE DEF presented, ws
<1>5. /\ windows' = ws /\ lastTime' \in 0..MaxTime
      /\ Succeeds(Current, lastTime, ws, bar', lastTime')
  BY <1>1, <1>2, <1>3, CurrentIs, UpdateSucceeds
<1> QED BY <1>1, <1>4, <1>5, AdvancesIf

LEMMA SetActiveAdvances ==
    ASSUME IInv, NEW w \in WindowId, SetActive(w)
    PROVE  Advances
<1>1. NextTime \in 0..MaxTime /\ lastTime < NextTime /\ lastTime' = NextTime
  BY CurrentIs DEF NextTime, MayActivate, SetActive
<1>2. Succeeds(Current, lastTime, windows, bar', lastTime')
  BY <1>1, CurrentIs, ActivateSucceeds DEF SetActive
<1>3. /\ lastWindow' \in 0..MaxWindow /\ DOMAIN windows \subseteq 1..lastWindow'
      /\ windows' = windows
  BY DEF IInv, TypeOK, SetActive
<1> QED BY <1>1, <1>2, <1>3, CurrentIs, AdvancesIf

LEMMA SetStatusAdvances ==
    ASSUME IInv, NEW w \in WindowId, SetWindowStatus(w)
    PROVE  Advances
<1>1. UNCHANGED <<windows, lastWindow, lastTime>>
  BY DEF SetWindowStatus
<1>2. CASE w \in DOMAIN windows /\ bar' = SetStatus(Current, w)
  <2>1. /\ Sound(bar') /\ bar'.entries = Current.entries /\ bar'.status = Current.status \cup {w}
        /\ bar'.active = Current.active /\ bar'.activeTime = Current.activeTime
        /\ bar'.reported \/ View(bar') = View(Current)
    BY <1>2, CurrentIs, SetStatusIs
  <2> QED BY <1>1, <1>2, <2>1, CurrentIs, AdvancesInPlace
<1>3. CASE bar' = ClearStatus(Current, w)
  <2>1. /\ Sound(bar') /\ bar'.entries = Current.entries /\ bar'.status = Current.status \ {w}
        /\ bar'.active = Current.active /\ bar'.activeTime = Current.activeTime
        /\ bar'.reported \/ View(bar') = View(Current)
    BY <1>3, CurrentIs, ClearStatusIs
  <2> QED BY <1>1, <2>1, CurrentIs, AdvancesInPlace
<1> QED BY <1>2, <1>3 DEF SetWindowStatus

LEMMA EditAdvances ==
    ASSUME IInv, NEW b, IsEdited(Current, windows, b), Edit(b)
    PROVE  Advances
<1>1. UNCHANGED <<windows, lastWindow, lastTime>> /\ bar' = b
  BY DEF Edit
<1>2. bar'.reported \/ View(bar') = View(Current)
  BY <1>1 DEF IsEdited, View
<1>3. /\ Sound(bar') /\ Matches(bar'.entries, windows) /\ bar'.status \subseteq DOMAIN windows
      /\ bar'.active = bar.active /\ bar'.activeTime = bar.activeTime
  BY <1>1, CurrentIs DEF IsEdited
<1>4. \A f \in Range(bar'.entries) : \E e \in Range(bar.entries) :
          f.window = e.window /\ f.time = e.time
  BY <1>1, CurrentIs DEF IsEdited
<1> QED BY <1>1, <1>2, <1>3, <1>4, AdvancesInPlace

LEMMA PinAdvances ==
    ASSUME IInv, NEW id, Pin(id) \/ Unpin(id)
    PROVE  Advances
<1>1. Known(Current.entries, id)
  BY CurrentIs DEF Pin, Unpin
<1>2. CASE Pin(id)
  BY <1>1, <1>2, CurrentIs, PinEntryIs, EditAdvances DEF Pin
<1>3. CASE Unpin(id)
  BY <1>1, <1>3, CurrentIs, UnpinEntryIs, EditAdvances DEF Unpin
<1> QED BY <1>2, <1>3

LEMMA ReorderAdvances ==
    ASSUME IInv, NEW id, NEW before, Reorder(id, before)
    PROVE  Advances
<1> DEFINE es == Reordered(bar.entries, id, before)
           r == OnDidChangeModel([Current EXCEPT !.entries = es], es # bar.entries)
<1>1. Known(Current.entries, id) /\ (before = NoEntry \/ Known(Current.entries, before))
  BY CurrentIs DEF Reorder
<1>2. Edit(r)
  BY DEF Reorder
<1>3. r = OnDidChangeModel([Current EXCEPT !.entries = es], es # Current.entries)
      /\ es = Reordered(Current.entries, id, before)
  BY CurrentIs
<1> HIDE DEF es, r
<1>4. IsEdited(Current, windows, r)
  BY <1>1, <1>3, CurrentIs, ReorderIs
<1> QED BY <1>2, <1>4, EditAdvances

LEMMA RestartAdvances ==
    ASSUME IInv, Restart
    PROVE  Advances
<1> DEFINE es == bar.entries
           p == bar.persisted
           times == {lastTime} \cup {es[i].time : i \in DOMAIN es}
           latest == Max(times)
           rs == Restored(p)
<1>1. /\ bar' = [entries |-> rs, active |-> NoWindow, activeTime |-> 0, status |-> {},
                 persisted |-> p, reported |-> FALSE]
      /\ windows' = <<>> /\ lastWindow' = 0
      /\ lastTime' \in {t \in 0..latest : ClockMayGoBack \/ t = latest}
  BY DEF Restart
<1>2. bar \in Bar /\ Tidy(es) /\ p = Serialize(es) /\ lastTime \in 0..MaxTime /\ lastTime \in Nat
  BY CurrentIs DEF IInv, TypeOK, Sound
<1>3. \A i \in DOMAIN es : es[i] \in EntryState /\ es[i].time \in 0..MaxTime
  <2>1. \A i \in DOMAIN es : es[i] \in EntryState
    BY <1>2 DEF Tidy
  <2> HIDE DEF es
  <2> QED BY <2>1 DEF EntryState
<1>4. p \in Seq(Persisted) /\ UniqueIds(p) /\ Contiguous(p)
  BY <1>2, SerializeKeeps
<1>5. times \in SUBSET (0..MaxTime) /\ times # {}
  BY <1>2, <1>3
<1> HIDE DEF p, es, times
<1>6. /\ Tidy(rs) /\ rs = [i \in 1..Len(p) |-> RestoredEntry(p[i])] /\ Serialize(rs) = p
  BY <1>4, RestoredIs
<1>7. latest \in times /\ \A k \in times : k <= latest
  BY <1>5, ConstantsAssumption, MaxIs
<1>8. latest \in 0..MaxTime
  BY <1>5, <1>7
<1> HIDE DEF rs, latest
<1>9. Sound(bar') /\ bar'.entries = rs /\ bar'.active = NoWindow /\ bar'.activeTime = 0
      /\ bar'.status = {}
  <2>1. bar' \in Bar
    BY <1>1, <1>4, <1>6, ConstantsAssumption DEF Bar, Tidy
  <2> QED BY <1>1, <1>6, <2>1 DEF Sound
<1>10. \A e \in Range(rs) : e.window = NoWindow /\ e.pinned /\ \E i \in 1..Len(p) : e.time = p[i].time
  <2> SUFFICES ASSUME NEW i \in 1..Len(p)
               PROVE  LET e == RestoredEntry(p[i]) IN
                      e.window = NoWindow /\ e.pinned /\ \E k \in 1..Len(p) : e.time = p[k].time
    BY <1>6 DEF Range
  <2>1. p[i] \in Persisted
    BY <1>4
  <2> QED BY <2>1, RestoredEntryIs
<1>11. Matches(rs, windows')
  BY <1>1, <1>10 DEF Matches
<1>12. IInv'
  <2>1. lastTime' \in 0..MaxTime
    BY <1>1, <1>8, ConstantsAssumption
  <2>2. DOMAIN windows' = {}
    BY <1>1
  <2>3. lastWindow' \in 0..MaxWindow
    BY <1>1, ConstantsAssumption
  <2>4. TypeOK'
    BY <1>9, <2>1, <2>2, <2>3 DEF TypeOK, Sound
  <2> QED BY <1>9, <1>11, <2>4 DEF IInv
<1>13. ASSUME ClockMayGoBack = FALSE
       PROVE  Timely(bar', lastTime')
  <2>1. lastTime' = latest /\ latest \in Nat
    BY <1>1, <1>8, <1>13, ConstantsAssumption
  <2>2. \A i \in DOMAIN es : es[i].time <= latest
    BY <1>7 DEF times
  <2>3. \A i \in 1..Len(p) : \E k \in DOMAIN es : p[i].time = es[k].time
    <3>1. PICK f : ComesFrom(p, es, f, Len(es))
      BY <1>2, SerializeIs DEF Tidy
    <3> SUFFICES ASSUME NEW i \in 1..Len(p)
                 PROVE  \E k \in DOMAIN es : p[i].time = es[k].time
      OBVIOUS
    <3>2. f[i] \in DOMAIN es /\ p[i] = Kept(es[f[i]])
      BY <1>2, <3>1 DEF ComesFrom, Tidy
    <3> QED BY <3>2, KeptIs DEF Kept
  <2>4. \A e \in Range(rs) : e.time <= latest
    BY <1>10, <2>2, <2>3
  <2> QED BY <1>9, <2>1, <2>4 DEF Timely
<1> QED BY <1>12, <1>13 DEF Advances

LEMMA StepAdvances ==
    ASSUME IInv, [Next]_vars
    PROVE  Advances
<1>1. CASE OnDidOpenWindow
  BY <1>1, OpenAdvances
<1>2. CASE OnDidSignalReadyWindow
  BY <1>2, ReadyAdvances
<1>3. ASSUME NEW w \in WindowId,
             \/ OnWillLoadWindow(w) \/ OnDidCloseWindow(w)
             \/ SetActive(w) \/ SetWindowStatus(w)
      PROVE  Advances
  BY <1>3, LoadAdvances, CloseAdvances, SetActiveAdvances, SetStatusAdvances
<1>4. ASSUME NEW id, Pin(id) \/ Unpin(id)
      PROVE  Advances
  BY <1>4, PinAdvances
<1>5. ASSUME NEW id, NEW before, Reorder(id, before)
      PROVE  Advances
  BY <1>5, ReorderAdvances
<1>6. CASE Restart
  BY <1>6, RestartAdvances
<1>7. CASE UNCHANGED vars
  BY <1>7 DEF vars, IInv, TypeOK, Advances, Sound, Matches, WindowId, Shown, Bar
<1> QED BY <1>1, <1>2, <1>3, <1>4, <1>5, <1>6, <1>7 DEF Next

LEMMA InitIs ==
    ASSUME Init
    PROVE  IInv /\ Timely(bar, lastTime)
<1> DEFINE none == <<>>
<1>1. none \in Seq(EntryState) /\ none \in Seq(Persisted) /\ DOMAIN none = {} /\ Len(none) = 0
  OBVIOUS
<1>2. Range(none) = {}
  BY <1>1 DEF Range
<1>3. Tidy(none)
  BY <1>1 DEF Tidy, UniqueIds, Contiguous
<1>4. Serialize(none) = none
  <2>1. \A i \in 1..Len(none) : none[i].pinned
    BY <1>1
  <2>2. Serialize(none) = [i \in 1..Len(none) |-> Kept(none[i])]
    <3> HIDE DEF none
    <3> QED BY <1>1, <2>1, SerializePinned
  <2> QED BY <1>1, <2>2
<1>5. /\ windows = none /\ lastWindow = 0 /\ lastTime = 0
      /\ bar = [entries |-> none, active |-> NoWindow, activeTime |-> 0, status |-> {},
                persisted |-> none, reported |-> FALSE]
  BY DEF Init
<1> HIDE DEF none
<1>6. bar \in Bar /\ bar.entries = none /\ bar.persisted = none /\ bar.status = {}
      /\ bar.active = NoWindow /\ bar.activeTime = 0
  BY <1>1, <1>5, ConstantsAssumption DEF Bar
<1>7. TypeOK
  BY <1>1, <1>5, <1>6, ConstantsAssumption DEF TypeOK
<1>8. Sound(bar) /\ Matches(bar.entries, windows) /\ Timely(bar, lastTime)
  BY <1>1, <1>2, <1>3, <1>4, <1>5, <1>6 DEF Sound, Matches, Timely
<1> QED BY <1>7, <1>8 DEF IInv

LEMMA Inductive == Spec => []IInv
<1>1. Init => IInv
  BY InitIs
<1>2. IInv /\ [Next]_vars => IInv'
  BY StepAdvances DEF Advances
<1> QED BY <1>1, <1>2, PTL DEF Spec

-----------------------------------------------------------------------------
(* The theorems                                                             *)

\* Every call of the model leaves well-formed entries, and a status only for windows
\* that are around.
THEOREM TypeCorrect == Spec => []TypeOK
<1>1. IInv => TypeOK
  BY DEF IInv
<1> QED BY <1>1, Inductive, PTL

\* However entries are opened, rebound to another host, moved, unpinned and restored:
\* the local host comes first, and the entries of one host are contiguous.
THEOREM HostsContiguousHolds == Spec => []HostsContiguous
<1>1. IInv => HostsContiguous
  BY DEF IInv, Sound, Tidy, Contiguous, HostsContiguous
<1> QED BY <1>1, Inductive, PTL

\* After every step the entries are what reconcile says: one per workspace, bound to a
\* window that shows it and on its host; none without a window but pinned ones; none
\* missing.
THEOREM EntriesMatchWindowsHolds == Spec => []EntriesMatchWindows
<1>1. ASSUME IInv
      PROVE  EntriesMatchWindows
  <2> DEFINE es == bar.entries
  <2>1. Tidy(es) /\ Matches(es, windows) /\ NoWindow \notin DOMAIN windows
    BY <1>1, CurrentIs, ConstantsAssumption DEF IInv, Sound, WindowsOK, WindowId
  <2>2. \A i, j \in DOMAIN es : es[i].id = es[j].id => i = j
    BY <2>1 DEF Tidy, UniqueIds
  <2>3. ASSUME NEW i \in DOMAIN es
        PROVE  LET e == es[i]
                   shownIn == {w \in DOMAIN windows : windows[w].shows = e.id}
               IN  IF shownIn = {} THEN e.window = NoWindow /\ e.pinned
                   ELSE e.window \in shownIn /\ windows[e.window].host = e.host
    <3>1. es[i] \in Range(es)
      BY DEF Range
    <3> QED BY <2>1, <3>1 DEF Matches
  <2>4. ASSUME NEW w \in DOMAIN windows
        PROVE  windows[w].shows = NoEntry \/ Known(es, windows[w].shows)
    BY <2>1 DEF Matches, Known, Range
  <2> QED BY <2>2, <2>3, <2>4 DEF EntriesMatchWindows
<1> QED BY <1>1, Inductive, PTL

\* No change of the pinned entries goes without being persisted.
THEOREM PersistedCurrentHolds == Spec => []PersistedCurrent
<1>1. IInv => PersistedCurrent
  BY DEF IInv, Sound, PersistedCurrent
<1> QED BY <1>1, Inductive, PTL

\* The one pass of pickNextActive finds what its comment says, whatever entry closes.
THEOREM PickNextMeetsCommentHolds == Spec => []PickNextMeetsComment
<1>1. ASSUME IInv
      PROVE  PickNextMeetsComment
  <2> DEFINE es == bar.entries
  <2>1. Tidy(es)
    BY <1>1 DEF IInv, Sound
  <2> HIDE DEF es
  <2>2. ASSUME NEW closedId \in Entry \cup {NoEntry}
        PROVE  LET next == PickNextActive(es, closedId)
                   others == {i \in DOMAIN es : es[i].window # NoWindow /\ es[i].id # closedId}
                   Away(i) == IF Known(es, closedId) THEN Distance(i, IndexOf(es, closedId)) ELSE 0
               IN  IF others = {} THEN next = 0
                   ELSE /\ next \in others
                        /\ \A i \in others \ {next} :
                              \/ es[i].time < es[next].time
                              \/ es[i].time = es[next].time /\ Away(i) > Away(next)
                              \/ es[i].time = es[next].time /\ Away(i) = Away(next) /\ i > next
    BY <2>1, PickNextActiveIs
  <2> QED BY <2>2 DEF PickNextMeetsComment, es
<1> QED BY <1>1, Inductive, PTL

\* Where reorder puts an entry, for all entries the bar can hold.
LEMMA ReorderIsAsTold ==
    ASSUME NEW es, Tidy(es), NEW i \in DOMAIN es, NEW b \in DOMAIN es \cup {0},
           NEW id, id = es[i].id,
           NEW before, before = IF b = 0 THEN NoEntry ELSE es[b].id,
           NEW to, to = Reordered(es, id, before),
           NEW at, at = IndexOf(to, id),
           NEW group, group = GroupOf(es, i)
    PROVE  /\ RemoveAt(to, at) = RemoveAt(es, i)
           /\ b \in group \ {i} => to[at + 1] = es[b]
           /\ b = 0 => at = Max(group)
           /\ b \notin group \cup {0} => at = IF b < i THEN Min(group) ELSE Max(group)
<1> DEFINE lo == Min(group)
           hi == Max(group)
           t == TargetPosition(es, id, before)
           place == IF t \in {i, i + 1} THEN i ELSE IF t > i THEN t - 1 ELSE t
<1>1. Len(es) \in Nat /\ DOMAIN es = 1..Len(es) /\ UniqueIds(es)
  BY DEF Tidy
<1>2. /\ lo \in 1..i /\ hi \in i..Len(es)
      /\ \A k \in DOMAIN es : es[k].host = es[i].host <=> k \in lo..hi
  BY GroupIs
<1>3. /\ b # 0 => b \in DOMAIN es /\ before # NoEntry /\ Known(es, before) /\ IndexOf(es, before) = b
      /\ b = 0 => before = NoEntry
  <2>1. CASE b = 0
    BY <1>1, <2>1
  <2>2. CASE b # 0
    <3>1. b \in DOMAIN es /\ before = es[b].id
      BY <2>2
    <3>2. es[b] \in EntryState
      BY <3>1 DEF Tidy
    <3>3. before # NoEntry
      BY <3>1, <3>2, ConstantsAssumption DEF EntryState
    <3>4. IndexOf(es, es[b].id) = b
      BY <1>1, <3>1, IndexOfIs
    <3> QED BY <2>2, <3>1, <3>3, <3>4 DEF Known
  <2> QED BY <2>1, <2>2
<1>4. t = IF b = 0 \/ b > hi THEN hi + 1 ELSE IF b < lo THEN lo ELSE b
  <2> DEFINE o == IndexOf(es, before)
  <2>1. t = IF before = NoEntry \/ o > hi THEN hi + 1 ELSE IF o < lo THEN lo ELSE o
    <3>1. before = NoEntry \/ Known(es, before)
      BY <1>3
    <3> HIDE DEF o, lo, hi
    <3> QED BY <3>1, TargetIs DEF o, lo, hi
  <2> HIDE DEF t, lo, hi
  <2> QED BY <1>3, <2>1
<1>5. /\ Tidy(to) /\ place \in DOMAIN to /\ to[place] = es[i]
      /\ RemoveAt(to, place) = RemoveAt(es, i)
      /\ t \in DOMAIN es \ {i} => to[place + 1] = es[t]
  <2>1. before = NoEntry \/ Known(es, before)
    BY <1>3
  <2>2. t = TargetPosition(es, es[i].id, before) /\ to = Reordered(es, es[i].id, before)
    OBVIOUS
  <2> HIDE DEF t
  <2> QED BY <2>1, <2>2, ReorderedIs
<1>6. at = place
  <2>1. IndexOf(to, to[place].id) = place
    BY <1>5, IndexOfIs DEF Tidy
  <2> HIDE DEF place
  <2> QED BY <1>5, <2>1
<1>7. b # 0 => (b \in group <=> b \in lo..hi)
  BY <1>1, <1>2, <1>3 DEF GroupOf
<1> DEFINE l == lo
           h == hi
<1>8. l \in Nat /\ h \in Nat /\ l <= i /\ i <= h /\ h <= Len(es) /\ l >= 1 /\ i \in Nat /\ b \in Nat
  BY <1>1, <1>2
<1>9. t = IF b = 0 \/ b > h THEN h + 1 ELSE IF b < l THEN l ELSE b
  BY <1>4
<1>10. b # 0 => (b \in group <=> b \in l..h)
  BY <1>7
<1> HIDE DEF l, h, t
<1>11. b \in group \ {i} => b # 0
  BY <1>1 DEF GroupOf
<1>12. b \in group \ {i} => to[at + 1] = es[b]
  <2> SUFFICES ASSUME b \in group \ {i} PROVE to[at + 1] = es[b]
    OBVIOUS
  <2>1. t = b /\ b \in DOMAIN es \ {i}
    BY <1>3, <1>8, <1>9, <1>10, <1>11
  <2> QED BY <1>5, <1>6, <2>1
<1>13. b = 0 => at = h
  BY <1>6, <1>8, <1>9
<1>14. b \notin group \cup {0} => at = IF b < i THEN l ELSE h
  <2> SUFFICES ASSUME b \notin group, b # 0 PROVE at = IF b < i THEN l ELSE h
    OBVIOUS
  <2>1. b < l \/ b > h
    BY <1>8, <1>10
  <2>2. CASE b < l
    BY <1>6, <1>8, <1>9, <2>2
  <2>3. CASE b > h
    BY <1>6, <1>8, <1>9, <2>3
  <2> QED BY <2>1, <2>2, <2>3
<1>15. RemoveAt(to, at) = RemoveAt(es, i)
  BY <1>5, <1>6
<1> HIDE DEF place
<1> QED BY <1>12, <1>13, <1>14, <1>15 DEF l, h

\* In every state, reorder would put any entry where it is told to, within its host, and
\* leave the order of the others alone.
THEOREM ReorderMeetsCommentHolds == Spec => []ReorderMeetsComment
<1>1. ASSUME IInv
      PROVE  ReorderMeetsComment
  <2> DEFINE es == bar.entries
  <2>1. Tidy(es)
    BY <1>1 DEF IInv, Sound
  <2> HIDE DEF es
  <2>2. ASSUME NEW i \in DOMAIN es, NEW b \in DOMAIN es \cup {0}
        PROVE  LET id == es[i].id
                   to == Reordered(es, id, IF b = 0 THEN NoEntry ELSE es[b].id)
                   at == IndexOf(to, id)
                   group == {k \in DOMAIN es : es[k].host = es[i].host}
               IN  /\ RemoveAt(to, at) = RemoveAt(es, i)
                   /\ b \in group \ {i} => to[at + 1] = es[b]
                   /\ b = 0 => at = Max(group)
                   /\ b \notin group \cup {0} => at = IF b < i THEN Min(group) ELSE Max(group)
    <3> DEFINE id == es[i].id
               before == IF b = 0 THEN NoEntry ELSE es[b].id
               to == Reordered(es, id, before)
               at == IndexOf(to, id)
               group == {k \in DOMAIN es : es[k].host = es[i].host}
    <3>1. group = GroupOf(es, i)
      BY DEF GroupOf
    <3> HIDE DEF id, before, to, at, group
    <3>2. /\ RemoveAt(to, at) = RemoveAt(es, i)
          /\ b \in group \ {i} => to[at + 1] = es[b]
          /\ b = 0 => at = Max(group)
          /\ b \notin group \cup {0} => at = IF b < i THEN Min(group) ELSE Max(group)
      BY <2>1, <3>1, ReorderIsAsTold DEF id, before, to, at
    <3> QED BY <3>2 DEF id, before, to, at, group
  <2> QED BY <2>2 DEF ReorderMeetsComment, es
<1> QED BY <1>1, Inductive, PTL

\* "Strictly increasing: the order of activation is what matters": while the clock is
\* not set back between sessions, no entry is more recent than that of the active window.
THEOREM ActiveIsMostRecentHolds ==
    ASSUME ClockMayGoBack = FALSE
    PROVE  Spec => []ActiveIsMostRecent
<1> DEFINE TInv == IInv /\ Timely(bar, lastTime)
<1>1. Init => TInv
  BY InitIs
<1>2. TInv /\ [Next]_vars => TInv'
  BY StepAdvances DEF Advances
<1>3. ASSUME TInv
      PROVE  ActiveIsMostRecent
  <2> DEFINE es == bar.entries
             active == EntryFor(es, bar.active)
             k == IndexOf(es, active)
  <2>1. Tidy(es)
    BY <1>3 DEF IInv, Sound
  <2> SUFFICES ASSUME active # NoEntry, NEW i \in DOMAIN es
               PROVE  es[i].time <= es[k].time
    BY DEF ActiveIsMostRecent
  <2>2. bar.active # NoWindow /\ k \in DOMAIN es /\ es[k].window = bar.active
    BY <2>1, EntryForIs
  <2>3. es[k] \in Range(es) /\ es[i] \in Range(es)
    BY <2>2 DEF Range
  <2> HIDE DEF k, active
  <2>4. es[k].time = bar.activeTime /\ es[i].time <= bar.activeTime
    BY <1>3, <2>2, <2>3 DEF Timely
  <2> QED BY <2>4
<1> HIDE DEF TInv
<1> QED BY <1>1, <1>2, <1>3, PTL DEF Spec

\* No window keeps a stale bar: what getEntries returns changes only in a step that
\* schedules the event, or with a restart.
THEOREM ChangesAreReportedHolds == Spec => ChangesAreReported
<1> DEFINE Reports == bar'.reported \/ View(bar) = View(bar') \/ Restart
<1>1. IInv /\ [Next]_vars => [Reports]_vars
  BY StepAdvances DEF Advances
<1>2. Spec => [][Reports]_vars
  BY <1>1, Inductive, PTL DEF Spec
<1> QED BY <1>2, PTL DEF ChangesAreReported, View

\* An entry keeps its window for as long as that window shows it.
Keeps(es, ws, fs) ==
    \A e \in Range(es), f \in Range(fs) :
        f.id = e.id /\ e.window \in DOMAIN ws /\ ws[e.window].shows = e.id => f.window = e.window

\* Where nothing is bound, every entry comes from one with the same window.
SameWindows(es, fs) ==
    \A f \in Range(fs) : \E e \in Range(es) : f.id = e.id /\ f.window = e.window

LEMMA IdsTellApart ==
    ASSUME NEW es, Tidy(es), NEW e \in Range(es), NEW f \in Range(es), e.id = f.id
    PROVE  e = f
BY DEF Tidy, UniqueIds, Range

LEMMA SameWindowsKeep ==
    ASSUME NEW es, Tidy(es), NEW fs, SameWindows(es, fs), NEW ws
    PROVE  Keeps(es, ws, fs)
<1> SUFFICES ASSUME NEW e \in Range(es), NEW f \in Range(fs), f.id = e.id
             PROVE  f.window = e.window
  BY DEF Keeps
<1>1. PICK g \in Range(es) : f.id = g.id /\ f.window = g.window
  BY DEF SameWindows
<1> QED BY <1>1, IdsTellApart

LEMMA ReconcileKeepsWindow ==
    ASSUME NEW b, Sound(b), NEW ws, WindowsOK(ws)
    PROVE  Keeps(b.entries, ws, Reconcile(b, ws).entries)
<1> DEFINE r == Reconcile(b, ws)
<1>1. Reconciled(b, ws, r)
  BY ReconcileIs
<1> HIDE DEF r
<1>2. Tidy(b.entries) /\ b.activeTime \in 0..MaxTime
  BY DEF Sound, Bar
<1>3. \A e \in Range(b.entries) : e \in EntryState
  BY <1>2 DEF Tidy, Range
<1> SUFFICES ASSUME NEW e \in Range(b.entries), NEW f \in Range(r.entries),
                    f.id = e.id, e.window \in DOMAIN ws, ws[e.window].shows = e.id
             PROVE  f.window = e.window
  BY DEF Keeps, r
<1>4. CASE f \in {Final(o, ws, b) : o \in {o \in Range(b.entries) : Stays(o, ws)}}
  <2>1. PICK o \in Range(b.entries) : f = Final(o, ws, b)
    BY <1>4
  <2>2. o = e
    BY <1>2, <1>3, <2>1, FinalIs, IdsTellApart
  <2>3. WindowFor(e, ws) = e.window /\ e.window # NoWindow
    BY WindowForIs, ConstantsAssumption DEF WindowsOK, WindowId
  <2>4. f = Bound(e, e.window, ws, b)
    BY <2>1, <2>2, <2>3 DEF Final
  <2> QED BY <1>2, <1>3, <2>4, BoundIs
<1>5. CASE f \in {NewEntry(w, ws, b) : w \in NewWindows(b.entries, ws)}
  <2>1. PICK w \in NewWindows(b.entries, ws) : f = NewEntry(w, ws, b)
    BY <1>5
  <2>2. w \in DOMAIN ws /\ ws[w].shows # NoEntry /\ ~Known(b.entries, ws[w].shows)
    BY DEF NewWindows
  <2>3. f.id = ws[w].shows
    BY <1>2, <2>1, <2>2, NewEntryIs
  <2>4. Known(b.entries, e.id)
    BY DEF Known, Range
  <2> QED BY <2>2, <2>3, <2>4
<1> QED BY <1>1, <1>4, <1>5 DEF Reconciled

LEMMA ActivateSameWindows ==
    ASSUME NEW b, Sound(b), NEW ws, Matches(b.entries, ws), WindowsOK(ws),
           NEW w \in WindowId, NEW t \in 0..MaxTime
    PROVE  /\ SameWindows(b.entries, Activate(b, w, t).entries)
           /\ SameWindows(Activate(b, w, t).entries, b.entries)
<1> DEFINE r == Activate(b, w, t)
           es == b.entries
<1>1. Activated(b, w, t, r)
  BY ActivateIs
<1> HIDE DEF r
<1>2. Tidy(es)
  BY DEF Sound
<1>3. CASE r.entries = es
  BY <1>3 DEF SameWindows, r
<1>4. ASSUME NEW i \in DOMAIN es, r.entries = ReplaceAt(es, i, [es[i] EXCEPT !.time = t])
      PROVE  SameWindows(es, r.entries) /\ SameWindows(r.entries, es)
  <2> DEFINE x == [es[i] EXCEPT !.time = t]
  <2> HIDE DEF es
  <2>1. es[i] \in EntryState /\ es[i] \in Range(es)
    BY <1>2 DEF Tidy, Range
  <2>2. x \in EntryState /\ x.id = es[i].id /\ x.host = es[i].host /\ x.window = es[i].window
    BY <2>1 DEF EntryState
  <2>3. r.entries = ReplaceAt(es, i, x)
    BY <1>4
  <2> HIDE DEF x
  <2>4. Range(r.entries) = (Range(es) \ {es[i]}) \cup {x}
    BY <1>2, <2>2, <2>3, ReplaceKeeps
  <2> QED BY <2>1, <2>2, <2>4 DEF SameWindows
<1> QED BY <1>1, <1>3, <1>4 DEF Activated, r

LEMMA UpdateKeepsWindow ==
    ASSUME NEW b, Sound(b), NEW ws, WindowsOK(ws), NEW presented, presented \subseteq WindowId,
           lastTime \in 0..MaxTime, Update(b, ws, presented)
    PROVE  Keeps(b.entries, ws, bar'.entries)
<1> DEFINE m == Reconcile(b, ws)
<1>1. Keeps(b.entries, ws, m.entries)
  BY ReconcileKeepsWindow
<1>2. CASE bar' = m
  BY <1>1, <1>2
<1>3. CASE /\ MayActivate /\ lastTime' = NextTime
           /\ \E w \in presented : bar' = Activate(m, w, NextTime)
  <2>1. PICK w \in presented : bar' = Activate(m, w, NextTime)
    BY <1>3
  <2>2. Sound(m) /\ Matches(m.entries, ws)
    BY ReconcileIs DEF Reconciled
  <2> HIDE DEF m
  <2>3. NextTime \in 0..MaxTime
    BY <1>3, ConstantsAssumption DEF NextTime, MayActivate
  <2>4. SameWindows(m.entries, bar'.entries)
    BY <2>1, <2>2, <2>3, ActivateSameWindows
  <2> QED BY <1>1, <2>4 DEF Keeps, SameWindows
<1> QED BY <1>2, <1>3 DEF Update

LEMMA StepKeepsWindow ==
    ASSUME IInv, [Next]_vars
    PROVE  Keeps(bar.entries, windows', bar'.entries)
<1>0. Tidy(bar.entries)
  BY DEF IInv, Sound
<1>1. CASE OnDidOpenWindow
  <2> DEFINE w == lastWindow + 1
             ws == [o \in DOMAIN windows \cup {w} |->
                       IF o = w THEN [shows |-> NoEntry, host |-> Local] ELSE windows[o]]
  <2>1. WindowsOK(ws) /\ w \in WindowId
    <3>1. w \in WindowId /\ [shows |-> NoEntry, host |-> Local] \in Shown
      BY <1>1, CurrentIs DEF OnDidOpenWindow, WindowId, Shown
    <3> QED BY <3>1, CurrentIs DEF WindowsOK
  <2>2. \/ Update(Current, ws, {})
        \/ /\ MayActivate /\ windows' = ws
           /\ bar' = Reconcile(Activate(Current, w, NextTime), ws)
    BY <1>1 DEF OnDidOpenWindow
  <2> HIDE DEF ws
  <2>3. CASE Update(Current, ws, {})
    <3> DEFINE none == {}
    <3>1. none \subseteq WindowId /\ Update(Current, ws, none)
      BY <2>3
    <3> HIDE DEF none
    <3>2. Keeps(Current.entries, ws, bar'.entries) /\ windows' = ws
      BY <2>1, <3>1, CurrentIs, UpdateKeepsWindow DEF Update
    <3> QED BY <3>2, CurrentIs
  <2>4. CASE /\ MayActivate /\ windows' = ws
             /\ bar' = Reconcile(Activate(Current, w, NextTime), ws)
    <3> DEFINE m == Activate(Current, w, NextTime)
    <3>1. NextTime \in 0..MaxTime
      BY <2>4, CurrentIs DEF NextTime, MayActivate
    <3>2. SameWindows(m.entries, Current.entries) /\ Activated(Current, w, NextTime, m)
      BY <2>1, <3>1, CurrentIs, ActivateIs, ActivateSameWindows
    <3> HIDE DEF m
    <3>3. Sound(m)
      BY <3>2 DEF Activated
    <3>4. Keeps(m.entries, ws, bar'.entries)
      BY <2>1, <2>4, <3>3, ReconcileKeepsWindow DEF m
    <3> QED BY <2>4, <3>2, <3>4, CurrentIs DEF Keeps, SameWindows
  <2> QED BY <2>2, <2>3, <2>4
<1>2. CASE OnDidSignalReadyWindow
  <2>1. PICK ws \in [DOMAIN windows -> Shown] : Update(Current, ws, DOMAIN windows)
    BY <1>2 DEF OnDidSignalReadyWindow
  <2> DEFINE presented == DOMAIN windows
  <2>2. WindowsOK(ws) /\ presented \subseteq WindowId /\ Update(Current, ws, presented)
    BY <2>1, CurrentIs DEF WindowsOK
  <2> HIDE DEF presented
  <2>3. Keeps(Current.entries, ws, bar'.entries) /\ windows' = ws
    BY <2>2, CurrentIs, UpdateKeepsWindow DEF Update
  <2> QED BY <2>3, CurrentIs
<1>3. ASSUME NEW w \in WindowId, OnWillLoadWindow(w)
      PROVE  Keeps(bar.entries, windows', bar'.entries)
  <2> DEFINE m == ClearStatus(Current, w)
  <2>1. PICK s \in Shown : Update(m, [windows EXCEPT ![w] = s], {})
    BY <1>3 DEF OnWillLoadWindow
  <2> DEFINE ws == [windows EXCEPT ![w] = s]
             none == {}
  <2>2. WindowsOK(ws) /\ none \subseteq WindowId /\ Update(m, ws, none)
    BY <2>1, CurrentIs DEF WindowsOK
  <2>3. Sound(m) /\ m.entries = bar.entries
    BY CurrentIs, ClearStatusIs
  <2> HIDE DEF m, ws, none
  <2>4. Keeps(m.entries, ws, bar'.entries) /\ windows' = ws
    BY <2>2, <2>3, CurrentIs, UpdateKeepsWindow DEF Update
  <2> QED BY <2>3, <2>4
<1>4. ASSUME NEW w \in WindowId, OnDidCloseWindow(w)
      PROVE  Keeps(bar.entries, windows', bar'.entries)
  <2> DEFINE around == DOMAIN windows \ {w}
             ws == [o \in around |-> windows[o]]
             presented == PickNextWindow(w, around)
  <2>1. WindowsOK(ws) /\ around \subseteq WindowId
    BY CurrentIs DEF WindowsOK
  <2>2. presented \subseteq WindowId
    BY <2>1, PickNextWindowIs
  <2>3. Update(Current, ws, presented)
    BY <1>4 DEF OnDidCloseWindow
  <2> HIDE DEF presented, ws
  <2>4. Keeps(Current.entries, ws, bar'.entries) /\ windows' = ws
    BY <2>1, <2>2, <2>3, CurrentIs, UpdateKeepsWindow DEF Update
  <2> QED BY <2>4, CurrentIs
<1>5. ASSUME NEW w \in WindowId, SetActive(w)
      PROVE  Keeps(bar.entries, windows', bar'.entries)
  <2>1. NextTime \in 0..MaxTime
    BY <1>5, CurrentIs DEF NextTime, MayActivate, SetActive
  <2>2. SameWindows(Current.entries, bar'.entries)
    BY <1>5, <2>1, CurrentIs, ActivateSameWindows DEF SetActive
  <2> QED BY <1>0, <2>2, CurrentIs, SameWindowsKeep
<1>6. ASSUME NEW w \in WindowId, SetWindowStatus(w)
      PROVE  Keeps(bar.entries, windows', bar'.entries)
  <2>1. bar'.entries = bar.entries
    BY <1>6, CurrentIs, SetStatusIs, ClearStatusIs DEF SetWindowStatus
  <2>2. SameWindows(bar.entries, bar'.entries)
    BY <2>1 DEF SameWindows
  <2> QED BY <1>0, <2>2, SameWindowsKeep
<1>7. ASSUME NEW b, IsEdited(Current, windows, b), Edit(b)
      PROVE  Keeps(bar.entries, windows', bar'.entries)
  <2>1. SameWindows(bar.entries, bar'.entries)
    BY <1>7, CurrentIs DEF IsEdited, Edit, SameWindows
  <2> QED BY <1>0, <2>1, SameWindowsKeep
<1>8. ASSUME NEW id, Pin(id) \/ Unpin(id)
      PROVE  Keeps(bar.entries, windows', bar'.entries)
  <2>1. Known(Current.entries, id)
    BY <1>8, CurrentIs DEF Pin, Unpin
  <2> QED BY <1>7, <1>8, <2>1, CurrentIs, PinEntryIs, UnpinEntryIs DEF Pin, Unpin
<1>9. ASSUME NEW id, NEW before, Reorder(id, before)
      PROVE  Keeps(bar.entries, windows', bar'.entries)
  <2> DEFINE es == Reordered(bar.entries, id, before)
             r == OnDidChangeModel([Current EXCEPT !.entries = es], es # bar.entries)
  <2>1. Known(Current.entries, id) /\ (before = NoEntry \/ Known(Current.entries, before))
    BY <1>9, CurrentIs DEF Reorder
  <2>2. Edit(r)
    BY <1>9 DEF Reorder
  <2>3. /\ r = OnDidChangeModel([Current EXCEPT !.entries = es], es # Current.entries)
        /\ es = Reordered(Current.entries, id, before)
    BY CurrentIs
  <2> HIDE DEF es, r
  <2>4. IsEdited(Current, windows, r)
    BY <2>1, <2>3, CurrentIs, ReorderIs
  <2> QED BY <1>7, <2>2, <2>4
<1>10. CASE Restart
  BY <1>10 DEF Restart, Keeps
<1>11. CASE UNCHANGED vars
  <2>1. SameWindows(bar.entries, bar'.entries)
    BY <1>11 DEF SameWindows, vars
  <2> QED BY <1>0, <2>1, SameWindowsKeep
<1> QED BY <1>1, <1>2, <1>3, <1>4, <1>5, <1>6, <1>8, <1>9, <1>10, <1>11 DEF Next

\* "An entry keeps its window for as long as that window shows it": whatever opens,
\* closes or loads, a second window on a workspace never takes its entry over.
THEOREM KeepsWindowHolds == Spec => KeepsWindow
<1> DEFINE Kept2 == \A i \in DOMAIN bar.entries, j \in DOMAIN bar'.entries :
                LET w == bar.entries[i].window
                IN  /\ bar'.entries[j].id = bar.entries[i].id
                    /\ w \in DOMAIN windows'
                    /\ windows'[w].shows = bar.entries[i].id
                    => bar'.entries[j].window = w
<1>1. IInv /\ [Next]_vars => [Kept2]_vars
  <2> SUFFICES ASSUME IInv, [Next]_vars PROVE Kept2
    OBVIOUS
  <2>1. Keeps(bar.entries, windows', bar'.entries)
    BY StepKeepsWindow
  <2> QED BY <2>1 DEF Keeps, Range
<1>2. Spec => [][Kept2]_vars
  BY <1>1, Inductive, PTL DEF Spec
<1> QED BY <1>2, PTL DEF KeepsWindow

-----------------------------------------------------------------------------
(* Only the user moves entries                                              *)

LEMMA ActivateInPlace ==
    ASSUME NEW b, Sound(b), NEW ws, Matches(b.entries, ws), WindowsOK(ws),
           NEW w \in WindowId, NEW t \in 0..MaxTime
    PROVE  SamePlaces(b.entries, Activate(b, w, t).entries)
<1> DEFINE r == Activate(b, w, t)
           es == b.entries
<1>1. Activated(b, w, t, r)
  BY ActivateIs
<1> HIDE DEF r
<1>2. CASE r.entries = es
  BY <1>2 DEF SamePlaces, r
<1>3. ASSUME NEW i \in DOMAIN es, r.entries = ReplaceAt(es, i, [es[i] EXCEPT !.time = t])
      PROVE  SamePlaces(es, r.entries)
  <2> DEFINE x == [es[i] EXCEPT !.time = t]
  <2>1. Tidy(es) /\ es[i] \in EntryState
    BY DEF Sound, Tidy
  <2>2. x.id = es[i].id /\ x.host = es[i].host
    BY <2>1 DEF EntryState
  <2> HIDE DEF x, es
  <2> QED BY <1>3, <2>1, <2>2, ReplaceInPlace DEF x
<1> QED BY <1>1, <1>2, <1>3 DEF Activated, r

LEMMA UpdateInOrder ==
    ASSUME NEW b, Sound(b), NEW ws, WindowsOK(ws), NEW presented, presented \subseteq WindowId,
           lastTime \in 0..MaxTime, Update(b, ws, presented)
    PROVE  InOrder(b.entries, bar'.entries)
<1> DEFINE m == Reconcile(b, ws)
<1>1. Sound(m) /\ Matches(m.entries, ws) /\ InOrder(b.entries, m.entries)
  BY ReconcileIs DEF Reconciled
<1>2. CASE bar' = m
  BY <1>1, <1>2
<1>3. CASE /\ MayActivate /\ lastTime' = NextTime
           /\ \E w \in presented : bar' = Activate(m, w, NextTime)
  <2>1. PICK w \in presented : bar' = Activate(m, w, NextTime)
    BY <1>3
  <2> HIDE DEF m
  <2>2. NextTime \in 0..MaxTime
    BY <1>3, ConstantsAssumption DEF NextTime, MayActivate
  <2>3. SamePlaces(m.entries, bar'.entries)
    BY <1>1, <2>1, <2>2, ActivateInPlace
  <2> QED BY <1>1, <2>3, OrderInPlace
<1> QED BY <1>2, <1>3 DEF Update

LEMMA PinInOrder ==
    ASSUME NEW b, Sound(b), NEW ws, WindowsOK(ws), Matches(b.entries, ws),
           NEW id, Known(b.entries, id)
    PROVE  InOrder(b.entries, PinEntry(b, id).entries)
<1> DEFINE es == b.entries
           i == IndexOf(es, id)
           x == [es[i] EXCEPT !.pinned = TRUE]
<1>1. b \in Bar /\ Tidy(es) /\ i \in DOMAIN es /\ es[i] \in EntryState /\ InOrder(es, es)
  BY KnownHasIndex, OrderStays DEF Sound, Tidy
<1>2. PinEntry(b, id).entries \in {es, ReplaceAt(es, i, x)}
  BY <1>1 DEF PinEntry, OnDidChangeModel, ReplaceAt, Bar
<1>3. x.id = es[i].id /\ x.host = es[i].host
  BY <1>1 DEF EntryState
<1> HIDE DEF x, i
<1>4. InOrder(es, ReplaceAt(es, i, x))
  BY <1>1, <1>3, ReplaceInPlace, OrderInPlace
<1> QED BY <1>1, <1>2, <1>4

LEMMA UnpinInOrder ==
    ASSUME NEW b, Sound(b), NEW ws, WindowsOK(ws), Matches(b.entries, ws),
           NEW id, Known(b.entries, id)
    PROVE  InOrder(b.entries, UnpinEntry(b, id).entries)
<1> DEFINE es == b.entries
           i == IndexOf(es, id)
           x == [es[i] EXCEPT !.pinned = FALSE]
<1>1. b \in Bar /\ Tidy(es) /\ i \in DOMAIN es /\ es[i] \in EntryState /\ InOrder(es, es)
  BY KnownHasIndex, OrderStays DEF Sound, Tidy
<1>2. UnpinEntry(b, id).entries \in {es, RemoveAt(es, i), ReplaceAt(es, i, x)}
  BY <1>1 DEF UnpinEntry, OnDidChangeModel, Bar
<1>3. x.id = es[i].id /\ x.host = es[i].host
  BY <1>1 DEF EntryState
<1> HIDE DEF x, i
<1>4. InOrder(es, ReplaceAt(es, i, x)) /\ InOrder(es, RemoveAt(es, i))
  BY <1>1, <1>3, ReplaceInPlace, OrderInPlace, RemoveInOrder
<1> QED BY <1>1, <1>2, <1>4

\* The pinned entries come back in the order in which they were.
LEMMA RestartInOrder ==
    ASSUME NEW es, Tidy(es)
    PROVE  InOrder(es, Restored(Serialize(es)))
<1> DEFINE p == Serialize(es)
           fs == Restored(p)
<1>1. es \in Seq(EntryState) /\ Len(es) \in Nat /\ DOMAIN es = 1..Len(es) /\ InOrder(es, es)
  BY OrderStays DEF Tidy
<1>2. PICK f : ComesFrom(p, es, f, Len(es))
  BY <1>1, SerializeIs
<1>3. p \in Seq(Persisted) /\ fs = [i \in 1..Len(p) |-> RestoredEntry(p[i])]
  BY SerializeKeeps, RestoredIs
<1> HIDE DEF p, fs
<1>4. DOMAIN fs = 1..Len(p) /\ \A i \in 1..Len(p) : fs[i] = RestoredEntry(p[i])
  BY <1>3
<1>5. ASSUME NEW i \in 1..Len(p)
      PROVE  f[i] \in DOMAIN es /\ fs[i].id = es[f[i]].id /\ fs[i].host = es[f[i]].host
  <2>1. f[i] \in DOMAIN es /\ p[i] = Kept(es[f[i]]) /\ p[i] \in Persisted
    BY <1>1, <1>2, <1>3 DEF ComesFrom
  <2>2. es[f[i]] \in EntryState
    BY <1>1, <2>1
  <2> QED BY <1>4, <2>1, <2>2, KeptIs, RestoredEntryIs
<1>6. \A i, j \in DOMAIN fs : i < j => f[i] < f[j]
  BY <1>2, <1>4 DEF ComesFrom
<1>7. \A i \in DOMAIN fs : f[i] \in DOMAIN es /\ fs[i].id = es[f[i]].id
                                         /\ fs[i].host = es[f[i]].host
  BY <1>4, <1>5
<1>8. InOrder(es, fs)
  BY <1>1, <1>6, <1>7, OrderOfSome
<1> QED BY <1>8 DEF fs, p

LEMMA StepInOrder ==
    ASSUME IInv, [Next]_vars
    PROVE  \/ InOrder(bar.entries, bar'.entries)
           \/ \E id \in Entry, before \in Entry \cup {NoEntry} : Reorder(id, before)
<1>0. Tidy(bar.entries) /\ InOrder(bar.entries, bar.entries)
  BY OrderStays DEF IInv, Sound, Tidy
<1>1. CASE OnDidOpenWindow
  <2> DEFINE w == lastWindow + 1
             ws == [o \in DOMAIN windows \cup {w} |->
                       IF o = w THEN [shows |-> NoEntry, host |-> Local] ELSE windows[o]]
  <2>1. WindowsOK(ws) /\ w \in WindowId
    <3>1. w \in WindowId /\ [shows |-> NoEntry, host |-> Local] \in Shown
      BY <1>1, CurrentIs DEF OnDidOpenWindow, WindowId, Shown
    <3> QED BY <3>1, CurrentIs DEF WindowsOK
  <2>2. \/ Update(Current, ws, {})
        \/ MayActivate /\ bar' = Reconcile(Activate(Current, w, NextTime), ws)
    BY <1>1 DEF OnDidOpenWindow
  <2> HIDE DEF ws
  <2>3. CASE Update(Current, ws, {})
    <3> DEFINE none == {}
    <3>1. none \subseteq WindowId /\ Update(Current, ws, none)
      BY <2>3
    <3> HIDE DEF none
    <3>2. InOrder(Current.entries, bar'.entries)
      BY <2>1, <3>1, CurrentIs, UpdateInOrder
    <3> QED BY <3>2, CurrentIs
  <2>4. CASE MayActivate /\ bar' = Reconcile(Activate(Current, w, NextTime), ws)
    <3> DEFINE m == Activate(Current, w, NextTime)
    <3>1. NextTime \in 0..MaxTime
      BY <2>4, CurrentIs DEF NextTime, MayActivate
    <3>2. SamePlaces(Current.entries, m.entries) /\ Activated(Current, w, NextTime, m)
      BY <2>1, <3>1, CurrentIs, ActivateIs, ActivateInPlace
    <3> HIDE DEF m
    <3>3. Sound(m)
      BY <3>2 DEF Activated
    <3>4. InOrder(m.entries, bar'.entries)
      BY <2>1, <2>4, <3>3, ReconcileIs DEF m, Reconciled
    <3>5. InOrder(Current.entries, bar'.entries)
      BY <3>2, <3>4, OrderFromPlace
    <3> QED BY <3>5, CurrentIs
  <2> QED BY <2>2, <2>3, <2>4
<1>2. CASE OnDidSignalReadyWindow
  <2>1. PICK ws \in [DOMAIN windows -> Shown] : Update(Current, ws, DOMAIN windows)
    BY <1>2 DEF OnDidSignalReadyWindow
  <2> DEFINE presented == DOMAIN windows
  <2>2. WindowsOK(ws) /\ presented \subseteq WindowId /\ Update(Current, ws, presented)
    BY <2>1, CurrentIs DEF WindowsOK
  <2> HIDE DEF presented
  <2>3. InOrder(Current.entries, bar'.entries)
    BY <2>2, CurrentIs, UpdateInOrder
  <2> QED BY <2>3, CurrentIs
<1>3. ASSUME NEW w \in WindowId, OnWillLoadWindow(w)
      PROVE  InOrder(bar.entries, bar'.entries)
  <2> DEFINE m == ClearStatus(Current, w)
  <2>1. PICK s \in Shown : Update(m, [windows EXCEPT ![w] = s], {})
    BY <1>3 DEF OnWillLoadWindow
  <2> DEFINE ws == [windows EXCEPT ![w] = s]
             none == {}
  <2>2. WindowsOK(ws) /\ none \subseteq WindowId /\ Update(m, ws, none)
    BY <2>1, CurrentIs DEF WindowsOK
  <2>3. Sound(m) /\ m.entries = bar.entries
    BY CurrentIs, ClearStatusIs
  <2> HIDE DEF m, ws, none
  <2>4. InOrder(m.entries, bar'.entries)
    BY <2>2, <2>3, CurrentIs, UpdateInOrder
  <2> QED BY <2>3, <2>4
<1>4. ASSUME NEW w \in WindowId, OnDidCloseWindow(w)
      PROVE  InOrder(bar.entries, bar'.entries)
  <2> DEFINE around == DOMAIN windows \ {w}
             ws == [o \in around |-> windows[o]]
             presented == PickNextWindow(w, around)
  <2>1. WindowsOK(ws) /\ around \subseteq WindowId
    BY CurrentIs DEF WindowsOK
  <2>2. presented \subseteq WindowId
    BY <2>1, PickNextWindowIs
  <2>3. Update(Current, ws, presented)
    BY <1>4 DEF OnDidCloseWindow
  <2> HIDE DEF presented, ws
  <2>4. InOrder(Current.entries, bar'.entries)
    BY <2>1, <2>2, <2>3, CurrentIs, UpdateInOrder
  <2> QED BY <2>4, CurrentIs
<1>5. ASSUME NEW w \in WindowId, SetActive(w)
      PROVE  InOrder(bar.entries, bar'.entries)
  <2>1. NextTime \in 0..MaxTime
    BY <1>5, CurrentIs DEF NextTime, MayActivate, SetActive
  <2>2. SamePlaces(Current.entries, bar'.entries)
    BY <1>5, <2>1, CurrentIs, ActivateInPlace DEF SetActive
  <2> QED BY <1>0, <2>2, CurrentIs, OrderInPlace
<1>6. ASSUME NEW w \in WindowId, SetWindowStatus(w)
      PROVE  InOrder(bar.entries, bar'.entries)
  <2>1. bar'.entries = bar.entries
    BY <1>6, CurrentIs, SetStatusIs, ClearStatusIs DEF SetWindowStatus
  <2> QED BY <1>0, <2>1
<1>7. ASSUME NEW id, Pin(id) \/ Unpin(id)
      PROVE  InOrder(bar.entries, bar'.entries)
  <2>1. Known(Current.entries, id)
    BY <1>7, CurrentIs DEF Pin, Unpin
  <2>2. InOrder(Current.entries, bar'.entries)
    BY <1>7, <2>1, CurrentIs, PinInOrder, UnpinInOrder DEF Pin, Unpin, Edit
  <2> QED BY <2>2, CurrentIs
<1>8. CASE Restart
  <2>1. bar'.entries = Restored(Serialize(bar.entries))
    BY <1>8 DEF Restart, IInv, Sound
  <2> QED BY <1>0, <2>1, RestartInOrder
<1>9. CASE UNCHANGED vars
  BY <1>0, <1>9 DEF vars
<1>10. \A id \in Edited : id \in Entry
  BY ConstantsAssumption
<1> QED BY <1>1, <1>2, <1>3, <1>4, <1>5, <1>6, <1>7, <1>8, <1>9, <1>10 DEF Next

\* Entries do not move unless the user moves them: in any other step those that stay on
\* their host keep their order, and one that is new there goes behind them.
THEOREM StableOrderHolds == Spec => StableOrder
<1> DEFINE Moved == \E id \in Entry, before \in Entry \cup {NoEntry} : Reorder(id, before)
           StaysThere(e) == \E i \in DOMAIN bar.entries :
                               bar.entries[i].id = e.id /\ bar.entries[i].host = e.host
           Stable == \A i, j \in DOMAIN bar'.entries :
                        LET e == bar'.entries[i]
                            f == bar'.entries[j]
                        IN  i < j /\ e.host = f.host /\ StaysThere(f) =>
                                /\ StaysThere(e)
                                /\ IndexOf(bar.entries, e.id) < IndexOf(bar.entries, f.id)
<1>1. IInv /\ [Next]_vars => [Stable \/ Moved]_vars
  <2> SUFFICES ASSUME IInv, InOrder(bar.entries, bar'.entries) PROVE Stable
    BY StepInOrder
  <2> DEFINE es == bar.entries
             fs == bar'.entries
  <2>1. UniqueIds(es)
    BY DEF IInv, Sound, Tidy
  <2> SUFFICES ASSUME NEW i \in DOMAIN fs, NEW j \in DOMAIN fs, i < j, fs[i].host = fs[j].host,
                      NEW l \in DOMAIN es, es[l].id = fs[j].id, es[l].host = fs[j].host
               PROVE  /\ StaysThere(fs[i])
                      /\ IndexOf(es, fs[i].id) < IndexOf(es, fs[j].id)
    OBVIOUS
  <2>2. PICK k \in DOMAIN es : k < l /\ es[k].id = fs[i].id /\ es[k].host = fs[i].host
    BY DEF InOrder
  <2>3. IndexOf(es, es[k].id) = k /\ IndexOf(es, es[l].id) = l
    BY <2>1, IndexOfIs
  <2> QED BY <2>2, <2>3
<1>2. Spec => [][Stable \/ Moved]_vars
  BY <1>1, Inductive, PTL DEF Spec
<1> QED BY <1>2, PTL DEF StableOrder
=============================================================================
