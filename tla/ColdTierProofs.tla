---------------------------- MODULE ColdTierProofs ----------------------------
(***************************************************************************)
(* The safety properties of ColdTier and of LazyHeaps, for every pool,     *)
(* every set of keys and any finite number of prefetchers.  In four parts: *)
(* facts about the sequences and sets the models are built from (what is   *)
(* in a sequence after each operation, and which of them keep its elements *)
(* distinct); ColdTier's inductive invariant, with the lemma that every    *)
(* step keeps it; the properties drawn from it; and the heaps: how their   *)
(* entries compare, the invariant that every row is filed and none twice,  *)
(* with the lemma that every step keeps it, and what the heaps choose.     *)
(*                                                                         *)
(* Only the last part is about LazyHeaps' variables and constants.  The    *)
(* theorems on Spec use ColdTierAssumption alone.                          *)
(***************************************************************************)
EXTENDS LazyHeaps, FiniteSetTheorems, SequenceTheorems, NaturalsInduction, TLAPS

\* What a sequence holds is of its type, and in it at some position.
LEMMA HeldIs ==
  ASSUME NEW A, NEW s \in Seq(A)
  PROVE  /\ ToSet(s) \subseteq A
         /\ DOMAIN s = 1 .. Len(s)
         /\ Len(s) \in Nat
         /\ s = <<>> <=> ToSet(s) = {}
         /\ \A i \in 1 .. Len(s) : s[i] \in ToSet(s)
<1>1. DOMAIN s = 1 .. Len(s) /\ Len(s) \in Nat
  BY LenProperties
<1>2. \A i \in 1 .. Len(s) : s[i] \in A
  BY ElementOfSeq
<1>3. ToSet(s) = {} => s = <<>>
  <2>1. s # <<>> => 1 \in DOMAIN s
    BY <1>1, EmptySeq
  <2> QED
    BY <2>1 DEF ToSet
<1>4. s = <<>> => ToSet(s) = {}
  <2>1. s = <<>> => DOMAIN s = {}
    BY <1>1, EmptySeq
  <2> QED
    BY <2>1 DEF ToSet
<1>5. ToSet(s) \subseteq A /\ \A i \in 1 .. Len(s) : s[i] \in ToSet(s)
  BY <1>1, <1>2 DEF ToSet
<1> QED
  BY <1>1, <1>3, <1>4, <1>5

\* A finite number of positions holds a finite number of elements.
LEMMA HeldFinite ==
  ASSUME NEW A, NEW s \in Seq(A)
  PROVE  IsFiniteSet(ToSet(s)) /\ Cardinality(ToSet(s)) <= Len(s)
<1>1. DOMAIN s = 1 .. Len(s) /\ Len(s) \in Nat
  BY LenProperties
<1>2. s \in Surjection(1 .. Len(s), ToSet(s))
  <2>1. s \in [1 .. Len(s) -> ToSet(s)]
    BY HeldIs, LenProperties
  <2> QED
    BY <1>1, <2>1 DEF ToSet, Surjection
<1>3. IsFiniteSet(1 .. Len(s)) /\ Cardinality(1 .. Len(s)) = Len(s)
  <2>1. 1 \in Int /\ Len(s) \in Int
    BY <1>1
  <2>2. /\ IsFiniteSet(1 .. Len(s))
        /\ Cardinality(1 .. Len(s)) = IF 1 > Len(s) THEN 0 ELSE Len(s) - 1 + 1
    BY <2>1, FS_Interval
  <2> QED
    BY <1>1, <2>2
<1> QED
  BY <1>2, <1>3, FS_Surjection

\* A function has no more values than arguments.
LEMMA ImageIs ==
  ASSUME NEW S, IsFiniteSet(S), NEW f, S \subseteq DOMAIN f
  PROVE  /\ IsFiniteSet({f[x] : x \in S})
         /\ Cardinality({f[x] : x \in S}) <= Cardinality(S)
<1> DEFINE T == {f[x] : x \in S}
           g == [x \in S |-> f[x]]
<1>1. g \in Surjection(S, T)
  BY DEF Surjection
<1> HIDE DEF T, g
<1>2. IsFiniteSet(T) /\ Cardinality(T) <= Cardinality(S)
  BY <1>1, FS_Surjection
<1> QED
  BY <1>2 DEF T

LEMMA AppendIs ==
  ASSUME NEW A, NEW s \in Seq(A), NEW x \in A
  PROVE  /\ Append(s, x) \in Seq(A)
         /\ Append(s, x) # <<>>
         /\ ToSet(Append(s, x)) = ToSet(s) \cup {x}
         /\ IsInjective(s) /\ x \notin ToSet(s) => IsInjective(Append(s, x))
<1> DEFINE r == Append(s, x)
<1>1. /\ r \in Seq(A) /\ r # <<>> /\ Len(r) = Len(s) + 1
      /\ \A i \in 1 .. Len(s) : r[i] = s[i]
      /\ r[Len(s) + 1] = x
  BY AppendProperties
<1> HIDE DEF r
<1>2. Len(s) \in Nat /\ DOMAIN s = 1 .. Len(s) /\ DOMAIN r = 1 .. Len(s) + 1
  BY <1>1, LenProperties
<1>3. \A i \in DOMAIN r : i \in 1 .. Len(s) \/ i = Len(s) + 1
  BY <1>2
<1>4. DOMAIN s \subseteq DOMAIN r /\ Len(s) + 1 \in DOMAIN r
  BY <1>2
<1>5. ToSet(r) = ToSet(s) \cup {x}
  BY <1>1, <1>2, <1>3, <1>4 DEF ToSet
<1>6. ASSUME IsInjective(s), x \notin ToSet(s)
      PROVE  IsInjective(r)
  <2> SUFFICES ASSUME NEW i \in DOMAIN r, NEW j \in DOMAIN r, r[i] = r[j]
               PROVE  i = j
    BY DEF IsInjective
  <2>1. \A k \in 1 .. Len(s) : s[k] # x
    BY <1>2, <1>6 DEF ToSet
  <2> QED
    BY <1>1, <1>2, <1>3, <1>6, <2>1 DEF IsInjective
<1> QED
  BY <1>1, <1>5, <1>6 DEF r

LEMMA TailIs ==
  ASSUME NEW A, NEW s \in Seq(A), s # <<>>
  PROVE  /\ Head(s) \in A
         /\ Tail(s) \in Seq(A)
         /\ ToSet(s) = {Head(s)} \cup ToSet(Tail(s))
<1> DEFINE r == Tail(s)
<1>1. /\ Head(s) \in A /\ r \in Seq(A) /\ Len(r) = Len(s) - 1
      /\ \A i \in 1 .. Len(r) : r[i] = s[i + 1]
  BY HeadTailProperties
<1>2. Head(s) = s[1] /\ Len(s) \in Nat \ {0}
  BY EmptySeq, LenProperties
<1> HIDE DEF r
<1>3. DOMAIN s = 1 .. Len(s) /\ DOMAIN r = 1 .. Len(s) - 1
  BY <1>1, LenProperties
<1>4. ASSUME NEW i \in DOMAIN s
      PROVE  s[i] \in {s[1]} \cup ToSet(r)
  <2>1. i = 1 \/ (i - 1 \in DOMAIN r /\ r[i - 1] = s[i])
    BY <1>1, <1>2, <1>3, <1>4
  <2> QED
    BY <2>1 DEF ToSet
<1>5. ASSUME NEW i \in DOMAIN r
      PROVE  r[i] \in ToSet(s)
  <2>1. i + 1 \in DOMAIN s /\ r[i] = s[i + 1]
    BY <1>1, <1>2, <1>3, <1>5
  <2> QED
    BY <2>1 DEF ToSet
<1>6. s[1] \in ToSet(s)
  BY <1>2, <1>3 DEF ToSet
<1>7. ToSet(s) = {s[1]} \cup ToSet(r)
  <2>1. ToSet(s) \subseteq {s[1]} \cup ToSet(r)
    BY <1>4 DEF ToSet
  <2>2. ToSet(r) \subseteq ToSet(s)
    BY <1>5 DEF ToSet
  <2> QED
    BY <1>6, <2>1, <2>2
<1> QED
  BY <1>1, <1>2, <1>7 DEF r

LEMMA ConcatIs ==
  ASSUME NEW A, NEW s \in Seq(A), NEW r \in Seq(A)
  PROVE  /\ s \o r \in Seq(A)
         /\ ToSet(s \o r) = ToSet(s) \cup ToSet(r)
         /\ IsInjective(s) /\ IsInjective(r) /\ ToSet(s) \cap ToSet(r) = {} => IsInjective(s \o r)
<1> DEFINE c == s \o r
<1>1. /\ c \in Seq(A) /\ Len(c) = Len(s) + Len(r)
      /\ \A i \in 1 .. Len(s) + Len(r) : c[i] = IF i <= Len(s) THEN s[i] ELSE r[i - Len(s)]
  BY ConcatProperties
<1> HIDE DEF c
<1>2. /\ Len(s) \in Nat /\ Len(r) \in Nat
      /\ DOMAIN s = 1 .. Len(s) /\ DOMAIN r = 1 .. Len(r) /\ DOMAIN c = 1 .. Len(s) + Len(r)
  BY <1>1, LenProperties
<1>3. ASSUME NEW i \in DOMAIN c
      PROVE  \/ i \in DOMAIN s /\ c[i] = s[i]
             \/ i - Len(s) \in DOMAIN r /\ c[i] = r[i - Len(s)]
  BY <1>1, <1>2
<1>4. \A i \in DOMAIN s : i \in DOMAIN c /\ c[i] = s[i]
  BY <1>1, <1>2
<1>5. \A i \in DOMAIN r : i + Len(s) \in DOMAIN c /\ c[i + Len(s)] = r[i]
  BY <1>1, <1>2
<1>6. ToSet(c) = ToSet(s) \cup ToSet(r)
  <2>1. ToSet(c) \subseteq ToSet(s) \cup ToSet(r)
    BY <1>3 DEF ToSet
  <2>2. ToSet(s) \subseteq ToSet(c)
    BY <1>4 DEF ToSet
  <2>3. ToSet(r) \subseteq ToSet(c)
    BY <1>5 DEF ToSet
  <2> QED
    BY <2>1, <2>2, <2>3
<1>7. ASSUME IsInjective(s), IsInjective(r), ToSet(s) \cap ToSet(r) = {}
      PROVE  IsInjective(c)
  <2> SUFFICES ASSUME NEW i \in DOMAIN c, NEW j \in DOMAIN c, c[i] = c[j]
               PROVE  i = j
    BY DEF IsInjective
  <2>1. \A a \in DOMAIN s, b \in DOMAIN r : s[a] # r[b]
    BY <1>7 DEF ToSet
  <2>2. CASE i \in DOMAIN s /\ c[i] = s[i] /\ j \in DOMAIN s /\ c[j] = s[j]
    BY <1>7, <2>2 DEF IsInjective
  <2>3. CASE /\ i - Len(s) \in DOMAIN r /\ c[i] = r[i - Len(s)]
             /\ j - Len(s) \in DOMAIN r /\ c[j] = r[j - Len(s)]
    <3>1. i - Len(s) = j - Len(s)
      BY <1>7, <2>3 DEF IsInjective
    <3> QED
      BY <1>2, <3>1
  <2> QED
    BY <1>3, <2>1, <2>2, <2>3
<1> QED
  BY <1>1, <1>6, <1>7 DEF c

LEMMA ConsIs ==
  ASSUME NEW A, NEW s \in Seq(A), NEW x \in A
  PROVE  /\ <<x>> \o s \in Seq(A)
         /\ ToSet(<<x>> \o s) = ToSet(s) \cup {x}
<1> DEFINE one == <<x>>
<1>1. one \in Seq(A) /\ ToSet(one) = {x}
  BY DEF ToSet
<1> HIDE DEF one
<1>2. one \o s \in Seq(A) /\ ToSet(one \o s) = {x} \cup ToSet(s)
  BY <1>1, ConcatIs
<1> QED
  BY <1>2 DEF one

LEMMA FrontIs ==
  ASSUME NEW A, NEW s \in Seq(A), s # <<>>, IsInjective(s)
  PROVE  /\ Last(s) \in A
         /\ Front(s) \in Seq(A)
         /\ IsInjective(Front(s))
         /\ Last(s) \notin ToSet(Front(s))
         /\ ToSet(s) = ToSet(Front(s)) \cup {Last(s)}
<1> DEFINE r == Front(s)
           n == Len(s)
<1>1. n \in Nat \ {0} /\ DOMAIN s = 1 .. n /\ \A i \in 1 .. n : s[i] \in A
  BY EmptySeq, LenProperties, ElementOfSeq
<1>2. r \in Seq(A) /\ Len(r) = n - 1 /\ \A i \in 1 .. n - 1 : r[i] = s[i]
  <2>1. 1 \in Int /\ n - 1 \in Int /\ \A i \in 1 .. n - 1 : s[i] \in A
    BY <1>1
  <2>2. /\ SubSeq(s, 1, n - 1) \in Seq(A)
        /\ Len(SubSeq(s, 1, n - 1)) = IF 1 <= n - 1 THEN n - 1 - 1 + 1 ELSE 0
        /\ \A i \in 1 .. n - 1 - 1 + 1 : SubSeq(s, 1, n - 1)[i] = s[1 + i - 1]
    BY <2>1, SubSeqProperties
  <2>3. \A i \in 1 .. n - 1 : 1 + i - 1 = i
    BY <1>1
  <2> HIDE DEF n
  <2> QED
    BY <1>1, <2>2, <2>3 DEF Front, n
<1> HIDE DEF r
<1>3. DOMAIN r = 1 .. n - 1
  BY <1>2, LenProperties
<1>4. \A i \in DOMAIN r : i \in DOMAIN s /\ r[i] = s[i] /\ i # n
  BY <1>1, <1>2, <1>3
<1>5. IsInjective(r)
  BY <1>4 DEF IsInjective
<1>6. s[n] \notin ToSet(r)
  BY <1>1, <1>4 DEF ToSet, IsInjective
<1>7. \A i \in DOMAIN s : i = n \/ (i \in DOMAIN r /\ r[i] = s[i])
  BY <1>1, <1>2, <1>3
<1>8. ToSet(s) = ToSet(r) \cup {s[n]}
  <2>1. n \in DOMAIN s
    BY <1>1
  <2> HIDE DEF n
  <2>2. ToSet(s) \subseteq ToSet(r) \cup {s[n]}
    BY <1>7 DEF ToSet
  <2>3. ToSet(r) \subseteq ToSet(s) /\ s[n] \in ToSet(s)
    BY <1>4, <2>1 DEF ToSet
  <2> QED
    BY <2>2, <2>3
<1> QED
  BY <1>1, <1>2, <1>5, <1>6, <1>8 DEF r, Last

Picks(s, S, m, p) ==
  /\ Only(s, S) = [n \in 1 .. m |-> s[p[n]]]
  /\ \A n \in 1 .. m : s[p[n]] \in S
  /\ \A i \in DOMAIN s : s[i] \in S => \E n \in 1 .. m : p[n] = i
  /\ \A n, o \in 1 .. m : n < o => p[n] < p[o]

(* Where Only finds the elements it keeps: each at its position, and in    *)
(* their order.  The rank of a position among those kept is less than      *)
(* their number, and no two have the same: every rank is taken.            *)
LEMMA OnlyPicks ==
  ASSUME NEW A, NEW s \in Seq(A), NEW S
  PROVE  \E m \in Nat : \E p \in [1 .. m -> DOMAIN s] : Picks(s, S, m, p)
<1> DEFINE at == {i \in DOMAIN s : s[i] \in S}
           m == Cardinality(at)
           before(i) == {j \in at : j < i}
           rank == [i \in at |-> Cardinality(before(i))]
           pos(n) == CHOOSE i \in at : Cardinality(before(i)) = n - 1
           p == [n \in 1 .. m |-> pos(n)]
<1>1. Only(s, S) = [n \in 1 .. m |-> s[pos(n)]]
  BY DEF Only
<1>2. DOMAIN s = 1 .. Len(s) /\ Len(s) \in Nat
  BY LenProperties
<1>3. IsFiniteSet(at) /\ m \in Nat
  <2>1. IsFiniteSet(1 .. Len(s)) /\ at \subseteq 1 .. Len(s)
    BY <1>2, FS_Interval
  <2> HIDE DEF at
  <2> QED
    BY <2>1, FS_Subset, FS_CardinalityType
<1>4. \A i \in at : i \in Nat
  BY <1>2
<1>5. \A i \in at : i \in DOMAIN s /\ s[i] \in S
  OBVIOUS
<1>6. \A i \in at : before(i) \subseteq at \ {i}
  BY <1>4
<1>7. \A i, k \in at : i < k => before(i) \cup {i} \subseteq before(k) /\ i \notin before(i)
  BY <1>4
<1>8. \A i \in DOMAIN s : s[i] \in S => i \in at
  OBVIOUS
<1> HIDE DEF at, before
<1>9. \A i \in at : IsFiniteSet(before(i)) /\ Cardinality(before(i)) \in 0 .. m - 1
  <2> SUFFICES ASSUME NEW i \in at
               PROVE  IsFiniteSet(before(i)) /\ Cardinality(before(i)) \in 0 .. m - 1
    OBVIOUS
  <2>1. IsFiniteSet(at \ {i}) /\ Cardinality(at \ {i}) = m - 1
    BY <1>3, FS_RemoveElement
  <2>2. IsFiniteSet(before(i)) /\ Cardinality(before(i)) <= m - 1
    BY <1>6, <2>1, FS_Subset
  <2>3. Cardinality(before(i)) \in Nat
    BY <2>2, FS_CardinalityType
  <2> HIDE DEF m
  <2> QED
    BY <1>3, <2>2, <2>3
<1>10. \A i, k \in at : i < k => Cardinality(before(i)) < Cardinality(before(k))
  <2> SUFFICES ASSUME NEW i \in at, NEW k \in at, i < k
               PROVE  Cardinality(before(i)) < Cardinality(before(k))
    OBVIOUS
  <2>1. Cardinality(before(i) \cup {i}) = Cardinality(before(i)) + 1
    BY <1>7, <1>9, FS_AddElement
  <2>2. Cardinality(before(i) \cup {i}) <= Cardinality(before(k))
    BY <1>7, <1>9, FS_Subset
  <2>3. Cardinality(before(i)) \in Nat /\ Cardinality(before(k)) \in Nat
    BY <1>9, FS_CardinalityType
  <2> QED
    BY <2>1, <2>2, <2>3
<1>11. \A i, k \in at : Cardinality(before(i)) = Cardinality(before(k)) => i = k
  <2> SUFFICES ASSUME NEW i \in at, NEW k \in at,
                      Cardinality(before(i)) = Cardinality(before(k))
               PROVE  i = k
    OBVIOUS
  <2>1. ~(i < k) /\ ~(k < i)
    BY <1>3, <1>9, <1>10
  <2> QED
    BY <1>4, <2>1
<1>12. \A n \in 0 .. m - 1 : \E i \in at : Cardinality(before(i)) = n
  <2>1. rank \in Injection(at, 0 .. m - 1)
    BY <1>9, <1>11 DEF Injection, IsInjective
  <2>2. IsFiniteSet(0 .. m - 1) /\ Cardinality(0 .. m - 1) = m
    <3> HIDE DEF m
    <3>1. 0 \in Int /\ m - 1 \in Int
      BY <1>3
    <3>2. /\ IsFiniteSet(0 .. m - 1)
          /\ Cardinality(0 .. m - 1) = IF 0 > m - 1 THEN 0 ELSE m - 1 - 0 + 1
      BY <3>1, FS_Interval
    <3> QED
      BY <1>3, <3>2
  <2> HIDE DEF rank
  <2>3. rank \in Surjection(at, 0 .. m - 1)
    BY <2>1, <2>2, FS_Injection
  <2>4. \A n \in 0 .. m - 1 : \E i \in at : rank[i] = n
    BY <2>3 DEF Surjection
  <2> QED
    BY <2>4 DEF rank
<1> HIDE DEF m
<1>13. \A n \in 1 .. m : pos(n) \in at /\ Cardinality(before(pos(n))) = n - 1
  <2> SUFFICES ASSUME NEW n \in 1 .. m
               PROVE  pos(n) \in at /\ Cardinality(before(pos(n))) = n - 1
    OBVIOUS
  <2>1. n - 1 \in 0 .. m - 1
    BY <1>3
  <2> QED
    BY <1>12, <2>1
<1>14. \A i \in at : Cardinality(before(i)) + 1 \in 1 .. m /\ pos(Cardinality(before(i)) + 1) = i
  <2> SUFFICES ASSUME NEW i \in at
               PROVE  /\ Cardinality(before(i)) + 1 \in 1 .. m
                      /\ pos(Cardinality(before(i)) + 1) = i
    OBVIOUS
  <2>1. Cardinality(before(i)) + 1 \in 1 .. m /\ Cardinality(before(i)) \in Nat
    BY <1>3, <1>9
  <2>2. /\ pos(Cardinality(before(i)) + 1) \in at
        /\ Cardinality(before(pos(Cardinality(before(i)) + 1))) = Cardinality(before(i)) + 1 - 1
    BY <1>13, <2>1
  <2>3. Cardinality(before(i)) + 1 - 1 = Cardinality(before(i))
    BY <2>1
  <2> HIDE DEF pos
  <2> QED
    BY <1>11, <2>1, <2>2, <2>3
<1> HIDE DEF pos
<1>15. \A n, o \in 1 .. m : n < o => pos(n) < pos(o)
  <2> SUFFICES ASSUME NEW n \in 1 .. m, NEW o \in 1 .. m, n < o
               PROVE  pos(n) < pos(o)
    OBVIOUS
  <2>1. pos(n) \in Nat /\ pos(o) \in Nat /\ n \in Nat /\ o \in Nat
    BY <1>3, <1>4, <1>13
  <2>2. Cardinality(before(pos(n))) < Cardinality(before(pos(o)))
    BY <1>13, <2>1
  <2>3. pos(o) # pos(n)
    BY <2>1, <2>2, <1>13
  <2>4. ~(pos(o) < pos(n))
    <3>1. pos(o) < pos(n) => Cardinality(before(pos(o))) < Cardinality(before(pos(n)))
      BY <1>10, <1>13
    <3> QED
      BY <1>13, <2>1, <2>2, <3>1
  <2> QED
    BY <2>1, <2>3, <2>4
<1>16. p \in [1 .. m -> DOMAIN s] /\ Only(s, S) = [n \in 1 .. m |-> s[p[n]]]
  BY <1>1, <1>5, <1>13
<1>17. \A n \in 1 .. m : s[p[n]] \in S
  BY <1>5, <1>13
<1>18. \A i \in DOMAIN s : s[i] \in S => \E n \in 1 .. m : p[n] = i
  BY <1>8, <1>14
<1>19. \A n, o \in 1 .. m : n < o => p[n] < p[o]
  BY <1>15
<1> HIDE DEF p
<1>20. Picks(s, S, m, p)
  BY <1>16, <1>17, <1>18, <1>19 DEF Picks
<1> QED
  BY <1>3, <1>16, <1>20

\* What Only returns.
LEMMA OnlyIs ==
  ASSUME NEW A, NEW s \in Seq(A), NEW S
  PROVE  /\ Only(s, S) \in Seq(A)
         /\ ToSet(Only(s, S)) = ToSet(s) \cap S
<1>1. PICK m \in Nat : \E p \in [1 .. m -> DOMAIN s] : Picks(s, S, m, p)
  BY OnlyPicks
<1>2. PICK p \in [1 .. m -> DOMAIN s] : Picks(s, S, m, p)
  BY <1>1
<1> USE <1>2 DEF Picks
<1> DEFINE r == [n \in 1 .. m |-> s[p[n]]]
<1>3. \A i \in DOMAIN s : s[i] \in A
  BY LenProperties, ElementOfSeq
<1>4. r \in Seq(A)
  <2>1. r \in [1 .. m -> A]
    BY <1>3
  <2> HIDE DEF r
  <2> QED
    BY <2>1, SeqDef
<1>5. ToSet(r) \subseteq ToSet(s) \cap S
  BY <1>2 DEF ToSet
<1>6. ToSet(s) \cap S \subseteq ToSet(r)
  <2> SUFFICES ASSUME NEW i \in DOMAIN s, s[i] \in S
               PROVE  s[i] \in ToSet(r)
    BY DEF ToSet
  <2>1. PICK n \in 1 .. m : p[n] = i
    BY <1>2
  <2> QED
    BY <2>1 DEF ToSet
<1> QED
  BY <1>2, <1>4, <1>5, <1>6

\* And that it keeps the order.
LEMMA OnlyInOrder ==
  ASSUME NEW A, NEW s \in Seq(A), NEW S
  PROVE  /\ \A n, o \in DOMAIN Only(s, S) : n < o =>
              \E i, j \in DOMAIN s : i < j /\ Only(s, S)[n] = s[i] /\ Only(s, S)[o] = s[j]
         /\ IsInjective(s) => IsInjective(Only(s, S))
<1>1. PICK m \in Nat : \E p \in [1 .. m -> DOMAIN s] : Picks(s, S, m, p)
  BY OnlyPicks
<1>2. PICK p \in [1 .. m -> DOMAIN s] : Picks(s, S, m, p)
  BY <1>1
<1> USE <1>2 DEF Picks
<1>3. \A i \in DOMAIN s : i \in Nat
  BY LenProperties
<1>4. ASSUME IsInjective(s)
      PROVE  IsInjective(Only(s, S))
  <2> SUFFICES ASSUME NEW n \in 1 .. m, NEW o \in 1 .. m, s[p[n]] = s[p[o]]
               PROVE  n = o
    BY <1>2 DEF IsInjective
  <2>1. p[n] = p[o]
    BY <1>4 DEF IsInjective
  <2> QED
    BY <1>2, <1>3, <2>1
<1> QED
  BY <1>2, <1>4

\* What SetToSeq returns: the elements of the set, each of them once.
LEMMA SetToSeqIs ==
  ASSUME NEW A, NEW S \in SUBSET A, IsFiniteSet(S)
  PROVE  /\ SetToSeq(S) \in Seq(A)
         /\ ToSet(SetToSeq(S)) = S
         /\ IsInjective(SetToSeq(S))
<1> DEFINE m == Cardinality(S)
           r == SetToSeq(S)
<1>1. m \in Nat /\ ExistsBijection(1 .. m, S)
  BY FS_CardinalityType
<1>2. PICK f : f \in Bijection(1 .. m, S)
  BY <1>1 DEF ExistsBijection
<1>3. f \in [1 .. m -> S] /\ IsInjective(f)
  BY <1>2 DEF Bijection, Injection, IsInjective
<1>4. r \in [1 .. m -> S] /\ IsInjective(r)
  BY <1>3 DEF SetToSeq
<1> HIDE DEF r
<1>5. r \in Injection(1 .. m, S)
  BY <1>4 DEF Injection, IsInjective
<1>6. IsFiniteSet(1 .. m) /\ Cardinality(1 .. m) = m
  <2> HIDE DEF m
  <2>1. 1 \in Int /\ m \in Int
    BY <1>1
  <2>2. IsFiniteSet(1 .. m) /\ Cardinality(1 .. m) = IF 1 > m THEN 0 ELSE m - 1 + 1
    BY <2>1, FS_Interval
  <2> QED
    BY <1>1, <2>2
<1>7. r \in Surjection(1 .. m, S)
  BY <1>5, <1>6, FS_Injection
<1>8. ToSet(r) = S
  BY <1>4, <1>7 DEF ToSet, Surjection
<1>9. r \in Seq(A)
  <2>1. r \in [1 .. m -> A]
    BY <1>4
  <2> HIDE DEF m
  <2> QED
    BY <1>1, <2>1, SeqDef
<1> QED
  BY <1>4, <1>8, <1>9 DEF r

(* A finite set of natural numbers has a greatest one: the one with the    *)
(* fewest above it.                                                        *)
LEMMA MaxIs ==
  ASSUME NEW S \in SUBSET Nat, IsFiniteSet(S), S # {}
  PROVE  Max(S) \in S /\ \A x \in S : x <= Max(S)
<1> DEFINE R == {p \in Nat \X Nat : p[1] < p[2]}
           above(a) == {b \in S : a < b}
           K == {Cardinality(above(x)) : x \in S}
<1>1. IsWellFoundedOn(R, Nat)
  BY NatLessThanWellFounded DEF OpToRel
<1>2. \A x \in S : IsFiniteSet(above(x)) /\ Cardinality(above(x)) \in Nat
  BY FS_Subset, FS_CardinalityType
<1>3. K \subseteq Nat /\ K # {}
  BY <1>2
<1>4. PICK n \in K : \A k \in K : ~(<<k, n>> \in R)
  <2> HIDE DEF R, K
  <2> QED
    BY <1>1, <1>3, WFMin
<1>5. PICK x \in S : Cardinality(above(x)) = n
  BY <1>4
<1>6. ASSUME NEW y \in S, x < y
      PROVE  FALSE
  <2>1. above(y) \subseteq above(x) \ {y} /\ y \in above(x)
    <3>1. \A z \in S : z \in Nat
      OBVIOUS
    <3>2. \A z \in S : y < z => x < z /\ z # y
      BY <1>6, <3>1
    <3>3. y \in above(x)
      BY <1>6
    <3>4. \A z \in above(y) : z \in S /\ y < z
      OBVIOUS
    <3>5. \A z \in above(y) : z \in above(x)
      BY <3>2, <3>4
    <3> HIDE DEF R, K, above
    <3> QED
      BY <3>2, <3>3, <3>4, <3>5
  <2> HIDE DEF above
  <2>2. IsFiniteSet(above(x) \ {y}) /\ Cardinality(above(x) \ {y}) = n - 1
    BY <1>2, <1>5, <2>1, FS_RemoveElement
  <2>3. Cardinality(above(y)) <= n - 1
    BY <2>1, <2>2, FS_Subset
  <2>4. Cardinality(above(y)) \in K /\ Cardinality(above(y)) \in Nat /\ n \in Nat
    BY <1>2, <1>3, <1>4
  <2>5. <<Cardinality(above(y)), n>> \in R
    BY <2>3, <2>4
  <2> QED
    BY <1>4, <2>4, <2>5
<1>7. \A y \in S : x >= y
  BY <1>6
<1>8. Max(S) \in S /\ \A y \in S : Max(S) >= y
  BY <1>7 DEF Max
<1> QED
  BY <1>8

-----------------------------------------------------------------------------
Fills == [key : Keys, slot : Slots]
Events == [key : Keys, ev : Nat]

Phases == {"idle", "plan", "claim", "blocked", "fences", "submit", "unsubmit", "drain",
           "waits", "refetch", "using", "fencing"}

Calls == [pc : Phases, calls : Nat, keys : SUBSET Keys, todo : Seq(Keys),
          resolved : [Keys -> Slots \cup {NoSlot}], batch : Seq(Fills), flight : SUBSET Fills,
          waits : Seq(Events), ev : Nat, sync : Nat, failed : BOOLEAN, nested : BOOLEAN]

TypeOK ==
  /\ slotOf \in [Keys -> Slots \cup {NoSlot}]
  /\ keyOf \in [Slots -> Keys \cup {NoKey}]
  /\ free \in Seq(Slots)
  /\ reserved \in SUBSET Slots
  /\ pending \in Seq(Events)
  /\ window \in SUBSET Slots
  /\ reclaimable \in SUBSET Keys
  /\ gen \in [Slots -> Nat]
  /\ fence \in [Slots -> Nat]
  /\ lock \in Threads \cup {NoThread}
  /\ local \in [Threads -> Calls]
  /\ bytes \in [Slots -> Keys \cup {NoKey}]
  /\ copies \in [queued : Nat, done : Nat,
                 reading : SUBSET [at : Nat, slot : Slots, key : Keys]]

\* Who plans has the lock, and nobody else.
Locked == \A t \in Threads : lock = t <=> local[t].pc \in {"plan", "claim"}

(* The open batches, the reserved slots and the pending keys are the same  *)
(* fills, and no two of them share a key or a slot.                        *)
Filling ==
  /\ \A t, u \in Threads : \A f \in Batch(t), g \in Batch(u) :
       f.key = g.key \/ f.slot = g.slot => t = u /\ f = g
  /\ \A t \in Threads : \A f \in Batch(t) :
       ~Resident(f.key) /\ f.slot \in reserved /\ Pending(f.key)
  /\ \A s \in reserved : \E t \in Threads : \E f \in Batch(t) : f.slot = s
  /\ \A k \in Keys : Pending(k) => \E t \in Threads : \E f \in Batch(t) : f.key = k

\* What a call's locals are in each of its phases.
PhaseOf(t) ==
  LET c == local[t] IN
  /\ c.pc = "idle" => c.keys = {} /\ c.resolved = Nowhere
  /\ c.pc # "idle" => c.keys # {}
  /\ c.pc \in {"idle", "waits", "refetch", "using", "fencing"} => Batch(t) = {}
  /\ c.pc = "fences" => Batch(t) # {}
  /\ c.pc \notin {"unsubmit", "drain"} => ~c.failed
  /\ c.pc = "unsubmit" => c.failed
  /\ c.pc \in {"unsubmit", "drain"} => c.flight \subseteq Batch(t)
  /\ c.pc = "drain" /\ ~c.failed => c.flight = Batch(t)
  /\ c.pc \in {"claim", "blocked"} => c.todo # <<>>
  /\ c.pc \notin {"plan", "claim", "blocked", "refetch"} => c.todo = <<>>
  /\ c.pc \in {"using", "fencing"} => c.waits = <<>>
  /\ c.pc \in {"claim", "blocked", "waits", "refetch", "using", "fencing"} => t = Demand

InPhase == \A t \in Threads : PhaseOf(t)

\* The keys a call works on are those it was asked for, and fit the pool.
AskedOf(t) ==
  LET c == local[t] IN
  /\ IsFiniteSet(c.keys) /\ Cardinality(c.keys) <= HotRows
  /\ ToSet(c.todo) \subseteq c.keys
  /\ \A w \in ToSet(c.waits) : w.key \in c.keys
  /\ \A k \in Keys : c.resolved[k] # NoSlot => k \in c.keys

Asked == \A t \in Threads : AskedOf(t)

\* A row the demand call has resolved and is not filling is in its place.
RowsHeld ==
  LET d == local[Demand] IN
  \A k \in Keys :
    d.resolved[k] # NoSlot /\ ~d.failed /\ (\A f \in Batch(Demand) : f.key # k)
      => slotOf[k] = d.resolved[k] /\ slotOf[k] \in window

\* What it is filling, it has resolved, and the window has it.
OwnFills == \A f \in Batch(Demand) : local[Demand].resolved[f.key] = f.slot /\ f.slot \in window

\* The window has nothing else.
WindowIsOwn ==
  local[Demand].pc # "idle" => \A s \in window : \E k \in Keys : local[Demand].resolved[k] = s

\* Every key asked for is resolved, or still to plan, or awaited.
KeysAccounted ==
  LET d == local[Demand] IN
  ~d.failed => \A k \in d.keys : \/ d.resolved[k] # NoSlot
                                 \/ k \in ToSet(d.todo)
                                 \/ \E w \in ToSet(d.waits) : w.key = k

\* What a blocked call wants a row for is not resolved.
WantsRow ==
  local[Demand].pc \in {"claim", "blocked"} =>
    local[Demand].resolved[Head(local[Demand].todo)] = NoSlot

Protected == RowsHeld /\ OwnFills /\ WindowIsOwn /\ KeysAccounted /\ WantsRow

\* A reclaimable row is resident, and none of the demand call's.
Soft == \A k \in reclaimable : Resident(k) /\ slotOf[k] \notin window

\* Every copy outstanding is fenced, about to be fenced, or waited for.
Fenced ==
  /\ copies.done <= copies.queued
  /\ \A r \in copies.reading :
       /\ copies.done < r.at /\ r.at <= copies.queued
       /\ \A t \in Threads : r.slot \in BatchSlots(t) =>
            /\ local[t].pc \notin {"unsubmit", "drain"}
            /\ local[t].pc = "submit" => r.at <= local[t].sync
       /\ \/ r.at <= fence[r.slot]
          \/ /\ local[Demand].pc = "fencing"
             /\ \E k \in Held : local[Demand].resolved[k] = r.slot
          \/ \E t \in Threads : local[t].pc = "submit" /\ r.slot \in BatchSlots(t)

IInv ==
  /\ TypeOK
  /\ Locked
  /\ EverySlotInOnePlace
  /\ Filling
  /\ InPhase
  /\ Asked
  /\ ResidentBytesAreItsOwn
  /\ Protected
  /\ Soft
  /\ CopyReadsItsRow
  /\ Fenced

-----------------------------------------------------------------------------
(* What a batch is made of.                                                *)
LEMMA BatchIs ==
  ASSUME TypeOK, NEW t \in Threads
  PROVE  /\ local[t] \in Calls
         /\ local[t].batch \in Seq(Fills)
         /\ Batch(t) \in SUBSET Fills
         /\ IsFiniteSet(Batch(t))
         /\ BatchSlots(t) = {f.slot : f \in Batch(t)}
<1>1. local[t] \in Calls /\ local[t].batch \in Seq(Fills)
  BY DEF TypeOK, Calls
<1>2. ToSet(local[t].batch) \subseteq Fills /\ IsFiniteSet(ToSet(local[t].batch))
  BY <1>1, HeldIs, HeldFinite
<1> QED
  BY <1>1, <1>2 DEF Batch, BatchSlots, ToSet

\* A key is pending as some event.
LEMMA PendingEvent ==
  ASSUME TypeOK, NEW k \in Keys, Pending(k)
  PROVE  EventOf(k) \in Nat
<1>1. DOMAIN pending = 1 .. Len(pending) /\ \A i \in 1 .. Len(pending) : pending[i] \in Events
  BY LenProperties, ElementOfSeq DEF TypeOK
<1> QED
  BY <1>1 DEF Pending, EventOf, Events

\* A step that leaves a call alone leaves its phase and its keys alone.
LEMMA OthersKeep ==
  ASSUME NEW t \in Threads, local'[t] = local[t]
  PROVE  /\ Batch(t)' = Batch(t)
         /\ BatchSlots(t)' = BatchSlots(t)
         /\ PhaseOf(t)' <=> PhaseOf(t)
         /\ AskedOf(t)' <=> AskedOf(t)
BY DEF Batch, BatchSlots, PhaseOf, AskedOf, Nowhere

\* No batch changes, and no row becomes resident.
LEMMA FillingFrame ==
  ASSUME TypeOK, Filling, UNCHANGED <<pending, reserved>>,
         \A t \in Threads : Batch(t)' = Batch(t),
         \A k \in Keys : Resident(k)' => Resident(k)
  PROVE  Filling'
<1>1. \A t \in Threads : \A f \in Batch(t) : f.key \in Keys
  BY BatchIs DEF Fills
<1>2. \A k : Pending(k)' <=> Pending(k)
  BY DEF Pending
<1> HIDE DEF Pending, Batch, Resident
<1> QED
  BY <1>1, <1>2 DEF Filling

(* The copies and the fences stay, and no call gets to where it waits for  *)
(* copies or has done so, or leaves it.                                    *)
LEMMA FencedFrame ==
  ASSUME Fenced, UNCHANGED <<copies, fence>>,
         \A t \in Threads :
           \/ local'[t] = local[t]
           \/ /\ local[t].pc \notin {"submit", "unsubmit", "drain", "fencing"}
              /\ local'[t].pc \notin {"submit", "unsubmit", "drain"}
  PROVE  Fenced'
<1> SUFFICES ASSUME NEW r \in copies.reading
             PROVE  /\ copies.done < r.at /\ r.at <= copies.queued
                    /\ \A t \in Threads : r.slot \in BatchSlots(t)' =>
                         /\ local'[t].pc \notin {"unsubmit", "drain"}
                         /\ local'[t].pc = "submit" => r.at <= local'[t].sync
                    /\ \/ r.at <= fence[r.slot]
                       \/ /\ local'[Demand].pc = "fencing"
                          /\ \E k \in Held' : local'[Demand].resolved[k] = r.slot
                       \/ \E t \in Threads : local'[t].pc = "submit" /\ r.slot \in BatchSlots(t)'
  BY DEF Fenced
<1>1. \A t \in Threads : local'[t] = local[t] => BatchSlots(t)' = BatchSlots(t)
  BY OthersKeep
<1>2. Demand \in Threads
  BY DEF Threads
<1>3. local'[Demand] = local[Demand] => Held' = Held
  BY DEF Held
<1> HIDE DEF BatchSlots, Held
<1> QED
  BY <1>1, <1>2, <1>3 DEF Fenced

(* A prefetcher's step that takes no row out of the window.                *)
LEMMA ProtectedFrame ==
  ASSUME TypeOK, Protected, local'[Demand] = local[Demand], UNCHANGED window,
         \A k \in Keys : slotOf[k] \in window => slotOf'[k] = slotOf[k]
  PROVE  Protected'
<1>1. Demand \in Threads
  BY DEF Threads
<1>2. Batch(Demand)' = Batch(Demand)
  BY <1>1, OthersKeep
<1> HIDE DEF Batch
<1> QED
  BY <1>2 DEF Protected, RowsHeld, OwnFills, WindowIsOwn, KeysAccounted, WantsRow

(* The demand call finds a row resident, and takes it into the window.     *)
LEMMA ProtectedHit ==
  ASSUME IInv, NEW k \in Keys, Resident(k), slotOf'[k] = slotOf[k],
         \A j \in Keys : slotOf[j] \in window => slotOf'[j] = slotOf[j],
         window' = window \cup {slotOf[k]},
         local[Demand].pc # "idle", ~local[Demand].failed,
         local'[Demand].resolved = [local[Demand].resolved EXCEPT ![k] = slotOf[k]],
         local'[Demand].failed = local[Demand].failed,
         local'[Demand].keys = local[Demand].keys,
         local'[Demand].pc \notin {"claim", "blocked"},
         Batch(Demand)' = Batch(Demand),
         \A j \in Keys : j \in ToSet(local[Demand].todo) => j = k \/ j \in ToSet(local'[Demand].todo),
         \A w \in ToSet(local[Demand].waits) : w.key = k \/ w \in ToSet(local'[Demand].waits)
  PROVE  Protected'
<1> DEFINE d == local[Demand]
           e == local'[Demand]
<1>1. Demand \in Threads /\ TypeOK /\ Protected
  BY DEF Threads, IInv
<1>2. d.resolved \in [Keys -> Slots \cup {NoSlot}] /\ d.keys \subseteq Keys
  BY <1>1 DEF TypeOK, Calls
<1>3. /\ \A j \in Keys : j # k => e.resolved[j] = d.resolved[j]
      /\ e.resolved[k] = slotOf[k] /\ slotOf[k] # NoSlot
  BY <1>2 DEF Resident
<1>4. \A f \in Batch(Demand) : f.key \in Keys /\ f.key # k
  <2>1. \A f \in Batch(Demand) : f.key \in Keys
    BY <1>1, BatchIs DEF Fills
  <2>2. \A f \in Batch(Demand) : ~Resident(f.key)
    BY <1>1 DEF IInv, Filling
  <2> HIDE DEF Batch, Resident
  <2> QED
    BY <2>1, <2>2
<1> HIDE DEF Batch, IInv
<1>5. RowsHeld'
  BY <1>1, <1>3 DEF Protected, RowsHeld
<1>6. OwnFills'
  BY <1>1, <1>3, <1>4 DEF Protected, OwnFills
<1>7. WindowIsOwn'
  <2> SUFFICES ASSUME NEW s \in window'
               PROVE  \E j \in Keys : e.resolved[j] = s
    BY DEF WindowIsOwn
  <2>1. CASE s = slotOf[k]
    BY <1>3, <2>1
  <2>2. CASE s # slotOf[k]
    <3>1. PICK j \in Keys : d.resolved[j] = s
      BY <1>1, <2>2 DEF Protected, WindowIsOwn
    <3>2. j # k \/ d.resolved[k] = s
      BY <3>1
    <3>3. CASE j # k
      BY <1>3, <3>1, <3>3
    <3>4. CASE j = k
      <4>1. d.resolved[k] # NoSlot
        <5>1. s \in Slots
          BY <1>1, <2>2 DEF TypeOK
        <5> QED
          BY <3>1, <3>4, <5>1 DEF Slots, NoSlot
      <4> QED
        BY <1>1, <1>4, <2>2, <3>1, <3>4, <4>1 DEF Protected, RowsHeld
    <3> QED
      BY <3>3, <3>4
  <2> QED
    BY <2>1, <2>2
<1>8. KeysAccounted'
  BY <1>1, <1>2, <1>3 DEF Protected, KeysAccounted
<1>9. WantsRow'
  BY DEF WantsRow
<1> QED
  BY <1>5, <1>6, <1>7, <1>8, <1>9 DEF Protected

-----------------------------------------------------------------------------
LEMMA PlanHitKeeps ==
  ASSUME IInv, NEW t \in Threads, PlanHit(t)
  PROVE  IInv'
<1> USE DEF IInv, tierVars
<1> DEFINE k == Head(local[t].todo)
<1>1. /\ lock = t /\ local[t].pc = "plan" /\ local[t].todo # <<>> /\ Resident(k)
      /\ UNCHANGED <<slotOf, keyOf, free, reserved, pending, gen, fence, lock, bytes, copies>>
      /\ reclaimable' = reclaimable \ {k}
      /\ window' = IF t = Demand THEN window \cup {slotOf[k]} ELSE window
  BY DEF PlanHit, Planning, Hit
<1>2. /\ k \in Keys /\ Tail(local[t].todo) \in Seq(Keys)
      /\ ToSet(local[t].todo) = {k} \cup ToSet(Tail(local[t].todo))
  <2>1. local[t].todo \in Seq(Keys)
    BY DEF TypeOK, Calls
  <2> QED
    BY <1>1, <2>1, TailIs
<1>3. slotOf[k] \in Slots
  BY <1>1, <1>2 DEF TypeOK, Resident
<1>4. /\ \A u \in Threads : u # t => local'[u] = local[u]
      /\ local'[t] = [local[t] EXCEPT !.pc = "plan", !.todo = Tail(@),
                                      !.resolved = [@ EXCEPT ![k] = slotOf[k]]]
  BY DEF PlanHit, Hit, TypeOK
<1> HIDE DEF k
<1>5. TypeOK'
  <2>1. local'[t] \in Calls
    <3>1. local[t] \in Calls
      BY DEF TypeOK
    <3>2. "plan" \in Phases
      BY DEF Phases
    <3> HIDE DEF IInv
    <3>3. [local[t].resolved EXCEPT ![k] = slotOf[k]] \in [Keys -> Slots \cup {NoSlot}]
      BY <1>2, <1>3, <3>1 DEF Calls
    <3> QED
      BY <1>2, <1>4, <3>1, <3>2, <3>3 DEF Calls
  <2>2. local' \in [Threads -> Calls]
    BY <1>4, <2>1 DEF TypeOK, PlanHit, Hit
  <2> QED
    BY <1>1, <1>3, <2>2 DEF TypeOK
<1>6. /\ local'[t].pc = "plan" /\ local'[t].todo = Tail(local[t].todo)
      /\ local'[t].resolved = [local[t].resolved EXCEPT ![k] = slotOf[k]]
      /\ local'[t].keys = local[t].keys /\ local'[t].batch = local[t].batch
      /\ local'[t].flight = local[t].flight /\ local'[t].waits = local[t].waits
      /\ local'[t].failed = local[t].failed /\ local'[t].sync = local[t].sync
  BY <1>4 DEF TypeOK, Calls
<1>7. \A u \in Threads : Batch(u)' = Batch(u)
  <2> SUFFICES ASSUME NEW u \in Threads
               PROVE  Batch(u)' = Batch(u)
    OBVIOUS
  <2>1. CASE u = t
    BY <1>6, <2>1 DEF Batch
  <2>2. CASE u # t
    BY <1>4, <2>2, OthersKeep
  <2> QED
    BY <2>1, <2>2
<1>8. \A u \in Threads : u # t => PhaseOf(u)' /\ AskedOf(u)'
  BY <1>4, OthersKeep DEF InPhase, Asked
<1>9. Locked' /\ EverySlotInOnePlace'
  BY <1>1, <1>4, <1>6 DEF Locked, EverySlotInOnePlace, Resident
<1>10. Filling'
  BY <1>1, <1>7, FillingFrame DEF Resident
<1>11. InPhase'
  <2>1. PhaseOf(t)'
    BY <1>1, <1>6, <1>7 DEF InPhase, PhaseOf
  <2> QED
    BY <1>8, <2>1 DEF InPhase
<1>12. Asked'
  <2>1. local[t].resolved \in [Keys -> Slots \cup {NoSlot}]
    BY DEF TypeOK, Calls
  <2>2. AskedOf(t)'
    BY <1>2, <1>6, <2>1 DEF Asked, AskedOf
  <2> QED
    BY <1>8, <2>2 DEF Asked
<1>13. ResidentBytesAreItsOwn' /\ CopyReadsItsRow'
  BY <1>1 DEF ResidentBytesAreItsOwn, CopyReadsItsRow
<1>14. Protected'
  <2>1. CASE t # Demand
    <3>1. local'[Demand] = local[Demand]
      BY <1>4, <2>1 DEF Threads
    <3> QED
      BY <1>1, <2>1, <3>1, ProtectedFrame
  <2>2. CASE t = Demand
    <3>1. \A j \in Keys : j \in ToSet(local[t].todo) => j = k \/ j \in ToSet(local'[t].todo)
      BY <1>2, <1>6
    <3> QED
      BY <1>1, <1>2, <1>6, <1>7, <2>2, <3>1, ProtectedHit DEF InPhase, PhaseOf
  <2> QED
    BY <2>1, <2>2
<1>15. Soft'
  BY <1>1, <1>2 DEF Soft, Resident, EverySlotInOnePlace, TypeOK
<1>16. Fenced'
  <2>1. \A u \in Threads : \/ local'[u] = local[u]
                           \/ /\ local[u].pc \notin {"submit", "unsubmit", "drain", "fencing"}
                              /\ local'[u].pc \notin {"submit", "unsubmit", "drain"}
    BY <1>1, <1>4, <1>6
  <2> QED
    BY <1>1, <2>1, FencedFrame
<1> QED
  BY <1>5, <1>9, <1>10, <1>11, <1>12, <1>13, <1>14, <1>15, <1>16

(* A step of a call that changes none of the tables, but for what is       *)
(* reclaimable, and no batch.                                              *)
LEMMA ControlStep ==
  ASSUME IInv, NEW t \in Threads,
         UNCHANGED <<slotOf, keyOf, free, reserved, pending, window, gen, fence, bytes, copies>>,
         reclaimable' \in SUBSET Keys,
         lock' \in Threads \cup {NoThread},
         local' \in [Threads -> Calls],
         \A u \in Threads : u # t => local'[u] = local[u],
         ToSet(local'[t].batch) = Batch(t),
         local[t].pc \notin {"submit", "unsubmit", "drain", "fencing"},
         local'[t].pc \notin {"submit", "unsubmit", "drain"}
  PROVE  /\ TypeOK' /\ EverySlotInOnePlace' /\ Filling' /\ ResidentBytesAreItsOwn'
         /\ CopyReadsItsRow' /\ Fenced'
         /\ t # Demand => Protected'
         /\ \A u \in Threads : Batch(u)' = Batch(u)
         /\ \A u \in Threads : u # t => PhaseOf(u)' /\ AskedOf(u)'
<1> USE DEF IInv
<1>1. \A u \in Threads : Batch(u)' = Batch(u)
  <2> SUFFICES ASSUME NEW u \in Threads
               PROVE  Batch(u)' = Batch(u)
    OBVIOUS
  <2>1. CASE u = t
    BY <2>1 DEF Batch
  <2>2. CASE u # t
    BY <2>2, OthersKeep
  <2> QED
    BY <2>1, <2>2
<1>2. \A u \in Threads : u # t => PhaseOf(u)' /\ AskedOf(u)'
  BY OthersKeep DEF InPhase, Asked
<1>3. TypeOK'
  BY DEF TypeOK
<1>4. EverySlotInOnePlace' /\ ResidentBytesAreItsOwn' /\ CopyReadsItsRow'
  BY DEF EverySlotInOnePlace, Resident, ResidentBytesAreItsOwn, CopyReadsItsRow
<1>5. Filling'
  BY <1>1, FillingFrame DEF Resident
<1>6. Fenced'
  <2>1. \A u \in Threads : \/ local'[u] = local[u]
                           \/ /\ local[u].pc \notin {"submit", "unsubmit", "drain", "fencing"}
                              /\ local'[u].pc \notin {"submit", "unsubmit", "drain"}
    OBVIOUS
  <2> QED
    BY <2>1, FencedFrame
<1>7. t # Demand => Protected'
  BY ProtectedFrame DEF Threads
<1> QED
  BY <1>1, <1>2, <1>3, <1>4, <1>5, <1>6, <1>7

\* A call that leaves its key to the call that is filling it.
LEMMA ElsewhereIs ==
  ASSUME IInv, NEW t \in Threads, local[t].todo # <<>>,
         Pending(Head(local[t].todo)), Elsewhere(t, Head(local[t].todo))
  PROVE  LET c == local[t]
             d == local'[t]
             k == Head(c.todo)
         IN /\ k \in Keys /\ k \in c.keys /\ ToSet(c.todo) = {k} \cup ToSet(Tail(c.todo))
            /\ d.pc = "plan" /\ d.todo = Tail(c.todo) /\ d.resolved = c.resolved
            /\ d.keys = c.keys /\ d.batch = c.batch /\ d.failed = c.failed
            /\ t # Demand => d.waits = c.waits
            /\ \A v \in ToSet(d.waits) : v \in ToSet(c.waits) \/ v.key = k
            /\ t = Demand => /\ \A v \in ToSet(c.waits) : v \in ToSet(d.waits)
                             /\ \E v \in ToSet(d.waits) : v.key = k
            /\ local' \in [Threads -> Calls]
            /\ \A u \in Threads : u # t => local'[u] = local[u]
<1> USE DEF IInv
<1> DEFINE c == local[t]
           d == local'[t]
           k == Head(c.todo)
           w == [key |-> k, ev |-> EventOf(k)]
<1>1. c \in Calls /\ d = [c EXCEPT !.pc = "plan", !.todo = Tail(@),
                                   !.waits = IF t # Demand THEN @
                                             ELSE IF c.nested THEN <<w>> \o @ ELSE Append(@, w)]
  BY DEF Elsewhere, TypeOK
<1>2. \A u \in Threads : u # t => local'[u] = local[u]
  BY DEF Elsewhere, TypeOK
<1>3. /\ k \in Keys /\ Tail(c.todo) \in Seq(Keys)
      /\ ToSet(c.todo) = {k} \cup ToSet(Tail(c.todo))
  <2>1. c.todo \in Seq(Keys)
    BY <1>1 DEF Calls
  <2> QED
    BY <2>1, TailIs
<1>4. k \in c.keys
  BY <1>3 DEF Asked, AskedOf
<1>5. w \in Events /\ w.key = k
  BY <1>3, PendingEvent DEF Events
<1> HIDE DEF w
<1>6. /\ d.waits \in Seq(Events)
      /\ t = Demand => ToSet(d.waits) = ToSet(c.waits) \cup {w}
      /\ t # Demand => d.waits = c.waits
  <2>1. c.waits \in Seq(Events)
    BY <1>1 DEF Calls
  <2>2. Append(c.waits, w) \in Seq(Events) /\ ToSet(Append(c.waits, w)) = ToSet(c.waits) \cup {w}
    BY <1>5, <2>1, AppendIs
  <2>3. <<w>> \o c.waits \in Seq(Events) /\ ToSet(<<w>> \o c.waits) = ToSet(c.waits) \cup {w}
    BY <1>5, <2>1, ConsIs
  <2> QED
    BY <1>1, <2>1, <2>2, <2>3 DEF Calls
<1>7. /\ d.pc = "plan" /\ d.todo = Tail(c.todo) /\ d.resolved = c.resolved
      /\ d.keys = c.keys /\ d.batch = c.batch /\ d.failed = c.failed
  BY <1>1 DEF Calls
<1>8. local' \in [Threads -> Calls]
  <2>1. "plan" \in Phases
    BY DEF Phases
  <2> HIDE DEF c, IInv
  <2>2. local'[t] \in Calls
    BY <1>1, <1>3, <1>6, <2>1 DEF Calls
  <2> USE DEF IInv
  <2> QED
    BY <1>2, <2>2 DEF TypeOK, Elsewhere
<1> HIDE DEF c, d, k
<1>9. /\ \A v \in ToSet(d.waits) : v \in ToSet(c.waits) \/ v.key = k
      /\ t = Demand => /\ \A v \in ToSet(c.waits) : v \in ToSet(d.waits)
                       /\ \E v \in ToSet(d.waits) : v.key = k
  BY <1>5, <1>6
<1> QED
  BY <1>2, <1>3, <1>4, <1>6, <1>7, <1>8, <1>9 DEF c, d, k

(* What it leaves true of the demand call, if its rows stay in the window. *)
LEMMA ProtectedElsewhere ==
  ASSUME IInv, local[Demand].todo # <<>>, local[Demand].pc \in {"plan", "claim"},
         Pending(Head(local[Demand].todo)), Elsewhere(Demand, Head(local[Demand].todo)),
         UNCHANGED window, Batch(Demand)' = Batch(Demand),
         \A k \in Keys : slotOf[k] \in window => slotOf'[k] = slotOf[k]
  PROVE  Protected'
<1> USE DEF IInv
<1> DEFINE c == local[Demand]
           d == local'[Demand]
           k == Head(c.todo)
<1>1. /\ k \in Keys /\ ToSet(c.todo) = {k} \cup ToSet(Tail(c.todo))
      /\ d.pc = "plan" /\ d.todo = Tail(c.todo) /\ d.resolved = c.resolved
      /\ d.keys = c.keys /\ d.failed = c.failed
      /\ \A v \in ToSet(c.waits) : v \in ToSet(d.waits)
      /\ \E v \in ToSet(d.waits) : v.key = k
  BY ElsewhereIs DEF Threads
<1> HIDE DEF Batch, k
<1>2. RowsHeld' /\ OwnFills' /\ WindowIsOwn' /\ WantsRow'
  BY <1>1 DEF Protected, RowsHeld, OwnFills, WindowIsOwn, WantsRow
<1>3. KeysAccounted'
  BY <1>1 DEF Protected, KeysAccounted
<1> QED
  BY <1>2, <1>3 DEF Protected

LEMMA PlanElsewhereKeeps ==
  ASSUME IInv, NEW t \in Threads, PlanElsewhere(t)
  PROVE  IInv'
<1> USE DEF IInv
<1> DEFINE c == local[t]
           d == local'[t]
           k == Head(c.todo)
<1>1. /\ lock = t /\ c.pc = "plan" /\ c.todo # <<>> /\ ~Resident(k) /\ Pending(k)
      /\ Elsewhere(t, k)
      /\ UNCHANGED <<slotOf, keyOf, free, reserved, pending, window, reclaimable, gen, fence,
                     lock, bytes, copies>>
  BY DEF PlanElsewhere, Planning, tierVars
<1>2. /\ k \in Keys /\ k \in c.keys /\ ToSet(c.todo) = {k} \cup ToSet(Tail(c.todo))
      /\ d.pc = "plan" /\ d.todo = Tail(c.todo) /\ d.resolved = c.resolved
      /\ d.keys = c.keys /\ d.batch = c.batch /\ d.failed = c.failed
      /\ \A v \in ToSet(d.waits) : v \in ToSet(c.waits) \/ v.key = k
      /\ local' \in [Threads -> Calls]
      /\ \A u \in Threads : u # t => local'[u] = local[u]
  BY <1>1, ElsewhereIs
<1> HIDE DEF k
<1>3. /\ TypeOK' /\ EverySlotInOnePlace' /\ Filling' /\ ResidentBytesAreItsOwn'
      /\ CopyReadsItsRow' /\ Fenced'
      /\ t # Demand => Protected'
      /\ \A u \in Threads : Batch(u)' = Batch(u)
      /\ \A u \in Threads : u # t => PhaseOf(u)' /\ AskedOf(u)'
  <2>1. reclaimable' \in SUBSET Keys /\ lock' \in Threads \cup {NoThread}
    BY <1>1 DEF TypeOK
  <2>2. ToSet(d.batch) = Batch(t)
    BY <1>2 DEF Batch
  <2> HIDE DEF IInv
  <2> QED
    BY <1>1, <1>2, <2>1, <2>2, ControlStep
<1>4. Locked'
  BY <1>1, <1>2 DEF Locked
<1>5. InPhase' /\ Asked'
  <2>1. PhaseOf(t)'
    BY <1>1, <1>2, <1>3 DEF InPhase, PhaseOf
  <2>2. AskedOf(t)'
    BY <1>2 DEF Asked, AskedOf
  <2> QED
    BY <1>3, <2>1, <2>2 DEF InPhase, Asked
<1>6. Soft'
  BY <1>1 DEF Soft, Resident
<1>7. Protected'
  <2> SUFFICES ASSUME t = Demand
               PROVE  Protected'
    BY <1>3
  <2>1. Batch(Demand)' = Batch(Demand)
    BY <1>3
  <2> HIDE DEF IInv
  <2> QED
    BY <1>1, <2>1, ProtectedElsewhere DEF k
<1> QED
  BY <1>3, <1>4, <1>5, <1>6, <1>7

LEMMA NoVictimKeeps ==
  ASSUME IInv, NEW t \in Threads, NoVictim(t)
  PROVE  IInv'
<1> USE DEF IInv
<1> DEFINE c == local[t]
           d == local'[t]
<1>1. /\ Claiming(t) /\ free = <<>> /\ Victims(t) = {}
      /\ UNCHANGED <<slotOf, keyOf, free, reserved, pending, window, reclaimable, gen, fence,
                     bytes, copies>>
      /\ lock' = IF t = Demand THEN NoThread ELSE lock
  BY DEF NoVictim, GiveUp, tierVars
<1>2. c \in Calls
  BY DEF TypeOK
<1>3. c.pc \in {"plan", "claim"} /\ lock = t
  BY <1>1 DEF Claiming, Planning
<1>4. c.todo # <<>>
  BY <1>1 DEF Claiming, Planning, InPhase, PhaseOf
<1>5. t # Demand => c.pc = "plan" /\ local' = [local EXCEPT ![t].todo = <<>>]
  BY <1>3 DEF NoVictim, GiveUp, InPhase, PhaseOf
<1>6. t = Demand =>
        /\ pending # <<>>
        /\ local' = [local EXCEPT ![t].pc = "blocked", ![t].ev = pending[1].ev]
  BY DEF NoVictim, GiveUp
<1>7. pending # <<>> => pending[1].ev \in Nat
  <2>1. pending \in Seq(Events)
    BY DEF TypeOK
  <2>2. pending # <<>> => 1 \in 1 .. Len(pending)
    BY <2>1, EmptySeq
  <2>3. pending # <<>> => pending[1] \in Events
    BY <2>1, <2>2, ElementOfSeq
  <2> QED
    BY <2>3 DEF Events
<1>8. /\ d.pc = IF t = Demand THEN "blocked" ELSE "plan"
      /\ d.todo = IF t = Demand THEN c.todo ELSE <<>>
      /\ d.resolved = c.resolved /\ d.keys = c.keys /\ d.batch = c.batch
      /\ d.failed = c.failed /\ d.waits = c.waits
      /\ d \in Calls
      /\ local' \in [Threads -> Calls]
      /\ \A u \in Threads : u # t => local'[u] = local[u]
  <2>1. "blocked" \in Phases /\ <<>> \in Seq(Keys)
    BY EmptySeq DEF Phases
  <2>2. local \in [Threads -> Calls]
    BY DEF TypeOK
  <2> HIDE DEF IInv
  <2>3. CASE t = Demand
    <3>1. d = [c EXCEPT !.pc = "blocked", !.ev = pending[1].ev]
      BY <1>6, <2>2, <2>3
    <3>2. \A u \in Threads : u # t => local'[u] = local[u]
      BY <1>6, <2>2, <2>3
    <3>3. d \in Calls
      BY <1>2, <1>6, <1>7, <2>1, <2>3, <3>1 DEF Calls
    <3>4. local' \in [Threads -> Calls]
      BY <1>6, <2>2, <2>3, <3>2, <3>3
    <3> HIDE DEF d
    <3> QED
      BY <1>2, <2>3, <3>1, <3>2, <3>3, <3>4 DEF Calls
  <2>4. CASE t # Demand
    <3>1. d = [c EXCEPT !.todo = <<>>]
      BY <1>5, <2>2, <2>4
    <3>2. \A u \in Threads : u # t => local'[u] = local[u]
      BY <1>5, <2>2, <2>4
    <3>3. d \in Calls
      BY <1>2, <2>1, <3>1 DEF Calls
    <3>4. local' \in [Threads -> Calls]
      BY <1>5, <2>2, <2>4, <3>2, <3>3
    <3> HIDE DEF d
    <3> QED
      BY <1>2, <1>5, <2>4, <3>1, <3>2, <3>3, <3>4 DEF Calls
  <2> QED
    BY <2>3, <2>4
<1> HIDE DEF d
<1>9. /\ TypeOK' /\ EverySlotInOnePlace' /\ Filling' /\ ResidentBytesAreItsOwn'
      /\ CopyReadsItsRow' /\ Fenced'
      /\ t # Demand => Protected'
      /\ \A u \in Threads : Batch(u)' = Batch(u)
      /\ \A u \in Threads : u # t => PhaseOf(u)' /\ AskedOf(u)'
  <2>1. reclaimable' \in SUBSET Keys /\ lock' \in Threads \cup {NoThread}
    BY <1>1 DEF TypeOK
  <2>2. ToSet(d.batch) = Batch(t)
    BY <1>8 DEF Batch
  <2> HIDE DEF IInv
  <2> QED
    BY <1>1, <1>3, <1>8, <2>1, <2>2, ControlStep DEF d
<1>10. Locked'
  BY <1>1, <1>3, <1>8, ColdTierAssumption DEF Locked, d
<1>11. InPhase'
  <2>1. PhaseOf(t)'
    BY <1>3, <1>4, <1>8, <1>9 DEF InPhase, PhaseOf, d
  <2> QED
    BY <1>9, <2>1 DEF InPhase
<1>12. Asked'
  <2>1. ToSet(<<>>) = {}
    BY DEF ToSet
  <2>2. AskedOf(t)'
    BY <1>8, <2>1 DEF Asked, AskedOf, d
  <2> QED
    BY <1>9, <2>2 DEF Asked
<1>13. Soft'
  BY <1>1 DEF Soft, Resident
<1>14. Protected'
  <2> SUFFICES ASSUME t = Demand
               PROVE  Protected'
    BY <1>9
  <2>1. Batch(Demand)' = Batch(Demand)
    BY <1>9
  <2>2. c.resolved[Head(c.todo)] = NoSlot
    <3>1. CASE c.pc = "claim"
      BY <3>1 DEF Protected, WantsRow
    <3>2. CASE c.pc # "claim"
      <4> DEFINE k == Head(c.todo)
      <4>1. ~Resident(k) /\ ~Pending(k)
        BY <1>1, <3>2 DEF Claiming
      <4>2. k \in Keys
        <5>1. c.todo \in Seq(Keys)
          BY <1>2 DEF Calls
        <5> QED
          BY <1>4, <5>1, TailIs
      <4>3. \A f \in Batch(Demand) : f.key # k
        BY <4>1 DEF Filling
      <4>4. ~c.failed
        BY <1>3 DEF InPhase, PhaseOf
      <4> HIDE DEF k, Batch
      <4> QED
        BY <4>1, <4>2, <4>3, <4>4 DEF Protected, RowsHeld, Resident, k
    <3> QED
      BY <3>1, <3>2
  <2> HIDE DEF Batch
  <2>3. RowsHeld' /\ OwnFills' /\ WindowIsOwn'
    BY <1>1, <1>3, <1>8, <2>1 DEF Protected, RowsHeld, OwnFills, WindowIsOwn, d
  <2>4. KeysAccounted'
    BY <1>8 DEF Protected, KeysAccounted, d
  <2>5. WantsRow'
    BY <1>8, <2>2 DEF WantsRow, d
  <2> QED
    BY <2>3, <2>4, <2>5 DEF Protected
<1> QED
  BY <1>9, <1>10, <1>11, <1>12, <1>13, <1>14

(* The call goes on from one phase to the next, or calls itself; nothing   *)
(* else changes.                                                           *)
LEMMA MoveKeeps ==
  ASSUME IInv, NEW t \in Threads,
         UNCHANGED <<slotOf, keyOf, free, reserved, pending, window, reclaimable, gen, fence,
                     bytes, copies>>,
         local' \in [Threads -> Calls],
         \A u \in Threads : u # t => local'[u] = local[u],
         local[t].pc \notin {"submit", "unsubmit", "drain", "fencing"},
         local'[t].pc \notin {"submit", "unsubmit", "drain"},
         ToSet(local'[t].batch) = Batch(t),
         local'[t].keys = local[t].keys, local'[t].resolved = local[t].resolved,
         local'[t].todo = local[t].todo, local'[t].waits = local[t].waits,
         local'[t].failed = local[t].failed,
         lock' \in Threads \cup {NoThread}, Locked',
         t = Demand => local[t].pc # "idle" /\ local'[t].pc # "idle",
         t = Demand /\ local'[t].pc \in {"claim", "blocked"} =>
           local[t].resolved[Head(local[t].todo)] = NoSlot,
         PhaseOf(t)'
  PROVE  IInv'
<1> USE DEF IInv
<1>1. /\ TypeOK' /\ EverySlotInOnePlace' /\ Filling' /\ ResidentBytesAreItsOwn'
      /\ CopyReadsItsRow' /\ Fenced'
      /\ t # Demand => Protected'
      /\ \A u \in Threads : Batch(u)' = Batch(u)
      /\ \A u \in Threads : u # t => PhaseOf(u)' /\ AskedOf(u)'
  <2>1. reclaimable' \in SUBSET Keys
    BY DEF TypeOK
  <2> HIDE DEF IInv
  <2> QED
    BY <2>1, ControlStep
<1>2. InPhase' /\ Asked'
  <2>1. AskedOf(t)'
    BY DEF Asked, AskedOf
  <2> QED
    BY <1>1, <2>1 DEF InPhase, Asked
<1>3. Soft'
  BY DEF Soft, Resident
<1>4. Protected'
  <2> SUFFICES ASSUME t = Demand
               PROVE  Protected'
    BY <1>1
  <2>1. Batch(Demand)' = Batch(Demand)
    BY <1>1
  <2> HIDE DEF Batch
  <2>2. RowsHeld' /\ OwnFills' /\ WindowIsOwn'
    BY <2>1 DEF Protected, RowsHeld, OwnFills, WindowIsOwn
  <2>3. KeysAccounted' /\ WantsRow'
    BY DEF Protected, KeysAccounted, WantsRow
  <2> QED
    BY <2>2, <2>3 DEF Protected
<1> QED
  BY <1>1, <1>2, <1>3, <1>4

LEMMA UnblockKeeps ==
  ASSUME IInv, NEW t \in Threads, Unblock(t)
  PROVE  IInv'
<1> USE DEF IInv
<1> DEFINE c == local[t]
           d == local'[t]
<1>1. /\ c.pc = "blocked" /\ lock = NoThread /\ lock' = t
      /\ UNCHANGED <<slotOf, keyOf, free, reserved, pending, window, reclaimable, gen, fence,
                     bytes, copies>>
      /\ local' = [local EXCEPT ![t].pc = "claim", ![t].ev = 0]
  BY DEF Unblock, tierVars
<1>2. c \in Calls /\ local \in [Threads -> Calls]
  BY DEF TypeOK
<1>3. /\ d.pc = "claim" /\ d.todo = c.todo /\ d.resolved = c.resolved /\ d.keys = c.keys
      /\ d.batch = c.batch /\ d.failed = c.failed /\ d.waits = c.waits
      /\ local' \in [Threads -> Calls]
      /\ \A u \in Threads : u # t => local'[u] = local[u]
  <2>1. "claim" \in Phases
    BY DEF Phases
  <2> HIDE DEF IInv
  <2> QED
    BY <1>1, <1>2, <2>1 DEF Calls
<1>4. Locked'
  BY <1>1, <1>3, ColdTierAssumption DEF Locked
<1>5. ToSet(d.batch) = Batch(t) /\ Batch(t)' = Batch(t)
  BY <1>3 DEF Batch
<1>6. PhaseOf(t)'
  BY <1>1, <1>3, <1>5 DEF InPhase, PhaseOf
<1>7. t = Demand => c.resolved[Head(c.todo)] = NoSlot
  BY <1>1 DEF Protected, WantsRow
<1> QED
  BY <1>1, <1>3, <1>4, <1>5, <1>6, <1>7, MoveKeeps

LEMMA RefetchKeeps ==
  ASSUME IInv, NEW t \in Threads, Refetch(t)
  PROVE  IInv'
<1> USE DEF IInv
<1> DEFINE c == local[t]
           d == local'[t]
<1>1. /\ c.pc = "refetch" /\ lock = NoThread /\ lock' = t
      /\ UNCHANGED <<slotOf, keyOf, free, reserved, pending, window, reclaimable, gen, fence,
                     bytes, copies>>
      /\ local' = [local EXCEPT ![t].pc = "plan", ![t].nested = TRUE]
  BY DEF Refetch, tierVars
<1>2. c \in Calls /\ local \in [Threads -> Calls]
  BY DEF TypeOK
<1>3. /\ d.pc = "plan" /\ d.todo = c.todo /\ d.resolved = c.resolved /\ d.keys = c.keys
      /\ d.batch = c.batch /\ d.failed = c.failed /\ d.waits = c.waits
      /\ local' \in [Threads -> Calls]
      /\ \A u \in Threads : u # t => local'[u] = local[u]
  <2>1. "plan" \in Phases
    BY DEF Phases
  <2> HIDE DEF IInv
  <2> QED
    BY <1>1, <1>2, <2>1 DEF Calls
<1>4. Locked'
  BY <1>1, <1>3, ColdTierAssumption DEF Locked
<1>5. ToSet(d.batch) = Batch(t) /\ Batch(t)' = Batch(t)
  BY <1>3 DEF Batch
<1>6. PhaseOf(t)'
  BY <1>1, <1>3, <1>5 DEF InPhase, PhaseOf
<1> QED
  BY <1>1, <1>3, <1>4, <1>5, <1>6, MoveKeeps

LEMMA IdleIs ==
  ASSUME NEW n \in Nat
  PROVE  /\ Idle(n) \in Calls
         /\ Idle(n).pc = "idle" /\ Idle(n).keys = {} /\ Idle(n).resolved = Nowhere
         /\ Idle(n).todo = <<>> /\ Idle(n).batch = <<>> /\ Idle(n).waits = <<>>
         /\ Idle(n).calls = n /\ ~Idle(n).failed
<1>1. /\ "idle" \in Phases /\ Nowhere \in [Keys -> Slots \cup {NoSlot}]
      /\ <<>> \in Seq(Keys) /\ <<>> \in Seq(Fills) /\ <<>> \in Seq(Events)
  BY EmptySeq DEF Phases, Nowhere
<1> HIDE DEF Nowhere
<1> QED
  BY <1>1 DEF Idle, Calls

\* What is true of the locals of a thread outside a call.
LEMMA OutsideKeeps ==
  ASSUME NEW t \in Threads, NEW n \in Nat, local'[t] = Idle(n)
  PROVE  /\ Batch(t)' = {}
         /\ PhaseOf(t)' /\ AskedOf(t)'
         /\ t = Demand => Protected'
<1>1. /\ local'[t].pc = "idle" /\ local'[t].keys = {} /\ local'[t].resolved = Nowhere
      /\ local'[t].todo = <<>> /\ local'[t].batch = <<>> /\ local'[t].waits = <<>>
      /\ ~local'[t].failed
  BY IdleIs
<1>2. ToSet(<<>>) = {}
  BY DEF ToSet
<1>3. Batch(t)' = {}
  BY <1>1, <1>2 DEF Batch
<1>4. PhaseOf(t)'
  BY <1>1, <1>3 DEF PhaseOf, Nowhere
<1>5. \A k \in Keys : Nowhere[k] = NoSlot
  BY DEF Nowhere
<1> HIDE DEF Nowhere
<1>6. AskedOf(t)'
  <2>1. IsFiniteSet({}) /\ Cardinality({}) = 0
    BY FS_EmptySet
  <2> QED
    BY <1>1, <1>2, <1>5, <2>1, ColdTierAssumption DEF AskedOf
<1>7. t = Demand => Protected'
  BY <1>1, <1>3, <1>5 DEF Protected, RowsHeld, OwnFills, WindowIsOwn, KeysAccounted, WantsRow
<1> QED
  BY <1>3, <1>4, <1>6, <1>7

\* A call ends, with nothing left to fill.
LEMMA EndKeeps ==
  ASSUME IInv, NEW t \in Threads,
         UNCHANGED <<slotOf, keyOf, free, reserved, pending, window, reclaimable, gen, fence,
                     bytes, copies>>,
         local' = [local EXCEPT ![t] = Idle(local[t].calls)],
         Batch(t) = {},
         local[t].pc \notin {"submit", "unsubmit", "drain", "fencing"},
         lock' \in Threads \cup {NoThread}, Locked'
  PROVE  IInv'
<1> USE DEF IInv
<1>1. local[t].calls \in Nat /\ local \in [Threads -> Calls]
  BY DEF TypeOK, Calls
<1>2. /\ local'[t] = Idle(local[t].calls)
      /\ \A u \in Threads : u # t => local'[u] = local[u]
      /\ local' \in [Threads -> Calls]
  BY <1>1, IdleIs
<1>3. /\ Batch(t)' = {} /\ PhaseOf(t)' /\ AskedOf(t)'
      /\ t = Demand => Protected'
  BY <1>1, <1>2, OutsideKeeps
<1>4. /\ TypeOK' /\ EverySlotInOnePlace' /\ Filling' /\ ResidentBytesAreItsOwn'
      /\ CopyReadsItsRow' /\ Fenced'
      /\ t # Demand => Protected'
      /\ \A u \in Threads : u # t => PhaseOf(u)' /\ AskedOf(u)'
  <2>1. reclaimable' \in SUBSET Keys /\ local'[t].pc = "idle"
    BY <1>1, <1>2, IdleIs DEF TypeOK
  <2>2. ToSet(local'[t].batch) = Batch(t)
    BY <1>3 DEF Batch
  <2> HIDE DEF IInv
  <2> QED
    BY <1>2, <2>1, <2>2, ControlStep
<1>5. Soft'
  BY DEF Soft, Resident
<1> QED
  BY <1>3, <1>4, <1>5 DEF InPhase, Asked

LEMMA EndPlanKeeps ==
  ASSUME IInv, NEW t \in Threads, EndPlan(t)
  PROVE  IInv'
<1> USE DEF IInv
<1> DEFINE c == local[t]
           d == local'[t]
<1>1. /\ c.pc = "plan" /\ c.todo = <<>> /\ lock = t /\ lock' = NoThread
      /\ UNCHANGED <<slotOf, keyOf, free, reserved, pending, window, reclaimable, gen, fence,
                     bytes, copies>>
  BY DEF EndPlan, tierVars
<1>2. c \in Calls /\ local \in [Threads -> Calls]
  BY DEF TypeOK
<1>3. c.batch = <<>> <=> Batch(t) = {}
  BY BatchIs, HeldIs DEF Batch
<1>4. ASSUME d.pc \notin {"plan", "claim"}, \A u \in Threads : u # t => local'[u] = local[u]
      PROVE  Locked'
  BY <1>1, <1>4, ColdTierAssumption DEF Locked
<1>5. CASE c.batch # <<>> \/ t = Demand
  <2>1. d = IF c.batch # <<>> THEN [c EXCEPT !.pc = "fences"]
                              ELSE [c EXCEPT !.pc = "waits", !.batch = <<>>]
    BY <1>2, <1>5 DEF EndPlan, Filled
  <2>2. \A u \in Threads : u # t => local'[u] = local[u]
    BY <1>2 DEF EndPlan
  <2>3. d \in Calls
    <3>1. "fences" \in Phases /\ "waits" \in Phases /\ <<>> \in Seq(Fills)
      BY EmptySeq DEF Phases
    <3> HIDE DEF d, IInv
    <3> QED
      BY <1>2, <2>1, <3>1 DEF Calls
  <2>4. local' \in [Threads -> Calls]
    BY <1>2, <2>2, <2>3 DEF EndPlan
  <2> HIDE DEF d
  <2>5. /\ d.pc = IF c.batch # <<>> THEN "fences" ELSE "waits"
        /\ d.todo = c.todo /\ d.resolved = c.resolved /\ d.keys = c.keys
        /\ d.batch = c.batch /\ d.failed = c.failed /\ d.waits = c.waits
    BY <1>2, <2>1 DEF Calls
  <2>6. ToSet(d.batch) = Batch(t) /\ Batch(t)' = Batch(t)
    BY <2>5 DEF Batch, d
  <2>7. Locked'
    BY <1>4, <2>2, <2>5 DEF d
  <2>8. PhaseOf(t)'
    BY <1>1, <1>3, <1>5, <2>5, <2>6 DEF InPhase, PhaseOf, d
  <2> HIDE DEF IInv
  <2> QED
    BY <1>1, <2>2, <2>4, <2>5, <2>6, <2>7, <2>8, MoveKeeps DEF d
<1>6. CASE c.batch = <<>> /\ t # Demand
  <2>1. local' = [local EXCEPT ![t] = Idle(c.calls)]
    BY <1>2, <1>6 DEF EndPlan, Filled
  <2>2. c.calls \in Nat
    BY <1>2 DEF Calls
  <2>3. Locked'
    <3>1. d.pc = "idle" /\ \A u \in Threads : u # t => local'[u] = local[u]
      BY <1>2, <2>1, <2>2, IdleIs
    <3> QED
      BY <1>4, <3>1
  <2> QED
    BY <1>1, <1>3, <1>6, <2>1, <2>3, EndKeeps
<1> QED
  BY <1>5, <1>6

LEMMA ReadRowsKeeps ==
  ASSUME IInv, ReadRows
  PROVE  IInv'
<1> USE DEF IInv
<1>1. /\ local[Demand].pc = "using"
      /\ UNCHANGED <<slotOf, keyOf, free, reserved, pending, window, reclaimable, gen, fence,
                     lock, bytes, copies>>
      /\ local' = [local EXCEPT ![Demand] = Idle(local[Demand].calls)]
  BY DEF ReadRows, tierVars
<1>2. Demand \in Threads /\ local[Demand].calls \in Nat /\ local \in [Threads -> Calls]
  BY DEF TypeOK, Calls, Threads
<1>3. Batch(Demand) = {}
  BY <1>1, <1>2 DEF InPhase, PhaseOf
<1>4. Locked' /\ lock' \in Threads \cup {NoThread}
  <2>1. local'[Demand].pc = "idle" /\ \A u \in Threads : u # Demand => local'[u] = local[u]
    BY <1>1, <1>2, IdleIs
  <2> QED
    BY <1>1, <2>1 DEF Locked, TypeOK
<1> QED
  BY <1>1, <1>2, <1>3, <1>4, EndKeeps

LEMMA DemoteKeeps ==
  ASSUME IInv, NEW t \in Threads, Demote(t)
  PROVE  IInv'
<1> USE DEF IInv
<1> DEFINE c == local[t]
           d == local'[t]
<1>1. /\ c.pc = "waits" /\ c.waits = <<>>
      /\ UNCHANGED <<slotOf, keyOf, free, reserved, pending, window, gen, fence, lock, bytes, copies>>
      /\ local' = [local EXCEPT ![t].pc = "using"]
  BY DEF Demote, Demoting, Reclassify
<1>2. PICK ks \in SUBSET Demotable : reclaimable' = reclaimable \cup ks
  BY DEF Demote, Demoting, Reclassify
<1>3. c \in Calls /\ local \in [Threads -> Calls]
  BY DEF TypeOK
<1>4. /\ d.pc = "using" /\ d.todo = c.todo /\ d.resolved = c.resolved /\ d.keys = c.keys
      /\ d.batch = c.batch /\ d.failed = c.failed /\ d.waits = c.waits
      /\ local' \in [Threads -> Calls]
      /\ \A u \in Threads : u # t => local'[u] = local[u]
  <2>1. "using" \in Phases
    BY DEF Phases
  <2> HIDE DEF IInv
  <2> QED
    BY <1>1, <1>3, <2>1 DEF Calls
<1>5. /\ TypeOK' /\ EverySlotInOnePlace' /\ Filling' /\ ResidentBytesAreItsOwn'
      /\ CopyReadsItsRow' /\ Fenced'
      /\ t # Demand => Protected'
      /\ \A u \in Threads : Batch(u)' = Batch(u)
      /\ \A u \in Threads : u # t => PhaseOf(u)' /\ AskedOf(u)'
  <2>1. reclaimable' \in SUBSET Keys /\ lock' \in Threads \cup {NoThread}
    BY <1>1, <1>2 DEF TypeOK, Demotable
  <2>2. ToSet(d.batch) = Batch(t)
    BY <1>4 DEF Batch
  <2> HIDE DEF IInv
  <2> QED
    BY <1>1, <1>4, <2>1, <2>2, ControlStep
<1>6. Locked'
  BY <1>1, <1>4 DEF Locked
<1>7. InPhase'
  <2>1. PhaseOf(t)'
    BY <1>1, <1>4, <1>5 DEF InPhase, PhaseOf
  <2> QED
    BY <1>5, <2>1 DEF InPhase
<1>8. Asked'
  <2>1. AskedOf(t)'
    BY <1>4 DEF Asked, AskedOf
  <2> QED
    BY <1>5, <2>1 DEF Asked
<1>9. Soft'
  BY <1>1, <1>2 DEF Soft, Resident, Demotable
<1>10. Protected'
  <2> SUFFICES ASSUME t = Demand
               PROVE  Protected'
    BY <1>5
  <2>1. Batch(Demand)' = Batch(Demand)
    BY <1>5
  <2> HIDE DEF Batch
  <2> QED
    BY <1>1, <1>4, <2>1 DEF Protected, RowsHeld, OwnFills, WindowIsOwn, KeysAccounted, WantsRow
<1> QED
  BY <1>5, <1>6, <1>7, <1>8, <1>9, <1>10

(* What the caller of an answered demand call holds is in place.           *)
LEMMA HeldInPlace ==
  ASSUME IInv, local[Demand].pc \in {"using", "fencing"}, NEW k \in Held
  PROVE  /\ k \in Keys
         /\ local[Demand].resolved[k] \in Slots
         /\ slotOf[k] = local[Demand].resolved[k]
         /\ slotOf[k] \in window
         /\ local[Demand].resolved[k] \notin reserved
         /\ bytes[local[Demand].resolved[k]] = k
<1> DEFINE d == local[Demand]
<1>1. Demand \in Threads /\ d \in Calls
  BY DEF IInv, TypeOK, Threads
<1>2. k \in Keys /\ d.resolved \in [Keys -> Slots \cup {NoSlot}]
  BY <1>1 DEF Held, Calls
<1>3. Batch(Demand) = {} /\ d.todo = <<>> /\ d.waits = <<>> /\ ~d.failed
  BY <1>1 DEF IInv, InPhase, PhaseOf
<1>4. ToSet(<<>>) = {}
  BY DEF ToSet
<1>5. d.resolved[k] # NoSlot
  BY <1>3, <1>4 DEF IInv, Protected, KeysAccounted, Held
<1>6. d.resolved[k] \in Slots
  BY <1>2, <1>5
<1>7. slotOf[k] = d.resolved[k] /\ slotOf[k] \in window
  BY <1>2, <1>3, <1>5 DEF IInv, Protected, RowsHeld
<1>8. keyOf[slotOf[k]] = k /\ k # NoKey
  BY <1>2, <1>5, <1>7, ColdTierAssumption DEF IInv, EverySlotInOnePlace, Resident
<1>9. slotOf[k] \notin reserved
  BY <1>6, <1>7, <1>8 DEF IInv, EverySlotInOnePlace
<1>10. bytes[slotOf[k]] = k
  BY <1>6, <1>7, <1>8 DEF IInv, ResidentBytesAreItsOwn
<1> QED
  BY <1>2, <1>6, <1>7, <1>9, <1>10

\* What a call fills is reserved, and no other call's.
LEMMA BatchesApart ==
  ASSUME IInv, NEW t \in Threads
  PROVE  /\ BatchSlots(t) \subseteq reserved
         /\ \A u \in Threads : u # t => BatchSlots(t) \cap BatchSlots(u) = {}
<1>1. TypeOK /\ Filling
  BY DEF IInv
<1>2. \A u \in Threads : BatchSlots(u) = {f.slot : f \in Batch(u)}
  BY <1>1, BatchIs
<1> HIDE DEF Batch, BatchSlots
<1>3. BatchSlots(t) \subseteq reserved
  BY <1>1, <1>2 DEF Filling
<1>4. \A u \in Threads : u # t => BatchSlots(t) \cap BatchSlots(u) = {}
  BY <1>1, <1>2 DEF Filling
<1> QED
  BY <1>3, <1>4

\* A step of one call that leaves the tables and the batches alone.
LEMMA TablesStay ==
  ASSUME IInv, NEW t \in Threads,
         UNCHANGED <<slotOf, keyOf, free, reserved, pending, window, reclaimable>>,
         \A u \in Threads : u # t => local'[u] = local[u],
         local'[t].batch = local[t].batch
  PROVE  /\ EverySlotInOnePlace' /\ Filling' /\ Soft'
         /\ t # Demand => Protected'
         /\ \A u \in Threads : Batch(u)' = Batch(u)
         /\ \A u \in Threads : BatchSlots(u)' = BatchSlots(u)
         /\ \A u \in Threads : u # t => PhaseOf(u)' /\ AskedOf(u)'
<1> USE DEF IInv
<1>1. \A u \in Threads : u # t => Batch(u)' = Batch(u) /\ BatchSlots(u)' = BatchSlots(u)
  BY OthersKeep
<1>2. \A u \in Threads : u # t => PhaseOf(u)' /\ AskedOf(u)'
  BY OthersKeep DEF InPhase, Asked
<1>3. /\ \A u \in Threads : Batch(u)' = Batch(u)
      /\ \A u \in Threads : BatchSlots(u)' = BatchSlots(u)
  <2>1. Batch(t)' = Batch(t) /\ BatchSlots(t)' = BatchSlots(t)
    BY DEF Batch, BatchSlots
  <2> HIDE DEF Batch, BatchSlots
  <2> QED
    BY <1>1, <2>1
<1>4. EverySlotInOnePlace' /\ Soft'
  BY DEF EverySlotInOnePlace, Resident, Soft
<1>5. Filling'
  BY <1>3, FillingFrame DEF Resident
<1>6. t # Demand => Protected'
  BY ProtectedFrame DEF Threads
<1> QED
  BY <1>1, <1>2, <1>3, <1>4, <1>5, <1>6

LEMMA QueueCopiesKeeps ==
  ASSUME IInv, QueueCopies
  PROVE  IInv'
<1> USE DEF IInv
<1> DEFINE d == local[Demand]
           e == local'[Demand]
           new == {[at |-> copies.queued + 1, slot |-> d.resolved[k], key |-> k] : k \in Held}
<1>1. /\ d.pc = "using"
      /\ UNCHANGED <<slotOf, keyOf, free, reserved, pending, window, reclaimable, gen, fence,
                     lock, bytes>>
      /\ local' = [local EXCEPT ![Demand].pc = "fencing"]
      /\ copies' = [queued |-> copies.queued + 1, done |-> copies.done,
                    reading |-> copies.reading \cup new]
  BY DEF QueueCopies, tierVars
<1>2. Demand \in Threads /\ d \in Calls /\ local \in [Threads -> Calls]
  BY DEF TypeOK, Threads
<1>3. /\ e.pc = "fencing" /\ e.todo = d.todo /\ e.resolved = d.resolved /\ e.keys = d.keys
      /\ e.batch = d.batch /\ e.failed = d.failed /\ e.waits = d.waits /\ e.sync = d.sync
      /\ local' \in [Threads -> Calls]
      /\ \A u \in Threads : u # Demand => local'[u] = local[u]
  <2>1. "fencing" \in Phases
    BY DEF Phases
  <2> HIDE DEF IInv
  <2> QED
    BY <1>1, <1>2, <2>1 DEF Calls
<1>4. Batch(Demand)' = Batch(Demand) /\ Held' = Held
  BY <1>3 DEF Batch, Held
<1>5. /\ EverySlotInOnePlace' /\ Filling' /\ Soft'
      /\ \A u \in Threads : Batch(u)' = Batch(u)
      /\ \A u \in Threads : BatchSlots(u)' = BatchSlots(u)
      /\ \A u \in Threads : u # Demand => PhaseOf(u)' /\ AskedOf(u)'
  BY <1>1, <1>2, <1>3, <1>4, TablesStay
<1>6. \A r \in new : /\ r.at = copies.queued + 1 /\ r.key \in Held
                     /\ r.slot = d.resolved[r.key]
                     /\ r \in [at : Nat, slot : Slots, key : Keys]
                     /\ bytes[r.slot] = r.key /\ r.slot \notin reserved
  <2> SUFFICES ASSUME NEW k \in Held
               PROVE  /\ k \in Keys /\ d.resolved[k] \in Slots
                      /\ bytes[d.resolved[k]] = k /\ d.resolved[k] \notin reserved
    BY DEF TypeOK
  <2> QED
    BY <1>1, HeldInPlace
<1> HIDE DEF new
<1>7. /\ copies'.queued = copies.queued + 1 /\ copies'.done = copies.done
      /\ copies'.reading = copies.reading \cup new
      /\ copies.queued \in Nat /\ copies.done \in Nat
      /\ copies.reading \in SUBSET [at : Nat, slot : Slots, key : Keys]
  BY <1>1 DEF TypeOK
<1>8. TypeOK'
  <2>1. copies' \in [queued : Nat, done : Nat, reading : SUBSET [at : Nat, slot : Slots, key : Keys]]
    <3>1. copies'.reading \in SUBSET [at : Nat, slot : Slots, key : Keys]
      BY <1>6, <1>7
    <3> HIDE DEF IInv
    <3> QED
      BY <1>1, <1>7, <3>1
  <2> QED
    BY <1>1, <1>3, <2>1 DEF TypeOK
<1>9. Locked' /\ ResidentBytesAreItsOwn'
  BY <1>1, <1>3 DEF Locked, ResidentBytesAreItsOwn
<1>10. InPhase' /\ Asked'
  <2>1. PhaseOf(Demand)'
    BY <1>1, <1>2, <1>3, <1>4 DEF InPhase, PhaseOf
  <2>2. AskedOf(Demand)'
    BY <1>2, <1>3 DEF Asked, AskedOf
  <2> QED
    BY <1>5, <2>1, <2>2 DEF InPhase, Asked
<1>11. CopyReadsItsRow'
  BY <1>1, <1>6, <1>7 DEF CopyReadsItsRow
<1>12. Protected'
  <2> HIDE DEF Batch
  <2> QED
    BY <1>1, <1>3, <1>4 DEF Protected, RowsHeld, OwnFills, WindowIsOwn, KeysAccounted, WantsRow
<1>13. Fenced'
  <2>1. copies'.done <= copies'.queued
    BY <1>7 DEF Fenced
  <2>2. \A u \in Threads : BatchSlots(u) \subseteq reserved
    BY BatchesApart
  <2> HIDE DEF BatchSlots, Held
  <2>3. ASSUME NEW r \in new
        PROVE  /\ copies'.done < r.at /\ r.at <= copies'.queued
               /\ \A u \in Threads : r.slot \notin BatchSlots(u)'
               /\ \E k \in Held' : e.resolved[k] = r.slot
    BY <1>3, <1>4, <1>5, <1>6, <1>7, <2>2 DEF Fenced
  <2>4. ASSUME NEW r \in copies.reading
        PROVE  /\ copies'.done < r.at /\ r.at <= copies'.queued
               /\ \A u \in Threads : r.slot \in BatchSlots(u)' =>
                    /\ local'[u].pc \notin {"unsubmit", "drain"}
                    /\ local'[u].pc = "submit" => r.at <= local'[u].sync
               /\ \/ r.at <= fence'[r.slot]
                  \/ \E u \in Threads : local'[u].pc = "submit" /\ r.slot \in BatchSlots(u)'
    <3>1. copies'.done < r.at /\ r.at <= copies'.queued
      BY <1>7 DEF Fenced
    <3>2. \A u \in Threads : r.slot \in BatchSlots(u)' =>
            /\ local'[u].pc \notin {"unsubmit", "drain"}
            /\ local'[u].pc = "submit" => r.at <= local'[u].sync
      BY <1>1, <1>3, <1>5 DEF Fenced
    <3>3. \/ r.at <= fence'[r.slot]
          \/ \E u \in Threads : local'[u].pc = "submit" /\ r.slot \in BatchSlots(u)'
      BY <1>1, <1>3, <1>5 DEF Fenced
    <3> QED
      BY <3>1, <3>2, <3>3
  <2>5. \A r \in copies'.reading : r \in new \/ r \in copies.reading
    BY <1>7
  <2> HIDE DEF IInv, e, d
  <2> QED
    BY <1>3, <2>1, <2>3, <2>4, <2>5 DEF Fenced, e
<1> QED
  BY <1>5, <1>8, <1>9, <1>10, <1>11, <1>12, <1>13

\* What the caller of an answered demand call holds, nobody is filling.
LEMMA HeldNotFilled ==
  ASSUME IInv, local[Demand].pc \in {"using", "fencing"}, NEW k \in Held, NEW t \in Threads
  PROVE  local[Demand].resolved[k] \notin BatchSlots(t)
<1>1. local[Demand].resolved[k] \notin reserved
  BY HeldInPlace
<1>2. BatchSlots(t) \subseteq reserved
  BY BatchesApart
<1> QED
  BY <1>1, <1>2

LEMMA FenceKeeps ==
  ASSUME IInv, Fence
  PROVE  IInv'
<1> USE DEF IInv
<1> DEFINE d == local[Demand]
           row(s) == \E k \in Held : d.resolved[k] = s
<1>1. /\ d.pc = "fencing" /\ lock = NoThread
      /\ UNCHANGED <<slotOf, keyOf, free, reserved, pending, window, reclaimable, gen,
                     lock, bytes, copies>>
      /\ fence' = [s \in Slots |-> IF row(s) THEN copies.queued ELSE fence[s]]
      /\ local' = [local EXCEPT ![Demand] = Idle(d.calls)]
  BY DEF Fence, tierVars
<1>2. Demand \in Threads /\ d.calls \in Nat /\ local \in [Threads -> Calls]
  BY DEF TypeOK, Calls, Threads
<1>3. /\ local'[Demand] = Idle(d.calls)
      /\ \A u \in Threads : u # Demand => local'[u] = local[u]
      /\ local' \in [Threads -> Calls]
  BY <1>1, <1>2, IdleIs
<1>4. /\ local'[Demand].pc = "idle" /\ local'[Demand].batch = <<>>
      /\ Batch(Demand)' = {} /\ PhaseOf(Demand)' /\ AskedOf(Demand)' /\ Protected'
  BY <1>2, <1>3, IdleIs, OutsideKeeps
<1>5. d.batch = <<>>
  <2>1. Batch(Demand) = {}
    BY <1>1, <1>2 DEF InPhase, PhaseOf
  <2> QED
    BY <1>2, <2>1, BatchIs, HeldIs DEF Batch
<1>6. /\ EverySlotInOnePlace' /\ Filling' /\ Soft'
      /\ \A u \in Threads : BatchSlots(u)' = BatchSlots(u)
      /\ \A u \in Threads : u # Demand => PhaseOf(u)' /\ AskedOf(u)'
  BY <1>1, <1>2, <1>3, <1>4, <1>5, TablesStay
<1>7. TypeOK'
  BY <1>1, <1>3 DEF TypeOK
<1>8. Locked' /\ ResidentBytesAreItsOwn' /\ CopyReadsItsRow'
  BY <1>1, <1>2, <1>3, <1>4 DEF Locked, ResidentBytesAreItsOwn, CopyReadsItsRow
<1>9. InPhase' /\ Asked'
  BY <1>4, <1>6 DEF InPhase, Asked
<1>10. Fenced'
  <2> HIDE DEF row, BatchSlots
  <2> SUFFICES ASSUME NEW r \in copies.reading
               PROVE  /\ copies.done < r.at /\ r.at <= copies.queued
                      /\ \A u \in Threads : r.slot \in BatchSlots(u) =>
                           /\ local'[u].pc \notin {"unsubmit", "drain"}
                           /\ local'[u].pc = "submit" => r.at <= local'[u].sync
                      /\ \/ r.at <= fence'[r.slot]
                         \/ \E u \in Threads : local'[u].pc = "submit" /\ r.slot \in BatchSlots(u)
    BY <1>1, <1>6 DEF Fenced
  <2>1. r \in [at : Nat, slot : Slots, key : Keys] /\ copies.queued \in Nat
    BY DEF TypeOK
  <2>2. fence'[r.slot] = IF row(r.slot) THEN copies.queued ELSE fence[r.slot]
    BY <1>1, <2>1
  <2>3. copies.done < r.at /\ r.at <= copies.queued
    BY DEF Fenced
  <2>4. \A u \in Threads : r.slot \in BatchSlots(u) =>
          /\ local'[u].pc \notin {"unsubmit", "drain"}
          /\ local'[u].pc = "submit" => r.at <= local'[u].sync
    BY <1>3, <1>4 DEF Fenced
  <2>5. CASE row(r.slot)
    BY <2>2, <2>3, <2>4, <2>5
  <2>6. CASE ~row(r.slot)
    <3>1. \/ r.at <= fence[r.slot]
          \/ \E u \in Threads : local[u].pc = "submit" /\ r.slot \in BatchSlots(u)
      BY <2>6 DEF Fenced, row
    <3>2. \A u \in Threads : local[u].pc = "submit" => local'[u] = local[u]
      BY <1>1, <1>3
    <3> QED
      BY <2>2, <2>3, <2>4, <2>6, <3>1, <3>2
  <2> QED
    BY <2>5, <2>6
<1> QED
  BY <1>4, <1>6, <1>7, <1>8, <1>9, <1>10

LEMMA CopyKeeps ==
  ASSUME IInv, Copy
  PROVE  IInv'
<1> USE DEF IInv
<1>1. /\ copies.done < copies.queued
      /\ copies' = [copies EXCEPT !.done = copies.done + 1,
                                  !.reading = {r \in copies.reading : r.at > copies.done + 1}]
      /\ UNCHANGED <<slotOf, keyOf, free, reserved, pending, window, reclaimable, gen, fence,
                     lock, local, bytes>>
  BY DEF Copy, tierVars
<1>2. /\ copies'.queued = copies.queued /\ copies'.done = copies.done + 1
      /\ copies'.reading = {r \in copies.reading : r.at > copies.done + 1}
      /\ copies.queued \in Nat /\ copies.done \in Nat
      /\ copies.reading \in SUBSET [at : Nat, slot : Slots, key : Keys]
  BY <1>1 DEF TypeOK
<1>3. Demand \in Threads /\ \A u \in Threads : local'[u] = local[u]
  BY <1>1 DEF Threads
<1>4. \A u \in Threads : /\ Batch(u)' = Batch(u) /\ BatchSlots(u)' = BatchSlots(u)
                         /\ PhaseOf(u)' /\ AskedOf(u)'
  BY <1>3, OthersKeep DEF InPhase, Asked
<1>5. TypeOK'
  <2>1. copies' \in [queued : Nat, done : Nat, reading : SUBSET [at : Nat, slot : Slots, key : Keys]]
    <3>1. copies'.reading \in SUBSET [at : Nat, slot : Slots, key : Keys]
      BY <1>2
    <3>2. copies \in [queued : Nat, done : Nat, reading : SUBSET [at : Nat, slot : Slots, key : Keys]]
      BY DEF TypeOK
    <3> HIDE DEF IInv
    <3>3. copies' = [copies EXCEPT !.done = copies.done + 1, !.reading = copies'.reading]
      BY <1>1, <1>2, <3>2
    <3>4. copies.done + 1 \in Nat
      BY <1>2
    <3> QED
      BY <3>1, <3>2, <3>3, <3>4
  <2> QED
    BY <1>1, <2>1 DEF TypeOK
<1>6. EverySlotInOnePlace' /\ Soft' /\ Locked' /\ ResidentBytesAreItsOwn' /\ CopyReadsItsRow'
  BY <1>1, <1>2 DEF EverySlotInOnePlace, Resident, Soft, Locked, ResidentBytesAreItsOwn,
                    CopyReadsItsRow
<1>7. Filling'
  BY <1>1, <1>4, FillingFrame DEF Resident
<1>8. Protected'
  BY <1>1, ProtectedFrame
<1>9. Fenced'
  <2>1. Held' = Held
    BY <1>1 DEF Held
  <2>2. copies'.done <= copies'.queued
    BY <1>1, <1>2
  <2>3. \A r \in copies'.reading : r \in copies.reading /\ copies'.done < r.at
    BY <1>2
  <2> HIDE DEF IInv, BatchSlots, Held
  <2> QED
    BY <1>1, <1>2, <1>4, <2>1, <2>2, <2>3 DEF IInv, Fenced
<1> QED
  BY <1>4, <1>5, <1>6, <1>7, <1>8, <1>9 DEF InPhase, Asked

LEMMA FillFailsKeeps ==
  ASSUME IInv, NEW t \in Threads, FillFails(t)
  PROVE  IInv'
<1> USE DEF IInv
<1> DEFINE c == local[t]
           d == local'[t]
<1>1. /\ c.pc = "drain"
      /\ UNCHANGED <<slotOf, keyOf, free, reserved, pending, window, reclaimable, gen, fence,
                     lock, bytes, copies>>
  BY DEF FillFails, tierVars
<1>2. PICK f \in c.flight :
        local' = [local EXCEPT ![t].flight = @ \ {f}, ![t].failed = TRUE]
  BY DEF FillFails
<1>3. c \in Calls /\ local \in [Threads -> Calls]
  BY DEF TypeOK
<1>4. /\ d.pc = "drain" /\ d.todo = c.todo /\ d.resolved = c.resolved /\ d.keys = c.keys
      /\ d.batch = c.batch /\ d.failed /\ d.waits = c.waits /\ d.flight \subseteq c.flight
      /\ local' \in [Threads -> Calls]
      /\ \A u \in Threads : u # t => local'[u] = local[u]
  <2> HIDE DEF IInv
  <2> QED
    BY <1>1, <1>2, <1>3 DEF Calls
<1>5. /\ EverySlotInOnePlace' /\ Filling' /\ Soft'
      /\ t # Demand => Protected'
      /\ \A u \in Threads : Batch(u)' = Batch(u)
      /\ \A u \in Threads : BatchSlots(u)' = BatchSlots(u)
      /\ \A u \in Threads : u # t => PhaseOf(u)' /\ AskedOf(u)'
  BY <1>1, <1>4, TablesStay
<1>6. TypeOK' /\ Locked' /\ ResidentBytesAreItsOwn' /\ CopyReadsItsRow'
  BY <1>1, <1>4 DEF TypeOK, Locked, ResidentBytesAreItsOwn, CopyReadsItsRow
<1>7. InPhase' /\ Asked'
  <2>1. PhaseOf(t)'
    BY <1>1, <1>4, <1>5 DEF InPhase, PhaseOf
  <2>2. AskedOf(t)'
    BY <1>4 DEF Asked, AskedOf
  <2> QED
    BY <1>5, <2>1, <2>2 DEF InPhase, Asked
<1>8. Protected'
  <2> SUFFICES ASSUME t = Demand
               PROVE  Protected'
    BY <1>5
  <2>1. Batch(Demand)' = Batch(Demand)
    BY <1>5
  <2> HIDE DEF Batch
  <2> QED
    BY <1>1, <1>4, <2>1 DEF Protected, RowsHeld, OwnFills, WindowIsOwn, KeysAccounted, WantsRow
<1>9. Fenced'
  <2>1. \A u \in Threads : local[u].pc # "drain" => local'[u] = local[u]
    BY <1>1, <1>4
  <2>2. Demand \in Threads /\ (local[Demand].pc = "fencing" => Held' = Held)
    BY <2>1 DEF Held, Threads
  <2> HIDE DEF BatchSlots, Held, d
  <2> QED
    BY <1>1, <1>4, <1>5, <2>1, <2>2 DEF Fenced, d
<1> QED
  BY <1>5, <1>6, <1>7, <1>8, <1>9

LEMMA PopFencesKeeps ==
  ASSUME IInv, NEW t \in Threads, PopFences(t)
  PROVE  IInv'
<1> USE DEF IInv
<1> DEFINE c == local[t]
           d == local'[t]
           S == BatchSlots(t)
           F == {fence[s] : s \in S}
<1>1. /\ c.pc = "fences" /\ lock = NoThread
      /\ UNCHANGED <<slotOf, keyOf, free, reserved, pending, window, reclaimable, gen,
                     lock, bytes, copies>>
      /\ fence' = [s \in Slots |-> IF s \in S THEN 0 ELSE fence[s]]
      /\ local' = [local EXCEPT ![t].pc = "submit", ![t].sync = Max(F)]
  BY DEF PopFences, tierVars, LastReader
<1>2. c \in Calls /\ local \in [Threads -> Calls]
  BY DEF TypeOK
<1>3. F \in SUBSET Nat /\ Max(F) \in F /\ \A x \in F : x <= Max(F)
  <2>1. S = {f.slot : f \in Batch(t)} /\ Batch(t) \in SUBSET Fills /\ IsFiniteSet(Batch(t))
    BY BatchIs
  <2>2. Batch(t) # {}
    BY <1>1 DEF InPhase, PhaseOf
  <2> HIDE DEF S, Batch
  <2>3. S \subseteq Slots /\ S # {}
    BY <2>1, <2>2 DEF Fills
  <2>4. IsFiniteSet(S)
    <3>1. IsFiniteSet(Slots)
      BY FS_Interval, ColdTierAssumption DEF Slots
    <3> QED
      BY <2>3, <3>1, FS_Subset
  <2>5. IsFiniteSet(F)
    <3>1. S \subseteq DOMAIN fence
      BY <2>3 DEF TypeOK
    <3> QED
      BY <2>4, <3>1, ImageIs
  <2>6. F \in SUBSET Nat /\ F # {}
    BY <2>3 DEF TypeOK
  <2> HIDE DEF F
  <2> QED
    BY <2>5, <2>6, MaxIs
<1> HIDE DEF F
<1>4. /\ d.pc = "submit" /\ d.todo = c.todo /\ d.resolved = c.resolved /\ d.keys = c.keys
      /\ d.batch = c.batch /\ d.failed = c.failed /\ d.waits = c.waits /\ d.sync = Max(F)
      /\ local' \in [Threads -> Calls]
      /\ \A u \in Threads : u # t => local'[u] = local[u]
  <2>1. "submit" \in Phases /\ Max(F) \in Nat
    BY <1>3 DEF Phases
  <2> HIDE DEF IInv
  <2> QED
    BY <1>1, <1>2, <2>1 DEF Calls
<1>5. /\ EverySlotInOnePlace' /\ Filling' /\ Soft'
      /\ t # Demand => Protected'
      /\ \A u \in Threads : Batch(u)' = Batch(u)
      /\ \A u \in Threads : BatchSlots(u)' = BatchSlots(u)
      /\ \A u \in Threads : u # t => PhaseOf(u)' /\ AskedOf(u)'
  BY <1>1, <1>4, TablesStay
<1>6. TypeOK' /\ Locked' /\ ResidentBytesAreItsOwn' /\ CopyReadsItsRow'
  <2>1. fence' \in [Slots -> Nat]
    BY <1>1 DEF TypeOK
  <2> QED
    BY <1>1, <1>4, <2>1 DEF TypeOK, Locked, ResidentBytesAreItsOwn, CopyReadsItsRow
<1>7. InPhase' /\ Asked'
  <2>1. PhaseOf(t)'
    BY <1>1, <1>4, <1>5 DEF InPhase, PhaseOf
  <2>2. AskedOf(t)'
    BY <1>4 DEF Asked, AskedOf
  <2> QED
    BY <1>5, <2>1, <2>2 DEF InPhase, Asked
<1>8. Protected'
  <2> SUFFICES ASSUME t = Demand
               PROVE  Protected'
    BY <1>5
  <2>1. Batch(Demand)' = Batch(Demand)
    BY <1>5
  <2> HIDE DEF Batch
  <2> QED
    BY <1>1, <1>4, <2>1 DEF Protected, RowsHeld, OwnFills, WindowIsOwn, KeysAccounted, WantsRow
<1>9. Fenced'
  <2>1. \A u \in Threads : u # t => S \cap BatchSlots(u) = {}
    BY BatchesApart
  <2>2. local[Demand].pc = "fencing" => \A k \in Held : local[Demand].resolved[k] \notin S
    BY HeldNotFilled
  <2>3. Demand \in Threads
    BY DEF Threads
  <2>4. local[Demand].pc = "fencing" => local'[Demand] = local[Demand] /\ Held' = Held
    BY <1>1, <1>4, <2>3 DEF Held
  <2> HIDE DEF BatchSlots, Held, d
  <2> SUFFICES ASSUME NEW r \in copies.reading
               PROVE  /\ copies.done < r.at /\ r.at <= copies.queued
                      /\ \A u \in Threads : r.slot \in BatchSlots(u) =>
                           /\ local'[u].pc \notin {"unsubmit", "drain"}
                           /\ local'[u].pc = "submit" => r.at <= local'[u].sync
                      /\ \/ r.at <= fence'[r.slot]
                         \/ /\ local'[Demand].pc = "fencing"
                            /\ \E k \in Held' : local'[Demand].resolved[k] = r.slot
                         \/ \E u \in Threads : local'[u].pc = "submit" /\ r.slot \in BatchSlots(u)
    BY <1>1, <1>5 DEF Fenced
  <2>5. r \in [at : Nat, slot : Slots, key : Keys]
    BY DEF TypeOK
  <2>6. copies.done < r.at /\ r.at <= copies.queued
    BY DEF Fenced
  <2>7. CASE r.slot \in S
    <3>1. \/ r.at <= fence[r.slot]
          \/ \E u \in Threads : local[u].pc = "submit" /\ r.slot \in BatchSlots(u)
      BY <2>2, <2>7 DEF Fenced
    <3>2. r.at <= fence[r.slot]
      BY <1>1, <2>1, <2>7, <3>1
    <3>3. r.at <= d.sync
      <4>1. fence[r.slot] \in F
        BY <2>7 DEF F
      <4>2. fence[r.slot] \in Nat /\ Max(F) \in Nat /\ fence[r.slot] <= Max(F)
        BY <1>3, <4>1
      <4>3. r.at \in Nat /\ d.sync = Max(F)
        BY <1>4, <2>5 DEF d
      <4> HIDE DEF IInv
      <4> QED
        BY <3>2, <4>2, <4>3
    <3>4. \A u \in Threads : r.slot \in BatchSlots(u) => u = t
      BY <2>1, <2>7
    <3> QED
      BY <1>4, <2>6, <2>7, <3>3, <3>4 DEF d
  <2>8. CASE r.slot \notin S
    <3>1. fence'[r.slot] = fence[r.slot]
      BY <1>1, <2>5, <2>8
    <3>2. \A u \in Threads : r.slot \in BatchSlots(u) => local'[u] = local[u]
      BY <1>4, <2>8
    <3> HIDE DEF IInv, S
    <3> QED
      BY <2>4, <2>6, <3>1, <3>2 DEF Fenced, IInv
  <2> QED
    BY <2>7, <2>8
<1> QED
  BY <1>5, <1>6, <1>7, <1>8, <1>9

LEMMA SubmitKeeps ==
  ASSUME IInv, NEW t \in Threads, Submit(t)
  PROVE  IInv'
<1> USE DEF IInv
<1> DEFINE c == local[t]
           d == local'[t]
<1>1. /\ c.pc = "submit" /\ copies.done >= c.sync
      /\ UNCHANGED <<slotOf, keyOf, free, reserved, pending, window, reclaimable, gen, fence,
                     lock, copies>>
  BY DEF Submit, tierVars
<1>2. c \in Calls /\ local \in [Threads -> Calls]
  BY DEF TypeOK
<1>3. PICK n \in 0 .. Len(c.batch) :
        LET sent == {c.batch[i] : i \in 1 .. n}
        IN /\ bytes' = [s \in Slots |-> IF \E f \in sent : f.slot = s THEN NoKey ELSE bytes[s]]
           /\ local' = [local EXCEPT
                ![t].pc = IF n = Len(c.batch) THEN "drain" ELSE "unsubmit",
                ![t].flight = sent,
                ![t].failed = n < Len(c.batch),
                ![t].sync = 0]
  BY DEF Submit
<1> DEFINE sent == {c.batch[i] : i \in 1 .. n}
<1>4. /\ sent \subseteq Batch(t) /\ sent \in SUBSET Fills
      /\ n = Len(c.batch) => sent = Batch(t)
      /\ \A f \in sent : f.slot \in BatchSlots(t)
  <2>1. /\ Batch(t) = ToSet(c.batch) /\ c.batch \in Seq(Fills) /\ Batch(t) \in SUBSET Fills
        /\ BatchSlots(t) = {f.slot : f \in Batch(t)}
    BY BatchIs DEF Batch
  <2>2. DOMAIN c.batch = 1 .. Len(c.batch) /\ Len(c.batch) \in Nat
    BY <2>1, LenProperties
  <2> HIDE DEF c, Batch, BatchSlots
  <2>3. 1 .. n \subseteq DOMAIN c.batch
    BY <2>2
  <2>4. sent \subseteq Batch(t)
    BY <2>1, <2>3 DEF ToSet
  <2>5. n = Len(c.batch) => sent = Batch(t)
    BY <2>1, <2>2 DEF ToSet
  <2> HIDE DEF sent
  <2> QED
    BY <2>1, <2>4, <2>5
<1> HIDE DEF sent
<1>5. /\ bytes' = [s \in Slots |-> IF \E f \in sent : f.slot = s THEN NoKey ELSE bytes[s]]
      /\ local' = [local EXCEPT
                ![t].pc = IF n = Len(c.batch) THEN "drain" ELSE "unsubmit",
                ![t].flight = sent,
                ![t].failed = n < Len(c.batch),
                ![t].sync = 0]
  BY <1>3 DEF sent
<1>6. n = Len(c.batch) \/ n < Len(c.batch)
  <2>1. Len(c.batch) \in Nat
    BY BatchIs, LenProperties
  <2>2. n \in 0 .. Len(c.batch)
    BY <1>3
  <2> HIDE DEF IInv, c
  <2> QED
    BY <2>1, <2>2
<1>7. /\ d.pc = IF n = Len(c.batch) THEN "drain" ELSE "unsubmit"
      /\ d.todo = c.todo /\ d.resolved = c.resolved /\ d.keys = c.keys
      /\ d.batch = c.batch /\ d.failed = (n < Len(c.batch)) /\ d.waits = c.waits
      /\ d.flight = sent
      /\ local' \in [Threads -> Calls]
      /\ \A u \in Threads : u # t => local'[u] = local[u]
  <2>1. "drain" \in Phases /\ "unsubmit" \in Phases
    BY DEF Phases
  <2> HIDE DEF IInv
  <2>2. (n < Len(c.batch)) \in BOOLEAN
    OBVIOUS
  <2> DEFINE p == IF n = Len(c.batch) THEN "drain" ELSE "unsubmit"
             b == n < Len(c.batch)
  <2>3. p \in Phases /\ b \in BOOLEAN
    BY <2>1
  <2> HIDE DEF p, b
  <2>4. local' = [local EXCEPT ![t].pc = p, ![t].flight = sent, ![t].failed = b, ![t].sync = 0]
    BY <1>5 DEF p, b
  <2>5. d = [c EXCEPT !.pc = p, !.flight = sent, !.failed = b, !.sync = 0]
    BY <1>2, <2>4
  <2>6. d \in Calls
    <3> HIDE DEF d, c
    <3> QED
      BY <1>2, <1>4, <2>3, <2>5 DEF Calls
  <2>7. /\ local' \in [Threads -> Calls]
        /\ \A u \in Threads : u # t => local'[u] = local[u]
    BY <1>2, <2>4, <2>6
  <2>8. /\ d.pc = p /\ d.failed = b /\ d.flight = sent
        /\ d.todo = c.todo /\ d.resolved = c.resolved /\ d.keys = c.keys
        /\ d.batch = c.batch /\ d.waits = c.waits
    BY <1>2, <2>5 DEF Calls
  <2> QED
    BY <2>7, <2>8 DEF p, b
<1>8. /\ EverySlotInOnePlace' /\ Filling' /\ Soft'
      /\ t # Demand => Protected'
      /\ \A u \in Threads : Batch(u)' = Batch(u)
      /\ \A u \in Threads : BatchSlots(u)' = BatchSlots(u)
      /\ \A u \in Threads : u # t => PhaseOf(u)' /\ AskedOf(u)'
  BY <1>1, <1>7, TablesStay
<1>9. TypeOK' /\ Locked'
  <2>1. bytes' \in [Slots -> Keys \cup {NoKey}]
    BY <1>5 DEF TypeOK
  <2> QED
    BY <1>1, <1>7, <2>1 DEF TypeOK, Locked
<1>10. ResidentBytesAreItsOwn'
  <2>1. \A f \in sent : f.slot \in reserved
    BY <1>4, BatchesApart
  <2>2. \A s \in Slots : keyOf[s] # NoKey => s \notin reserved
    BY DEF EverySlotInOnePlace
  <2> QED
    BY <1>1, <1>5, <2>1, <2>2 DEF ResidentBytesAreItsOwn
<1>11. \A r \in copies.reading : r.slot \in Slots /\ r.slot \notin BatchSlots(t)
  <2> SUFFICES ASSUME NEW r \in copies.reading, r.slot \in BatchSlots(t)
               PROVE  FALSE
    BY DEF TypeOK
  <2>1. r.at \in Nat /\ copies.done \in Nat /\ c.sync \in Nat
    BY <1>2 DEF TypeOK, Calls
  <2>2. copies.done < r.at /\ r.at <= c.sync
    BY <1>1 DEF Fenced
  <2> QED
    BY <1>1, <2>1, <2>2
<1>12. CopyReadsItsRow'
  <2> HIDE DEF BatchSlots
  <2> QED
    BY <1>1, <1>4, <1>5, <1>11 DEF CopyReadsItsRow
<1>13. InPhase' /\ Asked'
  <2>1. c.todo = <<>> /\ c.keys # {}
    BY <1>1 DEF InPhase, PhaseOf
  <2>2. PhaseOf(t)'
    <3>1. Batch(t)' = Batch(t)
      BY <1>7 DEF Batch
    <3> HIDE DEF IInv, Batch
    <3> QED
      BY <1>4, <1>6, <1>7, <2>1, <3>1 DEF PhaseOf
  <2>3. AskedOf(t)'
    BY <1>7 DEF Asked, AskedOf
  <2> QED
    BY <1>8, <2>2, <2>3 DEF InPhase, Asked
<1>14. Protected'
  <2> SUFFICES ASSUME t = Demand
               PROVE  Protected'
    BY <1>8
  <2>1. Batch(Demand)' = Batch(Demand) /\ ~c.failed
    BY <1>1, <1>8 DEF InPhase, PhaseOf
  <2> HIDE DEF Batch
  <2> QED
    BY <1>1, <1>7, <2>1 DEF Protected, RowsHeld, OwnFills, WindowIsOwn, KeysAccounted, WantsRow
<1>15. Fenced'
  <2>1. Demand \in Threads
    BY DEF Threads
  <2>2. local[Demand].pc = "fencing" => local'[Demand] = local[Demand] /\ Held' = Held
    BY <1>1, <1>7, <2>1 DEF Held
  <2>3. \A u \in Threads : \A r \in copies.reading :
          r.slot \in BatchSlots(u) => local'[u] = local[u]
    BY <1>7, <1>11
  <2> HIDE DEF BatchSlots, Held, d, IInv
  <2> QED
    BY <1>1, <1>8, <2>2, <2>3 DEF Fenced, IInv
<1> QED
  BY <1>8, <1>9, <1>10, <1>12, <1>13, <1>14, <1>15

-----------------------------------------------------------------------------
(* What leaves the batches: a fill that lands, or that is given up.        *)

\* A key is pending when it has an entry.
LEMMA PendingIs ==
  ASSUME NEW k
  PROVE  Pending(k) <=> \E p \in ToSet(pending) : p.key = k
BY DEF Pending, ToSet

\* Waking up takes the entries of the keys, and no others.
LEMMA WokenIs ==
  ASSUME TypeOK, NEW ks
  PROVE  /\ Woken(ks) \in Seq(Events)
         /\ ToSet(Woken(ks)) = {p \in ToSet(pending) : p.key \notin ks}
<1> DEFINE S == {p \in ToSet(pending) : p.key \notin ks}
<1>1. pending \in Seq(Events)
  BY DEF TypeOK
<1>2. ToSet(pending) \cap S = S
  OBVIOUS
<1> HIDE DEF S
<1>3. Only(pending, S) \in Seq(Events) /\ ToSet(Only(pending, S)) = ToSet(pending) \cap S
  BY <1>1, OnlyIs
<1> QED
  BY <1>2, <1>3 DEF Woken, S

LEMMA FillingLess ==
  ASSUME TypeOK, Filling, NEW t \in Threads, NEW gone \in SUBSET Batch(t),
         Batch(t)' = Batch(t) \ gone,
         \A u \in Threads : u # t => Batch(u)' = Batch(u),
         reserved' = reserved \ {f.slot : f \in gone},
         ToSet(pending') = {p \in ToSet(pending) : p.key \notin {f.key : f \in gone}},
         \A k \in Keys : Resident(k)' => Resident(k) \/ k \in {f.key : f \in gone}
  PROVE  Filling'
<1> DEFINE slots == {f.slot : f \in gone}
           keys == {f.key : f \in gone}
<1>1. \A u \in Threads : Batch(u)' \subseteq Batch(u) /\ \A f \in Batch(u)' : f \notin gone
  <2>1. \A u \in Threads : u # t => \A f \in Batch(u) : f \notin gone
    <3> HIDE DEF Batch
    <3> QED
      BY DEF Filling
  <2> HIDE DEF Batch
  <2> QED
    BY <2>1
<1>2. \A u \in Threads : \A f \in Batch(u) : f \notin gone => f \in Batch(u)'
  <2> HIDE DEF Batch
  <2> QED
    OBVIOUS
<1>3. \A u \in Threads : \A f \in Batch(u)' : f.key \notin keys /\ f.slot \notin slots
  <2> HIDE DEF Batch
  <2> QED
    BY <1>1 DEF Filling
<1>4. \A k : Pending(k)' <=> Pending(k) /\ k \notin keys
  <2>1. \A k : Pending(k) <=> \E p \in ToSet(pending) : p.key = k
    BY PendingIs
  <2>2. \A k : Pending(k)' <=> \E p \in ToSet(pending') : p.key = k
    BY DEF Pending, ToSet
  <2> QED
    BY <2>1, <2>2
<1>5. \A u \in Threads : \A f \in Batch(u) : f.key \in Keys
  BY BatchIs DEF Fills
<1> HIDE DEF Batch, Pending, Resident
<1>6. \A u, v \in Threads : \A f \in Batch(u)', g \in Batch(v)' :
        f.key = g.key \/ f.slot = g.slot => u = v /\ f = g
  BY <1>1 DEF Filling
<1>7. \A u \in Threads : \A f \in Batch(u)' :
        ~Resident(f.key)' /\ f.slot \in reserved' /\ Pending(f.key)'
  BY <1>1, <1>3, <1>4, <1>5 DEF Filling
<1>8. \A s \in reserved' : \E u \in Threads : \E f \in Batch(u)' : f.slot = s
  <2> SUFFICES ASSUME NEW s \in reserved'
               PROVE  \E u \in Threads : \E f \in Batch(u)' : f.slot = s
    OBVIOUS
  <2>1. PICK u \in Threads : \E f \in Batch(u) : f.slot = s
    BY DEF Filling
  <2>2. PICK f \in Batch(u) : f.slot = s
    BY <2>1
  <2>3. f \notin gone
    BY <2>2
  <2> QED
    BY <1>2, <2>2, <2>3
<1>9. \A k \in Keys : Pending(k)' => \E u \in Threads : \E f \in Batch(u)' : f.key = k
  <2> SUFFICES ASSUME NEW k \in Keys, Pending(k)'
               PROVE  \E u \in Threads : \E f \in Batch(u)' : f.key = k
    OBVIOUS
  <2>1. PICK u \in Threads : \E f \in Batch(u) : f.key = k
    BY <1>4 DEF Filling
  <2>2. PICK f \in Batch(u) : f.key = k
    BY <2>1
  <2>3. f \notin gone
    BY <1>4, <2>2
  <2> QED
    BY <1>2, <2>2, <2>3
<1> QED
  BY <1>6, <1>7, <1>8, <1>9 DEF Filling

(* No copy outstanding reads a slot whose reads may have started: those    *)
(* the call gives up or publishes are no concern of Fenced.                *)
LEMMA FencedLess ==
  ASSUME Fenced, NEW t \in Threads, UNCHANGED <<copies, fence>>,
         \A u \in Threads : u # t => local'[u] = local[u],
         local[t].pc \in {"unsubmit", "drain"},
         BatchSlots(t)' \subseteq BatchSlots(t)
  PROVE  Fenced'
<1>1. Demand \in Threads
  BY DEF Threads
<1>2. local[Demand].pc = "fencing" => local'[Demand] = local[Demand] /\ Held' = Held
  BY <1>1 DEF Held
<1>3. \A u \in Threads : u # t => BatchSlots(u)' = BatchSlots(u)
  BY OthersKeep
<1> HIDE DEF BatchSlots, Held
<1>4. \A r \in copies.reading : r.slot \notin BatchSlots(t)
  BY DEF Fenced
<1>5. \A r \in copies.reading : \A u \in Threads :
        r.slot \in BatchSlots(u)' => local'[u] = local[u] /\ r.slot \in BatchSlots(u)
  BY <1>3, <1>4
<1>6. \A r \in copies.reading : \A u \in Threads :
        r.slot \in BatchSlots(u) => local'[u] = local[u] /\ r.slot \in BatchSlots(u)'
  BY <1>3, <1>4
<1> QED
  BY <1>2, <1>5, <1>6 DEF Fenced

(* Reclaiming leaves the tables in order: the slots given up were reserved *)
(* and are free now, and nobody waits for their keys.                      *)
LEMMA ReclaimKeeps ==
  ASSUME IInv, NEW t \in Threads, NEW gone \in SUBSET Batch(t), Reclaim(gone),
         UNCHANGED <<fence, lock, bytes, copies>>,
         local' \in [Threads -> Calls],
         \A u \in Threads : u # t => local'[u] = local[u],
         Batch(t)' = Batch(t) \ gone,
         local[t].pc \in {"unsubmit", "drain"}
  PROVE  /\ TypeOK' /\ EverySlotInOnePlace' /\ Filling' /\ ResidentBytesAreItsOwn'
         /\ CopyReadsItsRow' /\ Soft' /\ Fenced'
         /\ t # Demand => Protected'
         /\ \A u \in Threads : u # t => PhaseOf(u)' /\ AskedOf(u)'
         /\ window' \subseteq window
         /\ \A f \in Batch(t)' : f.slot \in window => f.slot \in window'
         /\ \A k \in Keys : slotOf[k] \in window => slotOf[k] \in window'
<1> USE DEF IInv
<1> DEFINE slots == {f.slot : f \in gone}
           keys == {f.key : f \in gone}
<1>1. /\ keyOf' = [s \in Slots |-> IF s \in slots THEN NoKey ELSE keyOf[s]]
      /\ reserved' = reserved \ slots /\ window' = window \ slots
      /\ free' = free \o SetToSeq(slots \ ToSet(free))
      /\ pending' = Woken(keys)
      /\ UNCHANGED <<slotOf, reclaimable, gen>>
  BY DEF Reclaim, FreeWith
<1>2. /\ BatchSlots(t) = {f.slot : f \in Batch(t)} /\ Batch(t) \in SUBSET Fills
      /\ IsFiniteSet(Batch(t))
  BY BatchIs
<1>3. \A f \in gone : f.slot \in BatchSlots(t)
  <2> HIDE DEF Batch, BatchSlots
  <2> QED
    BY <1>2
<1>4. slots \subseteq reserved /\ reserved \subseteq Slots /\ slots \in SUBSET Slots
  BY <1>3, BatchesApart DEF TypeOK
<1>5. /\ \A s \in slots : keyOf[s] = NoKey
      /\ slots \ ToSet(free) = slots /\ ToSet(free) \cap slots = {}
  BY <1>4 DEF EverySlotInOnePlace
<1>6. IsFiniteSet(slots)
  <2>1. IsFiniteSet(Slots)
    BY FS_Interval, ColdTierAssumption DEF Slots
  <2> HIDE DEF slots
  <2> QED
    BY <1>4, <2>1, FS_Subset
<1>7. \A f \in Batch(t)' : f.slot \notin slots
  <2> HIDE DEF Batch, BatchSlots
  <2> QED
    BY DEF Filling
<1> HIDE DEF slots
<1>8. keyOf' = keyOf
  BY <1>1, <1>5 DEF TypeOK
<1>9. /\ free' \in Seq(Slots) /\ ToSet(free') = ToSet(free) \cup slots /\ IsInjective(free')
  <2>1. /\ SetToSeq(slots) \in Seq(Slots) /\ ToSet(SetToSeq(slots)) = slots
        /\ IsInjective(SetToSeq(slots))
    BY <1>4, <1>6, SetToSeqIs
  <2>2. free \in Seq(Slots) /\ IsInjective(free) /\ free' = free \o SetToSeq(slots)
    BY <1>1, <1>5 DEF TypeOK, EverySlotInOnePlace
  <2> HIDE DEF IInv
  <2> QED
    BY <1>5, <2>1, <2>2, ConcatIs
<1>10. /\ pending' \in Seq(Events)
       /\ ToSet(pending') = {p \in ToSet(pending) : p.key \notin keys}
  BY <1>1, WokenIs
<1> HIDE DEF keys
<1>11. TypeOK'
  BY <1>1, <1>8, <1>9, <1>10 DEF TypeOK
<1>12. EverySlotInOnePlace'
  <2> DEFINE occupied == {s \in Slots : keyOf[s] # NoKey}
             unused == ToSet(free)
  <2>1. /\ occupied \cup unused \cup reserved = Slots
        /\ occupied \cap unused = {} /\ occupied \cap reserved = {} /\ unused \cap reserved = {}
    BY DEF EverySlotInOnePlace
  <2>2. /\ \A k \in Keys : Resident(k)' => keyOf'[slotOf'[k]] = k
        /\ \A s \in occupied : slotOf'[keyOf'[s]] = s
    BY <1>1, <1>8 DEF EverySlotInOnePlace, Resident
  <2>3. occupied' = occupied /\ unused' = unused \cup slots /\ reserved' = reserved \ slots
    BY <1>1, <1>8, <1>9
  <2> HIDE DEF IInv, occupied, unused
  <2>4. /\ occupied' \cup unused' \cup reserved' = Slots
        /\ occupied' \cap unused' = {} /\ occupied' \cap reserved' = {} /\ unused' \cap reserved' = {}
    BY <1>4, <2>1, <2>3
  <2> QED
    BY <1>9, <2>2, <2>3, <2>4 DEF EverySlotInOnePlace, occupied, unused
<1>13. Filling'
  <2>1. \A u \in Threads : u # t => Batch(u)' = Batch(u)
    BY OthersKeep
  <2>2. \A k \in Keys : Resident(k)' <=> Resident(k)
    BY <1>1 DEF Resident
  <2>3. TypeOK /\ Filling
    OBVIOUS
  <2> HIDE DEF IInv, Batch, Resident
  <2> QED
    BY <1>1, <1>10, <2>1, <2>2, <2>3, FillingLess DEF slots, keys
<1>14. ResidentBytesAreItsOwn' /\ CopyReadsItsRow' /\ Soft'
  BY <1>1, <1>8 DEF ResidentBytesAreItsOwn, CopyReadsItsRow, Soft, Resident
<1>15. Fenced'
  <2>1. BatchSlots(t)' = {f.slot : f \in Batch(t)'}
    BY <1>11, BatchIs DEF BatchSlots, Batch, ToSet
  <2>2. BatchSlots(t)' \subseteq BatchSlots(t)
    <3> HIDE DEF Batch, BatchSlots
    <3> QED
      BY <1>2, <2>1
  <2> QED
    BY <2>2, FencedLess
<1>16. \A u \in Threads : u # t => PhaseOf(u)' /\ AskedOf(u)'
  BY OthersKeep DEF InPhase, Asked
<1>17. \A k \in Keys : slotOf[k] \in window => slotOf[k] \in window'
  <2> SUFFICES ASSUME NEW k \in Keys, slotOf[k] \in window
               PROVE  slotOf[k] \in window'
    OBVIOUS
  <2>1. slotOf[k] \in Slots /\ slotOf[k] # NoSlot
    BY DEF TypeOK, Slots, NoSlot
  <2>2. keyOf[slotOf[k]] = k /\ k # NoKey
    BY <2>1, ColdTierAssumption DEF EverySlotInOnePlace, Resident
  <2> HIDE DEF IInv
  <2> QED
    BY <1>1, <1>5, <2>2
<1>18. \A f \in Batch(t)' : f.slot \in window => f.slot \in window'
  BY <1>1, <1>7
<1>19. t # Demand => Protected'
  <2> SUFFICES ASSUME t # Demand
               PROVE  Protected'
    OBVIOUS
  <2>1. local'[Demand] = local[Demand] /\ Batch(Demand)' = Batch(Demand)
    BY OthersKeep DEF Threads
  <2>2. \A f \in Batch(Demand) : f.slot \notin slots
    <3>1. Demand \in Threads
      BY DEF Threads
    <3> HIDE DEF Batch
    <3> QED
      BY <3>1 DEF Filling, slots
  <2> HIDE DEF Batch
  <2> QED
    BY <1>1, <1>17, <2>1, <2>2 DEF Protected, RowsHeld, OwnFills, WindowIsOwn, KeysAccounted, WantsRow
<1> QED
  BY <1>1, <1>11, <1>12, <1>13, <1>14, <1>15, <1>16, <1>17, <1>18, <1>19

LEMMA ReclaimUnsubmittedKeeps ==
  ASSUME IInv, NEW t \in Threads, ReclaimUnsubmitted(t)
  PROVE  IInv'
<1> USE DEF IInv
<1> DEFINE c == local[t]
           d == local'[t]
           gone == Batch(t) \ c.flight
<1>1. /\ c.pc = "unsubmit" /\ lock = NoThread /\ Reclaim(gone)
      /\ UNCHANGED <<fence, lock, bytes, copies>>
      /\ local' = [local EXCEPT ![t].pc = "drain", ![t].batch = Only(c.batch, c.flight)]
  BY DEF ReclaimUnsubmitted, Unsubmitted, Batch
<1>2. c \in Calls /\ local \in [Threads -> Calls]
  BY DEF TypeOK
<1>3. c.failed /\ c.flight \subseteq Batch(t) /\ c.todo = <<>> /\ c.keys # {}
  BY <1>1 DEF InPhase, PhaseOf
<1>4. /\ Only(c.batch, c.flight) \in Seq(Fills)
      /\ ToSet(Only(c.batch, c.flight)) = Batch(t) \cap c.flight
  <2>1. c.batch \in Seq(Fills)
    BY <1>2 DEF Calls
  <2> HIDE DEF IInv, c
  <2> QED
    BY <2>1, OnlyIs DEF Batch, c
<1>5. /\ d.pc = "drain" /\ d.todo = c.todo /\ d.resolved = c.resolved /\ d.keys = c.keys
      /\ d.batch = Only(c.batch, c.flight) /\ d.failed = c.failed /\ d.waits = c.waits
      /\ d.flight = c.flight
      /\ local' \in [Threads -> Calls]
      /\ \A u \in Threads : u # t => local'[u] = local[u]
  <2>1. "drain" \in Phases
    BY DEF Phases
  <2> HIDE DEF IInv
  <2> QED
    BY <1>1, <1>2, <1>4, <2>1 DEF Calls
<1>6. Batch(t)' = c.flight /\ Batch(t)' = Batch(t) \ gone
  <2>1. Batch(t)' = ToSet(d.batch)
    BY DEF Batch
  <2> HIDE DEF Batch, d
  <2> QED
    BY <1>3, <1>4, <1>5, <2>1
<1>7. /\ TypeOK' /\ EverySlotInOnePlace' /\ Filling' /\ ResidentBytesAreItsOwn'
      /\ CopyReadsItsRow' /\ Soft' /\ Fenced'
      /\ t # Demand => Protected'
      /\ \A u \in Threads : u # t => PhaseOf(u)' /\ AskedOf(u)'
      /\ window' \subseteq window
      /\ \A f \in Batch(t)' : f.slot \in window => f.slot \in window'
  <2>1. gone \in SUBSET Batch(t)
    OBVIOUS
  <2> HIDE DEF IInv, gone
  <2> QED
    BY <1>1, <1>5, <1>6, <2>1, ReclaimKeeps
<1>8. Locked'
  BY <1>1, <1>5 DEF Locked
<1>9. InPhase' /\ Asked'
  <2>1. PhaseOf(t)'
    BY <1>3, <1>5, <1>6 DEF PhaseOf
  <2>2. AskedOf(t)'
    BY <1>5 DEF Asked, AskedOf
  <2> QED
    BY <1>7, <2>1, <2>2 DEF InPhase, Asked
<1>10. Protected'
  <2> SUFFICES ASSUME t = Demand
               PROVE  Protected'
    BY <1>7
  <2>1. Batch(Demand)' \subseteq Batch(Demand)
    BY <1>6
  <2> HIDE DEF Batch
  <2> QED
    BY <1>1, <1>3, <1>5, <1>7, <2>1
    DEF Protected, RowsHeld, OwnFills, WindowIsOwn, KeysAccounted, WantsRow
<1> QED
  BY <1>7, <1>8, <1>9, <1>10

LEMMA EndFillKeeps ==
  ASSUME IInv, NEW t \in Threads, EndFill(t)
  PROVE  IInv'
<1> USE DEF IInv
<1> DEFINE c == local[t]
           d == local'[t]
<1>1. /\ c.pc = "drain" /\ c.flight = {} /\ lock = NoThread /\ Reclaim(Batch(t))
      /\ UNCHANGED <<fence, lock, bytes, copies>>
      /\ local' = [local EXCEPT ![t] = IF c.failed THEN Idle(c.calls) ELSE Filled(t)]
  BY DEF EndFill, Batch
<1>2. c \in Calls /\ local \in [Threads -> Calls] /\ c.calls \in Nat
  BY DEF TypeOK, Calls
<1>3. c.todo = <<>> /\ c.keys # {} /\ (~c.failed => Batch(t) = {})
  BY <1>1 DEF InPhase, PhaseOf
<1>4. ToSet(<<>>) = {}
  BY DEF ToSet
<1>5. \A u \in Threads : u # t => local'[u] = local[u]
  BY <1>1, <1>2
<1>6. CASE c.failed \/ t # Demand
  <2>1. d = Idle(c.calls) /\ local' \in [Threads -> Calls]
    BY <1>1, <1>2, <1>6, IdleIs DEF Filled
  <2>2. d.pc = "idle" /\ Batch(t)' = {} /\ PhaseOf(t)' /\ AskedOf(t)' /\ (t = Demand => Protected')
    BY <1>2, <2>1, IdleIs, OutsideKeeps
  <2>3. /\ TypeOK' /\ EverySlotInOnePlace' /\ Filling' /\ ResidentBytesAreItsOwn'
        /\ CopyReadsItsRow' /\ Soft' /\ Fenced'
        /\ t # Demand => Protected'
        /\ \A u \in Threads : u # t => PhaseOf(u)' /\ AskedOf(u)'
    <3>1. Batch(t)' = Batch(t) \ Batch(t)
      BY <2>2
    <3> HIDE DEF IInv
    <3> QED
      BY <1>1, <1>5, <2>1, <3>1, ReclaimKeeps
  <2>4. Locked'
    BY <1>1, <1>5, <2>2 DEF Locked
  <2> QED
    BY <2>2, <2>3, <2>4 DEF InPhase, Asked
<1>7. CASE ~c.failed /\ t = Demand
  <2>1. d = [c EXCEPT !.pc = "waits", !.batch = <<>>]
    BY <1>1, <1>2, <1>7 DEF Filled
  <2>2. /\ d.pc = "waits" /\ d.todo = c.todo /\ d.resolved = c.resolved /\ d.keys = c.keys
        /\ d.batch = <<>> /\ d.failed = c.failed /\ d.waits = c.waits
        /\ local' \in [Threads -> Calls]
    <3>1. "waits" \in Phases /\ <<>> \in Seq(Fills)
      BY EmptySeq DEF Phases
    <3>2. d \in Calls
      <4> HIDE DEF IInv, d
      <4> QED
        BY <1>2, <2>1, <3>1 DEF Calls
    <3>3. local' \in [Threads -> Calls]
      BY <1>1, <1>2, <1>5, <3>2
    <3> HIDE DEF IInv, d
    <3> QED
      BY <1>2, <2>1, <3>3 DEF Calls
  <2>3. Batch(t)' = {} /\ Batch(t)' = Batch(t) \ Batch(t)
    BY <1>4, <2>2 DEF Batch
  <2>4. /\ TypeOK' /\ EverySlotInOnePlace' /\ Filling' /\ ResidentBytesAreItsOwn'
        /\ CopyReadsItsRow' /\ Soft' /\ Fenced'
        /\ \A u \in Threads : u # t => PhaseOf(u)' /\ AskedOf(u)'
        /\ window' \subseteq window
        /\ \A k \in Keys : slotOf[k] \in window => slotOf[k] \in window'
    <3> HIDE DEF IInv
    <3> QED
      BY <1>1, <1>5, <2>2, <2>3, ReclaimKeeps
  <2>5. Locked'
    BY <1>1, <1>5, <2>2 DEF Locked
  <2>6. InPhase' /\ Asked'
    <3>1. PhaseOf(t)'
      BY <1>3, <1>7, <2>2, <2>3 DEF PhaseOf
    <3>2. AskedOf(t)'
      BY <2>2 DEF Asked, AskedOf
    <3> QED
      BY <2>4, <3>1, <3>2 DEF InPhase, Asked
  <2>7. Protected'
    <3>1. Batch(Demand) = {} /\ Batch(Demand)' = {} /\ slotOf' = slotOf
      BY <1>1, <1>3, <1>7, <2>3 DEF Reclaim
    <3> HIDE DEF Batch
    <3> QED
      BY <1>1, <1>7, <2>2, <2>4, <3>1
      DEF Protected, RowsHeld, OwnFills, WindowIsOwn, KeysAccounted, WantsRow
  <2> QED
    BY <2>4, <2>5, <2>6, <2>7
<1> QED
  BY <1>6, <1>7

LEMMA PublishKeeps ==
  ASSUME IInv, NEW t \in Threads, Publish(t)
  PROVE  IInv'
<1> USE DEF IInv
<1> DEFINE c == local[t]
           d == local'[t]
<1>1. /\ c.pc = "drain" /\ lock = NoThread
      /\ UNCHANGED <<free, window, reclaimable, gen, fence, lock, copies>>
  BY DEF Publish, PublishRow
<1>2. PICK f \in c.flight :
       /\ bytes' = [bytes EXCEPT ![f.slot] = f.key]
       /\ keyOf' = [keyOf EXCEPT ![f.slot] = f.key]
       /\ slotOf' = [slotOf EXCEPT ![f.key] = f.slot]
       /\ reserved' = reserved \ {f.slot}
       /\ pending' = Woken({f.key})
       /\ local' = [local EXCEPT ![t].flight = @ \ {f},
                                 ![t].batch = Only(@, ToSet(@) \ {f})]
  BY DEF Publish, PublishRow
<1>3. c \in Calls /\ local \in [Threads -> Calls]
  BY DEF TypeOK
<1>4. /\ c.flight \subseteq Batch(t) /\ c.todo = <<>> /\ c.keys # {}
      /\ ~c.failed => c.flight = Batch(t)
  BY <1>1 DEF InPhase, PhaseOf
<1> DEFINE b == Only(c.batch, Batch(t) \ {f})
<1>5. b \in Seq(Fills) /\ ToSet(b) = Batch(t) \ {f}
  <2>1. c.batch \in Seq(Fills)
    BY <1>3 DEF Calls
  <2> DEFINE S == Batch(t) \ {f}
  <2>2. Batch(t) \cap S = S
    OBVIOUS
  <2>3. Batch(t) = ToSet(c.batch)
    BY DEF Batch
  <2> HIDE DEF IInv, c, S, Batch
  <2>4. Only(c.batch, S) \in Seq(Fills) /\ ToSet(Only(c.batch, S)) = ToSet(c.batch) \cap S
    BY <2>1, OnlyIs
  <2> QED
    BY <2>2, <2>3, <2>4 DEF S
<1>6. local' = [local EXCEPT ![t].flight = c.flight \ {f}, ![t].batch = b]
  BY <1>2, <1>3 DEF Batch
<1> HIDE DEF b
<1>7. /\ d.pc = "drain" /\ d.todo = c.todo /\ d.resolved = c.resolved /\ d.keys = c.keys
      /\ d.batch = b /\ d.failed = c.failed /\ d.waits = c.waits
      /\ d.flight = c.flight \ {f}
      /\ local' \in [Threads -> Calls]
      /\ \A u \in Threads : u # t => local'[u] = local[u]
  <2> HIDE DEF IInv
  <2>1. c.flight \ {f} \in SUBSET Fills
    BY <1>3 DEF Calls
  <2> QED
    BY <1>1, <1>3, <1>5, <1>6, <2>1 DEF Calls
<1>8. Batch(t)' = Batch(t) \ {f} /\ f \in Batch(t) /\ f \in Fills
  <2>1. Batch(t)' = ToSet(d.batch)
    BY DEF Batch
  <2>2. Batch(t) \in SUBSET Fills
    BY BatchIs
  <2> HIDE DEF Batch, d
  <2> QED
    BY <1>4, <1>5, <1>7, <2>1, <2>2
<1>9. \A u \in Threads : /\ u # t => Batch(u)' = Batch(u) /\ PhaseOf(u)' /\ AskedOf(u)'
                         /\ Batch(u)' \subseteq Batch(u)
  <2>1. \A u \in Threads : u # t => Batch(u)' = Batch(u) /\ PhaseOf(u)' /\ AskedOf(u)'
    BY <1>7, OthersKeep DEF InPhase, Asked
  <2> HIDE DEF Batch
  <2> QED
    BY <1>8, <2>1
<1>10. /\ f.key \in Keys /\ f.slot \in Slots /\ f.slot \in reserved
       /\ ~Resident(f.key) /\ slotOf[f.key] = NoSlot /\ keyOf[f.slot] = NoKey
       /\ f.slot \notin ToSet(free)
       /\ f.key # NoKey /\ f.slot # NoSlot
  <2>1. f.key \in Keys /\ f.slot \in Slots
    BY <1>8 DEF Fills
  <2>2. f.slot \in reserved /\ ~Resident(f.key)
    <3> HIDE DEF Batch, Resident
    <3> QED
      BY <1>8 DEF Filling
  <2>3. keyOf[f.slot] = NoKey /\ f.slot \notin ToSet(free)
    BY <2>1, <2>2 DEF EverySlotInOnePlace
  <2>4. f.slot # NoSlot
    BY <2>1 DEF Slots, NoSlot
  <2> QED
    BY <2>1, <2>2, <2>3, <2>4, ColdTierAssumption DEF Resident
<1>11. /\ slotOf \in [Keys -> Slots \cup {NoSlot}] /\ keyOf \in [Slots -> Keys \cup {NoKey}]
       /\ bytes \in [Slots -> Keys \cup {NoKey}]
  BY DEF TypeOK
<1>12. /\ \A k \in Keys : k # f.key => slotOf'[k] = slotOf[k]
       /\ slotOf'[f.key] = f.slot
       /\ \A s \in Slots : s # f.slot => keyOf'[s] = keyOf[s] /\ bytes'[s] = bytes[s]
       /\ keyOf'[f.slot] = f.key /\ bytes'[f.slot] = f.key
       /\ slotOf' \in [Keys -> Slots \cup {NoSlot}] /\ keyOf' \in [Slots -> Keys \cup {NoKey}]
       /\ bytes' \in [Slots -> Keys \cup {NoKey}]
  <2> HIDE DEF IInv
  <2> QED
    BY <1>2, <1>10, <1>11
<1>13. /\ pending' \in Seq(Events)
       /\ ToSet(pending') = {p \in ToSet(pending) : p.key \notin {f.key}}
  BY <1>2, WokenIs
<1>14. TypeOK' /\ Locked'
  <2>1. TypeOK'
    BY <1>1, <1>2, <1>7, <1>12, <1>13 DEF TypeOK
  <2>2. Locked'
    BY <1>1, <1>7 DEF Locked
  <2> QED
    BY <2>1, <2>2
<1>15. EverySlotInOnePlace'
  <2> DEFINE occupied == {s \in Slots : keyOf[s] # NoKey}
             unused == ToSet(free)
  <2>1. /\ occupied \cup unused \cup reserved = Slots
        /\ occupied \cap unused = {} /\ occupied \cap reserved = {} /\ unused \cap reserved = {}
        /\ IsInjective(free)
    BY DEF EverySlotInOnePlace
  <2>2. \A k \in Keys : Resident(k)' => keyOf'[slotOf'[k]] = k
    <3> SUFFICES ASSUME NEW k \in Keys, slotOf'[k] # NoSlot, k # f.key
                 PROVE  keyOf'[slotOf'[k]] = k
      BY <1>12 DEF Resident
    <3>1. slotOf'[k] = slotOf[k] /\ slotOf[k] \in Slots
      BY <1>11, <1>12
    <3>2. keyOf[slotOf[k]] = k /\ k # NoKey
      BY <3>1, ColdTierAssumption DEF EverySlotInOnePlace, Resident
    <3> HIDE DEF IInv
    <3> QED
      BY <1>10, <1>12, <3>1, <3>2
  <2>3. occupied' = occupied \cup {f.slot} /\ unused' = unused /\ reserved' = reserved \ {f.slot}
    BY <1>1, <1>2, <1>10, <1>12
  <2>4. \A s \in occupied' : slotOf'[keyOf'[s]] = s
    <3> SUFFICES ASSUME NEW s \in Slots, keyOf'[s] # NoKey, s # f.slot
                 PROVE  slotOf'[keyOf'[s]] = s
      BY <1>12
    <3>1. keyOf'[s] = keyOf[s] /\ keyOf[s] \in Keys
      BY <1>11, <1>12
    <3>2. slotOf[keyOf[s]] = s /\ s # NoSlot
      BY <3>1 DEF EverySlotInOnePlace, Slots, NoSlot
    <3> HIDE DEF IInv
    <3> QED
      BY <1>10, <1>12, <3>1, <3>2
  <2>5. IsInjective(free')
    BY <1>1, <2>1
  <2> HIDE DEF IInv, occupied, unused
  <2>6. /\ occupied' \cup unused' \cup reserved' = Slots
        /\ occupied' \cap unused' = {} /\ occupied' \cap reserved' = {} /\ unused' \cap reserved' = {}
    BY <1>10, <2>1, <2>3 DEF unused
  <2> QED
    BY <2>2, <2>4, <2>5, <2>6 DEF EverySlotInOnePlace, occupied, unused
<1>16. Filling'
  <2> DEFINE gone == {f}
  <2>1. /\ gone \in SUBSET Batch(t) /\ Batch(t)' = Batch(t) \ gone
        /\ reserved' = reserved \ {g.slot : g \in gone}
        /\ ToSet(pending') = {p \in ToSet(pending) : p.key \notin {g.key : g \in gone}}
    BY <1>2, <1>8, <1>13
  <2>2. \A k \in Keys : Resident(k)' => Resident(k) \/ k \in {g.key : g \in gone}
    BY <1>12 DEF Resident
  <2>3. TypeOK /\ Filling
    OBVIOUS
  <2> HIDE DEF IInv, gone, Batch, Resident
  <2> QED
    BY <1>9, <2>1, <2>2, <2>3, FillingLess
<1>17. InPhase' /\ Asked'
  <2>1. PhaseOf(t)'
    BY <1>4, <1>7, <1>8 DEF PhaseOf
  <2>2. AskedOf(t)'
    BY <1>7 DEF Asked, AskedOf
  <2> QED
    BY <1>9, <2>1, <2>2 DEF InPhase, Asked
<1>18. \A r \in copies.reading : r.slot \in Slots /\ r.slot # f.slot
  <2>1. f.slot \in BatchSlots(t)
    <3>1. BatchSlots(t) = {g.slot : g \in Batch(t)}
      BY BatchIs
    <3> HIDE DEF Batch, BatchSlots
    <3> QED
      BY <1>8, <3>1
  <2> HIDE DEF BatchSlots
  <2> QED
    BY <1>1, <2>1 DEF Fenced, TypeOK
<1>19. ResidentBytesAreItsOwn' /\ CopyReadsItsRow'
  BY <1>1, <1>10, <1>12, <1>18 DEF ResidentBytesAreItsOwn, CopyReadsItsRow
<1>20. Soft'
  BY <1>1, <1>10, <1>12 DEF Soft, Resident, TypeOK
<1>21. Fenced'
  <2>1. BatchSlots(t)' = {g.slot : g \in Batch(t)'}
    BY <1>14, BatchIs DEF BatchSlots, Batch, ToSet
  <2>2. BatchSlots(t) = {g.slot : g \in Batch(t)}
    BY BatchIs
  <2>3. BatchSlots(t)' \subseteq BatchSlots(t)
    <3> HIDE DEF Batch, BatchSlots
    <3> QED
      BY <1>9, <2>1, <2>2
  <2> QED
    BY <1>1, <1>7, <2>3, FencedLess
<1>22. Protected'
  <2>1. CASE t # Demand
    <3>1. \A k \in Keys : slotOf[k] \in window => slotOf'[k] = slotOf[k]
      BY <1>10, <1>12 DEF TypeOK, Slots, NoSlot
    <3>2. local'[Demand] = local[Demand]
      BY <1>7, <2>1 DEF Threads
    <3> QED
      BY <1>1, <3>1, <3>2, ProtectedFrame
  <2>2. CASE t = Demand
    <3> HIDE DEF Batch
    <3>1. c.resolved[f.key] = f.slot /\ f.slot \in window
      BY <1>8, <2>2 DEF Protected, OwnFills
    <3>2. RowsHeld'
      <4> SUFFICES ASSUME NEW k \in Keys, d.resolved[k] # NoSlot, ~d.failed,
                          \A g \in Batch(Demand)' : g.key # k
                   PROVE  slotOf'[k] = d.resolved[k] /\ slotOf'[k] \in window'
        BY <2>2 DEF RowsHeld
      <4>1. CASE k = f.key
        BY <1>1, <1>7, <1>12, <3>1, <4>1
      <4>2. CASE k # f.key
        <5>1. \A g \in Batch(Demand) : g.key # k
          BY <1>8, <2>2, <4>2
        <5> QED
          BY <1>1, <1>7, <1>12, <2>2, <4>2, <5>1 DEF Protected, RowsHeld
      <4> QED
        BY <4>1, <4>2
    <3>3. OwnFills' /\ WindowIsOwn' /\ KeysAccounted' /\ WantsRow'
      BY <1>1, <1>7, <1>9, <2>2
      DEF Protected, OwnFills, WindowIsOwn, KeysAccounted, WantsRow
    <3> QED
      BY <3>2, <3>3 DEF Protected
  <2> QED
    BY <2>1, <2>2
<1> QED
  BY <1>14, <1>15, <1>16, <1>17, <1>19, <1>20, <1>21, <1>22

-----------------------------------------------------------------------------
(* What a demand call finds at its entry and in its awaited keys; and a    *)
(* row dropped between calls.                                              *)
LEMMA AwaitKeeps ==
  ASSUME IInv, NEW t \in Threads, Await(t)
  PROVE  IInv'
<1> USE DEF IInv
<1> DEFINE c == local[t]
           d == local'[t]
           k == Head(c.waits).key
<1>1. /\ c.pc = "waits" /\ c.waits # <<>> /\ lock = NoThread
      /\ UNCHANGED <<slotOf, keyOf, free, reserved, pending, gen, fence, lock, bytes, copies>>
      /\ IF Resident(k)
         THEN /\ reclaimable' = reclaimable \ {k}
              /\ window' = window \cup {slotOf[k]}
              /\ local' = [local EXCEPT ![t].waits = Tail(@), ![t].resolved[k] = slotOf[k]]
         ELSE /\ local' = [local EXCEPT ![t].pc = "refetch", ![t].waits = Tail(@),
                                        ![t].todo = <<k>>]
              /\ UNCHANGED <<reclaimable, window>>
  BY DEF Await
<1>2. c \in Calls /\ local \in [Threads -> Calls]
  BY DEF TypeOK
<1>3. t = Demand /\ c.todo = <<>> /\ c.keys # {} /\ Batch(t) = {} /\ ~c.failed
  BY <1>1 DEF InPhase, PhaseOf
<1>4. /\ Tail(c.waits) \in Seq(Events) /\ k \in Keys /\ Head(c.waits) \in ToSet(c.waits)
      /\ \A w \in ToSet(c.waits) : w.key = k \/ w \in ToSet(Tail(c.waits))
      /\ \A w \in ToSet(Tail(c.waits)) : w \in ToSet(c.waits)
  <2>1. c.waits \in Seq(Events)
    BY <1>2 DEF Calls
  <2> HIDE DEF IInv
  <2>2. /\ Tail(c.waits) \in Seq(Events) /\ Head(c.waits) \in Events
        /\ ToSet(c.waits) = {Head(c.waits)} \cup ToSet(Tail(c.waits))
    BY <1>1, <2>1, TailIs
  <2> QED
    BY <2>2 DEF Events
<1>5. k \in c.keys
  BY <1>4 DEF Asked, AskedOf
<1> HIDE DEF k
<1>6. CASE Resident(k)
  <2>1. slotOf[k] \in Slots
    BY <1>4, <1>6 DEF TypeOK, Resident
  <2>2. [c.resolved EXCEPT ![k] = slotOf[k]] \in [Keys -> Slots \cup {NoSlot}]
    BY <1>2, <1>4, <2>1 DEF Calls
  <2>3. local' = [local EXCEPT ![t].waits = Tail(c.waits),
                               ![t].resolved = [c.resolved EXCEPT ![k] = slotOf[k]]]
    BY <1>1, <1>2, <1>6
  <2>4. /\ d.pc = "waits" /\ d.todo = c.todo
        /\ d.resolved = [c.resolved EXCEPT ![k] = slotOf[k]] /\ d.keys = c.keys
        /\ d.batch = c.batch /\ d.failed = c.failed /\ d.waits = Tail(c.waits)
        /\ local' \in [Threads -> Calls]
        /\ \A u \in Threads : u # t => local'[u] = local[u]
    <3> HIDE DEF IInv
    <3> QED
      BY <1>1, <1>2, <1>4, <2>2, <2>3 DEF Calls
  <2> HIDE DEF d
  <2>5. Batch(t)' = {} /\ \A u \in Threads : Batch(u)' = Batch(u)
    <3>1. Batch(t)' = Batch(t)
      BY <2>4 DEF Batch, d
    <3>2. \A u \in Threads : u # t => Batch(u)' = Batch(u)
      BY <2>4, OthersKeep
    <3> HIDE DEF Batch
    <3> QED
      BY <1>3, <3>1, <3>2
  <2>6. \A u \in Threads : u # t => PhaseOf(u)' /\ AskedOf(u)'
    BY <2>4, OthersKeep DEF InPhase, Asked
  <2>7. TypeOK'
    BY <1>1, <1>6, <2>1, <2>4 DEF TypeOK
  <2>8. Locked' /\ EverySlotInOnePlace' /\ ResidentBytesAreItsOwn' /\ CopyReadsItsRow'
    BY <1>1, <2>4 DEF Locked, EverySlotInOnePlace, Resident, ResidentBytesAreItsOwn,
                      CopyReadsItsRow, d
  <2>9. Filling'
    BY <1>1, <2>5, FillingFrame DEF Resident
  <2>10. InPhase' /\ Asked'
    <3>1. PhaseOf(t)'
      BY <1>3, <2>4, <2>5 DEF PhaseOf, d
    <3>2. c.resolved \in [Keys -> Slots \cup {NoSlot}]
      BY <1>2 DEF Calls
    <3>3. AskedOf(t)'
      BY <1>4, <1>5, <2>4, <3>2 DEF Asked, AskedOf, d
    <3> QED
      BY <2>6, <3>1, <3>3 DEF InPhase, Asked
  <2>11. Protected'
    <3>1. Batch(Demand)' = Batch(Demand) /\ Demand \in Threads
      BY <1>3, <2>5
    <3> HIDE DEF IInv
    <3> QED
      BY <1>1, <1>3, <1>4, <1>6, <2>4, <3>1, ProtectedHit DEF d
  <2>12. Soft'
    BY <1>1, <1>4, <1>6 DEF Soft, Resident, EverySlotInOnePlace, TypeOK
  <2>13. Fenced'
    BY <1>1, <2>4, FencedFrame DEF d
  <2> QED
    BY <2>7, <2>8, <2>9, <2>10, <2>11, <2>12, <2>13
<1>7. CASE ~Resident(k)
  <2> DEFINE todo == <<k>>
  <2>1. todo \in Seq(Keys) /\ ToSet(todo) = {k} /\ todo # <<>>
    BY <1>4 DEF ToSet
  <2> HIDE DEF todo
  <2>2. local' = [local EXCEPT ![t].pc = "refetch", ![t].waits = Tail(c.waits), ![t].todo = todo]
    BY <1>1, <1>2, <1>7 DEF todo
  <2>3. /\ d.pc = "refetch" /\ d.todo = todo /\ d.resolved = c.resolved /\ d.keys = c.keys
        /\ d.batch = c.batch /\ d.failed = c.failed /\ d.waits = Tail(c.waits)
        /\ local' \in [Threads -> Calls]
        /\ \A u \in Threads : u # t => local'[u] = local[u]
    <3>1. "refetch" \in Phases
      BY DEF Phases
    <3> HIDE DEF IInv
    <3> QED
      BY <1>1, <1>2, <1>4, <2>1, <2>2, <3>1 DEF Calls
  <2>4. /\ TypeOK' /\ EverySlotInOnePlace' /\ Filling' /\ ResidentBytesAreItsOwn'
        /\ CopyReadsItsRow' /\ Fenced'
        /\ \A u \in Threads : Batch(u)' = Batch(u)
        /\ \A u \in Threads : u # t => PhaseOf(u)' /\ AskedOf(u)'
    <3>1. reclaimable' \in SUBSET Keys /\ lock' \in Threads \cup {NoThread}
      BY <1>1, <1>7 DEF TypeOK
    <3>2. ToSet(d.batch) = Batch(t)
      BY <2>3 DEF Batch
    <3> HIDE DEF IInv
    <3> QED
      BY <1>1, <1>7, <2>3, <3>1, <3>2, ControlStep
  <2> HIDE DEF d
  <2>5. Locked'
    BY <1>1, <2>3 DEF Locked, d
  <2>6. InPhase' /\ Asked'
    <3>1. PhaseOf(t)'
      BY <1>3, <2>1, <2>3, <2>4 DEF PhaseOf, d
    <3>2. AskedOf(t)'
      BY <1>4, <1>5, <2>1, <2>3 DEF Asked, AskedOf, d
    <3> QED
      BY <2>4, <3>1, <3>2 DEF InPhase, Asked
  <2>7. Soft'
    BY <1>1, <1>7 DEF Soft, Resident
  <2>8. Protected'
    <3>1. Batch(Demand)' = Batch(Demand)
      BY <1>3, <2>4
    <3> HIDE DEF Batch
    <3>2. RowsHeld' /\ OwnFills' /\ WindowIsOwn' /\ WantsRow'
      BY <1>1, <1>3, <1>7, <2>3, <3>1
      DEF Protected, RowsHeld, OwnFills, WindowIsOwn, WantsRow, d
    <3>3. KeysAccounted'
      <4>1. \A j : j \notin ToSet(<<>>)
        BY DEF ToSet
      <4> QED
        BY <1>3, <1>4, <2>1, <2>3, <4>1 DEF Protected, KeysAccounted, d
    <3> QED
      BY <3>2, <3>3 DEF Protected
  <2> QED
    BY <2>4, <2>5, <2>6, <2>7, <2>8
<1> QED
  BY <1>6, <1>7

LEMMA InvalidateKeeps ==
  ASSUME IInv, NEW k \in Keys, Invalidate(k)
  PROVE  IInv'
<1> USE DEF IInv
<1> DEFINE s == slotOf[k]
<1>1. /\ lock = NoThread /\ s # NoSlot /\ s \notin reserved \cup window
      /\ slotOf' = [slotOf EXCEPT ![k] = NoSlot]
      /\ keyOf' = [keyOf EXCEPT ![s] = NoKey]
      /\ reclaimable' = reclaimable \ {k}
      /\ gen' = [gen EXCEPT ![s] = @ + 1]
      /\ free' = IF s \in ToSet(free) THEN free ELSE Append(free, s)
      /\ UNCHANGED <<reserved, pending, window, fence, lock, local, bytes, copies>>
  BY DEF Invalidate, Resident, NextGeneration
<1>2. /\ slotOf \in [Keys -> Slots \cup {NoSlot}] /\ keyOf \in [Slots -> Keys \cup {NoKey}]
      /\ gen \in [Slots -> Nat] /\ free \in Seq(Slots)
  BY DEF TypeOK
<1>3. s \in Slots /\ keyOf[s] = k /\ k # NoKey
  BY <1>1, <1>2, ColdTierAssumption DEF EverySlotInOnePlace, Resident
<1>4. s \notin ToSet(free) /\ IsInjective(free)
  BY <1>3 DEF EverySlotInOnePlace
<1> HIDE DEF s
<1>5. /\ free' \in Seq(Slots) /\ ToSet(free') = ToSet(free) \cup {s} /\ IsInjective(free')
  BY <1>1, <1>2, <1>3, <1>4, AppendIs
<1>6. /\ \A j \in Keys : j # k => slotOf'[j] = slotOf[j]
      /\ slotOf'[k] = NoSlot /\ slotOf[k] = s
      /\ \A x \in Slots : x # s => keyOf'[x] = keyOf[x]
      /\ keyOf'[s] = NoKey
      /\ slotOf' \in [Keys -> Slots \cup {NoSlot}] /\ keyOf' \in [Slots -> Keys \cup {NoKey}]
      /\ gen' \in [Slots -> Nat]
  <2>1. slotOf[k] = s
    BY DEF s
  <2> HIDE DEF IInv
  <2> QED
    BY <1>1, <1>2, <1>3, <2>1
<1>7. Demand \in Threads /\ \A u \in Threads : local'[u] = local[u]
  BY <1>1 DEF Threads
<1>8. \A u \in Threads : Batch(u)' = Batch(u) /\ PhaseOf(u)' /\ AskedOf(u)'
  BY <1>7, OthersKeep DEF InPhase, Asked
<1>9. TypeOK' /\ Locked'
  BY <1>1, <1>5, <1>6 DEF TypeOK, Locked
<1>10. EverySlotInOnePlace'
  <2> DEFINE occupied == {x \in Slots : keyOf[x] # NoKey}
             unused == ToSet(free)
  <2>1. /\ occupied \cup unused \cup reserved = Slots
        /\ occupied \cap unused = {} /\ occupied \cap reserved = {} /\ unused \cap reserved = {}
    BY DEF EverySlotInOnePlace
  <2>2. \A j \in Keys : Resident(j)' => keyOf'[slotOf'[j]] = j
    <3> SUFFICES ASSUME NEW j \in Keys, slotOf'[j] # NoSlot, j # k
                 PROVE  keyOf'[slotOf'[j]] = j
      BY <1>6 DEF Resident
    <3>1. slotOf'[j] = slotOf[j] /\ slotOf[j] \in Slots /\ keyOf[slotOf[j]] = j
      BY <1>2, <1>6 DEF EverySlotInOnePlace, Resident
    <3> HIDE DEF IInv
    <3> QED
      BY <1>3, <1>6, <3>1
  <2>3. occupied' = occupied \ {s} /\ unused' = unused \cup {s} /\ reserved' = reserved
    BY <1>1, <1>5, <1>6
  <2>4. \A x \in occupied' : slotOf'[keyOf'[x]] = x
    <3> SUFFICES ASSUME NEW x \in Slots, keyOf[x] # NoKey, x # s
                 PROVE  slotOf'[keyOf[x]] = x
      BY <1>6
    <3>1. keyOf[x] \in Keys /\ slotOf[keyOf[x]] = x
      BY <1>2 DEF EverySlotInOnePlace
    <3> HIDE DEF IInv
    <3> QED
      BY <1>6, <3>1
  <2>5. s \in occupied
    BY <1>3
  <2> HIDE DEF IInv, occupied, unused
  <2>6. /\ occupied' \cup unused' \cup reserved' = Slots
        /\ occupied' \cap unused' = {} /\ occupied' \cap reserved' = {} /\ unused' \cap reserved' = {}
    BY <1>1, <2>1, <2>3, <2>5
  <2> QED
    BY <1>5, <2>2, <2>4, <2>6 DEF EverySlotInOnePlace, occupied, unused
<1>11. Filling'
  BY <1>1, <1>6, <1>8, FillingFrame DEF Resident
<1>12. ResidentBytesAreItsOwn' /\ CopyReadsItsRow' /\ Soft'
  BY <1>1, <1>6 DEF ResidentBytesAreItsOwn, CopyReadsItsRow, Soft, Resident, TypeOK
<1>13. Protected'
  <2>1. \A j \in Keys : slotOf[j] \in window => slotOf'[j] = slotOf[j]
    BY <1>1, <1>6
  <2> QED
    BY <1>1, <1>7, <2>1, ProtectedFrame
<1>14. Fenced'
  BY <1>1, <1>7, FencedFrame
<1> QED
  BY <1>8, <1>9, <1>10, <1>11, <1>12, <1>13, <1>14 DEF InPhase, Asked

LEMMA BeginKeeps ==
  ASSUME IInv, NEW t \in Threads, NEW q \in Requests[t], Begin(t, q)
  PROVE  IInv'
<1> USE DEF IInv
<1> DEFINE c == local[t]
           d == local'[t]
           hits == {k \in ToSet(q) : Resident(k)}
           kept == [k \in Keys |-> IF k \in hits THEN slotOf[k] ELSE NoSlot]
           todo == Only(q, {k \in Keys : ~Resident(k)})
           call == [Idle(c.calls + 1) EXCEPT !.pc = "plan", !.resolved = kept,
                                             !.keys = ToSet(q), !.todo = todo]
<1>1. /\ lock = NoThread /\ c.pc = "idle" /\ lock' = t
      /\ local' = [local EXCEPT ![t] = call]
      /\ reclaimable' = reclaimable \ hits
      /\ window' = IF t = Demand THEN {slotOf[k] : k \in hits} ELSE window
      /\ UNCHANGED <<slotOf, keyOf, free, reserved, pending, gen, fence, bytes, copies>>
  BY DEF Begin, FreshWindow
<1>2. c.calls \in Nat /\ local \in [Threads -> Calls]
  BY DEF TypeOK, Calls
<1>3. /\ q \in Seq(Keys) /\ ToSet(q) \subseteq Keys /\ ToSet(q) # {}
      /\ IsFiniteSet(ToSet(q)) /\ Cardinality(ToSet(q)) <= HotRows
  <2>1. q \in Seq(Keys) /\ Len(q) \in 1 .. HotRows /\ HotRows \in Nat
    BY ColdTierAssumption
  <2> HIDE DEF IInv
  <2>2. IsFiniteSet(ToSet(q)) /\ Cardinality(ToSet(q)) <= Len(q)
    BY <2>1, HeldFinite
  <2>3. Cardinality(ToSet(q)) \in Nat
    BY <2>2, FS_CardinalityType
  <2>4. ToSet(q) \subseteq Keys /\ (q = <<>> <=> ToSet(q) = {})
    BY <2>1, HeldIs
  <2>5. q # <<>>
    BY <2>1, EmptySeq
  <2> QED
    BY <2>1, <2>2, <2>3, <2>4, <2>5
<1>4. todo \in Seq(Keys) /\ ToSet(todo) = ToSet(q) \cap {k \in Keys : ~Resident(k)}
  <2> DEFINE S == {k \in Keys : ~Resident(k)}
  <2> HIDE DEF IInv, S
  <2> QED
    BY <1>3, OnlyIs DEF S
<1>5. /\ kept \in [Keys -> Slots \cup {NoSlot}]
      /\ \A k \in Keys : kept[k] # NoSlot => k \in hits /\ kept[k] = slotOf[k]
      /\ \A k \in hits : k \in Keys /\ kept[k] = slotOf[k] /\ slotOf[k] \in Slots /\ slotOf[k] # NoSlot
  BY <1>3 DEF TypeOK, Resident
<1> HIDE DEF kept, todo
<1>6. /\ d.pc = "plan" /\ d.todo = todo /\ d.resolved = kept /\ d.keys = ToSet(q)
      /\ d.batch = <<>> /\ ~d.failed /\ d.waits = <<>>
      /\ local' \in [Threads -> Calls]
      /\ \A u \in Threads : u # t => local'[u] = local[u]
  <2>1. "plan" \in Phases
    BY DEF Phases
  <2>2. /\ Idle(c.calls + 1) \in Calls /\ Idle(c.calls + 1).batch = <<>>
        /\ Idle(c.calls + 1).waits = <<>> /\ ~Idle(c.calls + 1).failed
    BY <1>2, IdleIs
  <2>3. d = call
    BY <1>1, <1>2
  <2> DEFINE old == Idle(c.calls + 1)
  <2>4. d = [old EXCEPT !.pc = "plan", !.resolved = kept, !.keys = ToSet(q), !.todo = todo]
    BY <2>3
  <2>5. old \in Calls /\ old.batch = <<>> /\ old.waits = <<>> /\ ~old.failed
    BY <2>2
  <2> HIDE DEF IInv, old, d
  <2>6. d \in Calls
    BY <1>3, <1>4, <1>5, <2>1, <2>4, <2>5 DEF Calls
  <2>7. local' \in [Threads -> Calls] /\ \A u \in Threads : u # t => local'[u] = local[u]
    BY <1>1, <1>2, <2>6 DEF d
  <2> QED
    BY <2>4, <2>5, <2>7 DEF Calls
<1> HIDE DEF d
<1>7. ToSet(<<>>) = {}
  BY DEF ToSet
<1>8. Batch(t) = {} /\ Batch(t)' = {}
  <2>1. Batch(t)' = {}
    BY <1>6, <1>7 DEF Batch, d
  <2> QED
    BY <1>1, <2>1 DEF InPhase, PhaseOf
<1>9. \A u \in Threads : u # t => Batch(u)' = Batch(u) /\ PhaseOf(u)' /\ AskedOf(u)'
  BY <1>6, OthersKeep DEF InPhase, Asked
<1>10. TypeOK'
  <2>1. window' \in SUBSET Slots
    BY <1>1, <1>5 DEF TypeOK
  <2> QED
    BY <1>1, <1>6, <2>1 DEF TypeOK
<1>11. Locked'
  BY <1>1, <1>6, ColdTierAssumption DEF Locked, d
<1>12. EverySlotInOnePlace' /\ ResidentBytesAreItsOwn' /\ CopyReadsItsRow'
  BY <1>1 DEF EverySlotInOnePlace, Resident, ResidentBytesAreItsOwn, CopyReadsItsRow
<1>13. Filling'
  <2>1. \A u \in Threads : Batch(u)' = Batch(u)
    BY <1>8, <1>9
  <2> QED
    BY <1>1, <2>1, FillingFrame DEF Resident
<1>14. InPhase' /\ Asked'
  <2>1. PhaseOf(t)'
    BY <1>3, <1>6, <1>8, ColdTierAssumption DEF PhaseOf, d
  <2>2. AskedOf(t)'
    BY <1>3, <1>4, <1>5, <1>6, <1>7 DEF AskedOf, d
  <2> QED
    BY <1>9, <2>1, <2>2 DEF InPhase, Asked
<1>15. Soft'
  <2> SUFFICES ASSUME NEW k \in reclaimable, k \notin hits
               PROVE  Resident(k) /\ slotOf[k] \notin window'
    BY <1>1 DEF Soft, Resident
  <2>1. k \in Keys /\ Resident(k) /\ slotOf[k] \notin window
    BY DEF Soft, TypeOK
  <2>2. \A j \in hits : slotOf[j] # slotOf[k]
    BY <1>5, <2>1 DEF EverySlotInOnePlace, Resident
  <2> QED
    BY <1>1, <2>1, <2>2
<1>16. Protected'
  <2>1. CASE t # Demand
    <3>1. local'[Demand] = local[Demand]
      BY <1>6, <2>1 DEF Threads
    <3> QED
      BY <1>1, <2>1, <3>1, ProtectedFrame
  <2>2. CASE t = Demand
    <3> HIDE DEF Batch, IInv, hits
    <3>1. window' = {slotOf[k] : k \in hits} /\ slotOf' = slotOf
      BY <1>1, <2>2
    <3>2. RowsHeld'
      BY <1>5, <1>6, <2>2, <3>1 DEF RowsHeld, d
    <3>3. OwnFills' /\ WantsRow'
      BY <1>6, <1>8, <2>2 DEF OwnFills, WantsRow, d
    <3>4. WindowIsOwn'
      BY <1>5, <1>6, <2>2, <3>1 DEF WindowIsOwn, d
    <3>5. KeysAccounted'
      BY <1>3, <1>4, <1>5, <1>6, <2>2 DEF KeysAccounted, hits, d
    <3> QED
      BY <3>2, <3>3, <3>4, <3>5 DEF Protected
  <2> QED
    BY <2>1, <2>2
<1>17. Fenced'
  <2>1. \A u \in Threads : \/ local'[u] = local[u]
                           \/ /\ local[u].pc \notin {"submit", "unsubmit", "drain", "fencing"}
                              /\ local'[u].pc \notin {"submit", "unsubmit", "drain"}
    BY <1>1, <1>6 DEF d
  <2> QED
    BY <1>1, <2>1, FencedFrame
<1> QED
  BY <1>10, <1>11, <1>12, <1>13, <1>14, <1>15, <1>16, <1>17

-----------------------------------------------------------------------------
(* Claiming a slot.  A new event is none of those held, of which there are *)
(* finitely many.                                                          *)
LEMMA NewEventIs ==
  ASSUME TypeOK
  PROVE  NewEvent \in Nat
<1> DEFINE waiting(t) == {local[t].waits[i].ev : i \in DOMAIN local[t].waits}
           A == {waiting(t) : t \in Threads}
           B == {local[t].ev : t \in Threads}
           taken == PendingEvents \cup (UNION A) \cup B
<1>1. NewEvent = CHOOSE n \in 1 .. Cardinality(taken) + 1 : n \notin taken
  BY DEF NewEvent
<1>2. IsFiniteSet(Threads)
  BY FS_AddElement, ColdTierAssumption DEF Threads
<1>3. IsFiniteSet(PendingEvents)
  <2> DEFINE f == [i \in DOMAIN pending |-> pending[i].ev]
  <2>1. pending \in Seq(Events)
    BY DEF TypeOK
  <2>2. DOMAIN pending = 1 .. Len(pending) /\ Len(pending) \in Nat
    BY <2>1, LenProperties
  <2>3. IsFiniteSet(DOMAIN pending)
    BY <2>2, FS_Interval
  <2>4. DOMAIN pending \subseteq DOMAIN f
    OBVIOUS
  <2>5. PendingEvents = {f[i] : i \in DOMAIN pending}
    BY DEF PendingEvents
  <2> HIDE DEF f
  <2> QED
    BY <2>3, <2>4, <2>5, ImageIs
<1>4. IsFiniteSet(UNION A)
  <2>1. \A t \in Threads : IsFiniteSet(waiting(t))
    <3> SUFFICES ASSUME NEW t \in Threads
                 PROVE  IsFiniteSet(waiting(t))
      OBVIOUS
    <3> DEFINE w == local[t].waits
               f == [i \in DOMAIN w |-> w[i].ev]
    <3>1. w \in Seq(Events)
      BY DEF TypeOK, Calls
    <3>2. DOMAIN w = 1 .. Len(w) /\ Len(w) \in Nat
      BY <3>1, LenProperties
    <3>3. IsFiniteSet(DOMAIN w)
      BY <3>2, FS_Interval
    <3>4. DOMAIN w \subseteq DOMAIN f
      OBVIOUS
    <3>5. waiting(t) = {f[i] : i \in DOMAIN w}
      OBVIOUS
    <3> HIDE DEF f, w, waiting
    <3> QED
      BY <3>3, <3>4, <3>5, ImageIs
  <2> DEFINE g == [t \in Threads |-> waiting(t)]
  <2>2. A = {g[t] : t \in Threads} /\ Threads \subseteq DOMAIN g
    OBVIOUS
  <2> HIDE DEF g
  <2>3. IsFiniteSet({g[t] : t \in Threads})
    BY <1>2, <2>2, ImageIs
  <2>4. IsFiniteSet(A)
    BY <2>2, <2>3
  <2>5. \A T \in A : IsFiniteSet(T)
    BY <2>1
  <2> HIDE DEF A
  <2> QED
    BY <2>4, <2>5, FS_UNION
<1>5. IsFiniteSet(B)
  <2> DEFINE g == [t \in Threads |-> local[t].ev]
  <2>1. B = {g[t] : t \in Threads} /\ Threads \subseteq DOMAIN g
    OBVIOUS
  <2> HIDE DEF g, B
  <2> QED
    BY <1>2, <2>1, ImageIs
<1> HIDE DEF A, B
<1>6. IsFiniteSet(taken)
  <2> DEFINE C == PendingEvents \cup (UNION A)
  <2>1. IsFiniteSet(C)
    BY <1>3, <1>4, FS_Union
  <2>2. taken = C \cup B
    BY DEF taken
  <2> HIDE DEF C
  <2>3. IsFiniteSet(C \cup B)
    BY <1>5, <2>1, FS_Union
  <2> QED
    BY <2>2, <2>3
<1> HIDE DEF taken
<1> DEFINE n == Cardinality(taken)
<1>7. n \in Nat
  BY <1>6, FS_CardinalityType
<1>8. \E i \in 1 .. n + 1 : i \notin taken
  <2> SUFFICES ASSUME 1 .. n + 1 \subseteq taken
               PROVE  FALSE
    OBVIOUS
  <2>1. Cardinality(1 .. n + 1) <= n
    BY <1>6, FS_Subset
  <2> HIDE DEF n
  <2> DEFINE m == n + 1
  <2>2. 1 \in Int /\ m \in Int /\ m > 0
    BY <1>7
  <2>3. Cardinality(1 .. m) <= n
    BY <2>1
  <2> HIDE DEF m
  <2>4. Cardinality(1 .. m) = IF 1 > m THEN 0 ELSE m - 1 + 1
    BY <2>2, FS_Interval
  <2>5. Cardinality(1 .. m) = m
    BY <2>2, <2>4
  <2>6. m = n + 1
    BY DEF m
  <2> QED
    BY <1>7, <2>2, <2>3, <2>5, <2>6
<1> HIDE DEF n
<1>9. NewEvent \in 1 .. n + 1
  BY <1>1, <1>8 DEF n
<1> QED
  BY <1>7, <1>9

(* A claim has taken slot s out of the pool, and with it its row, the one  *)
(* in out if it had one; left is the free list without it.  sl and ks are  *)
(* what the maps have become.                                              *)
Taken(s, left, out, sl, ks) ==
  /\ s \in Slots /\ left \in Seq(Slots) /\ IsInjective(left)
  /\ out \subseteq Keys
  /\ sl \in [Keys -> Slots \cup {NoSlot}] /\ ks \in [Slots -> Keys \cup {NoKey}]
  /\ \A k \in Keys : sl[k] # NoSlot => ks[sl[k]] = k
  /\ \A x \in Slots : ks[x] # NoKey => sl[ks[x]] = x /\ ks[x] = keyOf[x]
  /\ LET occupied == {x \in Slots : ks[x] # NoKey}
         unused   == ToSet(left)
     IN /\ occupied \cup unused \cup reserved \cup {s} = Slots
        /\ occupied \cap unused = {} /\ occupied \cap reserved = {} /\ unused \cap reserved = {}
        /\ s \notin occupied /\ s \notin unused /\ s \notin reserved
  /\ \A k \in out : sl[k] = NoSlot
  /\ \A k \in Keys : k \notin out => sl[k] = slotOf[k]
  /\ \A k \in Keys : slotOf[k] \in window => k \notin out

LEMMA FreeTaken ==
  ASSUME IInv, free # <<>>
  PROVE  Taken(Last(free), Front(free), {}, slotOf, keyOf)
<1> USE DEF IInv
<1> DEFINE s == Last(free)
           left == Front(free)
           occupied == {x \in Slots : keyOf[x] # NoKey}
           unused == ToSet(free)
<1>1. /\ free \in Seq(Slots) /\ IsInjective(free)
      /\ slotOf \in [Keys -> Slots \cup {NoSlot}] /\ keyOf \in [Slots -> Keys \cup {NoKey}]
  BY DEF TypeOK, EverySlotInOnePlace
<1>2. /\ s \in Slots /\ left \in Seq(Slots) /\ IsInjective(left)
      /\ s \notin ToSet(left) /\ unused = ToSet(left) \cup {s}
  <2> HIDE DEF IInv
  <2> QED
    BY <1>1, FrontIs
<1>3. /\ occupied \cup unused \cup reserved = Slots
      /\ occupied \cap unused = {} /\ occupied \cap reserved = {} /\ unused \cap reserved = {}
  BY DEF EverySlotInOnePlace
<1>4. /\ \A k \in Keys : slotOf[k] # NoSlot => keyOf[slotOf[k]] = k
      /\ \A x \in Slots : keyOf[x] # NoKey => slotOf[keyOf[x]] = x
  BY DEF EverySlotInOnePlace, Resident
<1> HIDE DEF IInv, s, left, unused, occupied
<1>5. /\ occupied \cup ToSet(left) \cup reserved \cup {s} = Slots
      /\ occupied \cap ToSet(left) = {} /\ occupied \cap reserved = {} /\ ToSet(left) \cap reserved = {}
      /\ s \notin occupied /\ s \notin ToSet(left) /\ s \notin reserved
  BY <1>2, <1>3
<1> QED
  BY <1>1, <1>2, <1>4, <1>5 DEF Taken, s, left, occupied

LEMMA VictimTaken ==
  ASSUME IInv, NEW t \in Threads, free = <<>>, NEW s \in Victims(t),
         slotOf' = [slotOf EXCEPT ![keyOf[s]] = NoSlot],
         keyOf' = [keyOf EXCEPT ![s] = NoKey]
  PROVE  Taken(s, free, {keyOf[s]}, slotOf', keyOf')
<1> USE DEF IInv
<1> DEFINE v == keyOf[s]
           occupied == {x \in Slots : keyOf[x] # NoKey}
           occupied1 == {x \in Slots : keyOf'[x] # NoKey}
           unused == ToSet(free)
<1>1. /\ free \in Seq(Slots) /\ IsInjective(free)
      /\ slotOf \in [Keys -> Slots \cup {NoSlot}] /\ keyOf \in [Slots -> Keys \cup {NoKey}]
  BY DEF TypeOK, EverySlotInOnePlace
<1>2. s \in Slots /\ v # NoKey /\ s \notin window /\ s \notin reserved
  BY DEF Victims, Evictable
<1>3. v \in Keys /\ slotOf[v] = s /\ s # NoSlot
  BY <1>1, <1>2 DEF EverySlotInOnePlace, Slots, NoSlot
<1>4. /\ occupied \cup unused \cup reserved = Slots
      /\ occupied \cap unused = {} /\ occupied \cap reserved = {} /\ unused \cap reserved = {}
      /\ s \in occupied
  BY <1>2 DEF EverySlotInOnePlace
<1>5. /\ \A k \in Keys : slotOf[k] # NoSlot => keyOf[slotOf[k]] = k
      /\ \A x \in Slots : keyOf[x] # NoKey => slotOf[keyOf[x]] = x
  BY DEF EverySlotInOnePlace, Resident
<1>6. keyOf[s] = v
  OBVIOUS
<1> HIDE DEF IInv, v
<1>7. /\ \A k \in Keys : k # v => slotOf'[k] = slotOf[k]
      /\ slotOf'[v] = NoSlot
      /\ \A x \in Slots : x # s => keyOf'[x] = keyOf[x]
      /\ keyOf'[s] = NoKey
      /\ slotOf' \in [Keys -> Slots \cup {NoSlot}] /\ keyOf' \in [Slots -> Keys \cup {NoKey}]
  BY <1>1, <1>2, <1>3 DEF v
<1>8. occupied1 = occupied \ {s}
  BY <1>7
<1>9. \A k \in Keys : slotOf'[k] # NoSlot => keyOf'[slotOf'[k]] = k
  <2> SUFFICES ASSUME NEW k \in Keys, k # v, slotOf[k] # NoSlot
               PROVE  keyOf'[slotOf[k]] = k
    BY <1>7
  <2>1. slotOf[k] \in Slots /\ keyOf[slotOf[k]] = k /\ slotOf[k] # s
    BY <1>1, <1>5, <1>6
  <2> QED
    BY <1>7, <2>1
<1>10. \A x \in Slots : keyOf'[x] # NoKey => slotOf'[keyOf'[x]] = x /\ keyOf'[x] = keyOf[x]
  <2> SUFFICES ASSUME NEW x \in Slots, x # s, keyOf[x] # NoKey
               PROVE  slotOf'[keyOf[x]] = x
    BY <1>7
  <2>1. keyOf[x] \in Keys /\ slotOf[keyOf[x]] = x /\ keyOf[x] # v
    BY <1>1, <1>3, <1>5
  <2> QED
    BY <1>7, <2>1
<1> HIDE DEF occupied, occupied1, unused
<1>11. /\ occupied1 \cup unused \cup reserved \cup {s} = Slots
       /\ occupied1 \cap unused = {} /\ occupied1 \cap reserved = {} /\ unused \cap reserved = {}
       /\ s \notin occupied1 /\ s \notin unused /\ s \notin reserved
  BY <1>2, <1>4, <1>8
<1>12. \A k \in Keys : slotOf[k] \in window => k \notin {v}
  BY <1>2, <1>3
<1> QED
  BY <1>1, <1>2, <1>3, <1>7, <1>9, <1>10, <1>11, <1>12 DEF Taken, v, occupied1, unused

\* What is not yet resolved when a slot is claimed for it.
LEMMA WantsIs ==
  ASSUME IInv, Claiming(Demand), Demand \in Threads
  PROVE  local[Demand].resolved[Head(local[Demand].todo)] = NoSlot
<1> DEFINE c == local[Demand]
           k == Head(c.todo)
<1>1. CASE c.pc = "claim"
  BY <1>1 DEF IInv, Protected, WantsRow
<1>2. CASE c.pc # "claim"
  <2>1. ~Resident(k) /\ ~Pending(k) /\ c.pc = "plan" /\ c.todo # <<>>
    BY <1>2 DEF Claiming, Planning
  <2>2. k \in Keys
    <3>1. c.todo \in Seq(Keys)
      BY DEF IInv, TypeOK, Calls
    <3> QED
      BY <2>1, <3>1, TailIs
  <2>3. \A f \in Batch(Demand) : f.key # k
    BY <2>1 DEF IInv, Filling
  <2>4. ~c.failed
    BY <2>1 DEF IInv, InPhase, PhaseOf
  <2> HIDE DEF k, Batch
  <2> QED
    BY <2>1, <2>2, <2>3, <2>4 DEF IInv, Protected, RowsHeld, Resident, k
<1> QED
  BY <1>1, <1>2

\* A call that claims a slot, and the key it claims it for.
LEMMA ClaimingIs ==
  ASSUME IInv, NEW t \in Threads, Claiming(t)
  PROVE  LET c == local[t]
             k == Head(c.todo)
         IN /\ lock = t /\ c.pc \in {"plan", "claim"} /\ c.todo # <<>>
            /\ c \in Calls /\ c.keys # {} /\ ~c.failed
            /\ k \in Keys /\ k \in c.keys /\ Tail(c.todo) \in Seq(Keys)
            /\ ToSet(c.todo) = {k} \cup ToSet(Tail(c.todo))
<1> USE DEF IInv
<1> DEFINE c == local[t]
           k == Head(c.todo)
<1>1. lock = t /\ c.pc \in {"plan", "claim"} /\ c.todo # <<>>
  BY DEF Claiming, Planning, InPhase, PhaseOf
<1>2. c \in Calls
  BY DEF TypeOK
<1>3. c.keys # {} /\ ~c.failed /\ ToSet(c.todo) \subseteq c.keys
  BY <1>1 DEF InPhase, PhaseOf, Asked, AskedOf
<1>4. /\ k \in Keys /\ Tail(c.todo) \in Seq(Keys)
      /\ ToSet(c.todo) = {k} \cup ToSet(Tail(c.todo))
  <2>1. c.todo \in Seq(Keys)
    BY <1>2 DEF Calls
  <2> QED
    BY <1>1, <2>1, TailIs
<1> QED
  BY <1>1, <1>2, <1>3, <1>4

(* The slot goes back on the free list: whatever the call found out about  *)
(* its key, the tables are in order.                                       *)
LEMMA PutBackKeeps ==
  ASSUME IInv, NEW t \in Threads, NEW s, NEW left, NEW out,
         Taken(s, left, out, slotOf', keyOf'),
         free' = Append(left, s),
         UNCHANGED <<reserved, pending, fence, lock, bytes, copies>>,
         gen' \in [Slots -> Nat], window' \in SUBSET Slots, reclaimable' \in SUBSET Keys,
         local' \in [Threads -> Calls],
         \A u \in Threads : u # t => local'[u] = local[u],
         local'[t].batch = local[t].batch,
         local[t].pc \in {"plan", "claim"}, local'[t].pc = "plan"
  PROVE  /\ TypeOK' /\ Locked' /\ EverySlotInOnePlace' /\ Filling' /\ ResidentBytesAreItsOwn'
         /\ CopyReadsItsRow' /\ Fenced'
         /\ t # Demand /\ UNCHANGED window => Protected'
         /\ \A u \in Threads : Batch(u)' = Batch(u)
         /\ \A u \in Threads : u # t => PhaseOf(u)' /\ AskedOf(u)'
<1> USE DEF IInv
<1>1. /\ free' \in Seq(Slots) /\ ToSet(free') = ToSet(left) \cup {s} /\ IsInjective(free')
  <2>1. s \in Slots /\ left \in Seq(Slots) /\ IsInjective(left) /\ s \notin ToSet(left)
    BY DEF Taken
  <2> HIDE DEF IInv
  <2> QED
    BY <2>1, AppendIs
<1>2. \A u \in Threads : Batch(u)' = Batch(u)
  <2>1. Batch(t)' = Batch(t)
    BY DEF Batch
  <2>2. \A u \in Threads : u # t => Batch(u)' = Batch(u)
    BY OthersKeep
  <2> HIDE DEF Batch
  <2> QED
    BY <2>1, <2>2
<1>3. \A u \in Threads : u # t => PhaseOf(u)' /\ AskedOf(u)'
  BY OthersKeep DEF InPhase, Asked
<1>4. TypeOK' /\ Locked'
  <2>1. slotOf' \in [Keys -> Slots \cup {NoSlot}] /\ keyOf' \in [Slots -> Keys \cup {NoKey}]
    BY DEF Taken
  <2>2. TypeOK'
    BY <1>1, <2>1 DEF TypeOK
  <2>3. Locked'
    BY DEF Locked
  <2> QED
    BY <2>2, <2>3
<1>5. EverySlotInOnePlace'
  <2> DEFINE occupied == {x \in Slots : keyOf'[x] # NoKey}
  <2>1. /\ occupied \cup ToSet(left) \cup reserved \cup {s} = Slots
        /\ occupied \cap ToSet(left) = {} /\ occupied \cap reserved = {}
        /\ ToSet(left) \cap reserved = {}
        /\ s \notin occupied /\ s \notin ToSet(left) /\ s \notin reserved
        /\ \A k \in Keys : slotOf'[k] # NoSlot => keyOf'[slotOf'[k]] = k
        /\ \A x \in occupied : slotOf'[keyOf'[x]] = x
    BY DEF Taken
  <2> HIDE DEF IInv, occupied
  <2>2. /\ occupied \cup ToSet(free') \cup reserved' = Slots
        /\ occupied \cap ToSet(free') = {} /\ occupied \cap reserved' = {}
        /\ ToSet(free') \cap reserved' = {}
    BY <1>1, <2>1
  <2> QED
    BY <1>1, <2>1, <2>2 DEF EverySlotInOnePlace, Resident, occupied
<1>6. Filling'
  <2>1. \A k \in Keys : Resident(k)' => Resident(k)
    BY DEF Taken, Resident
  <2> QED
    BY <1>2, <2>1, FillingFrame
<1>7. ResidentBytesAreItsOwn' /\ CopyReadsItsRow'
  BY DEF ResidentBytesAreItsOwn, CopyReadsItsRow, Taken
<1>8. Fenced'
  <2>1. \A u \in Threads : \/ local'[u] = local[u]
                           \/ /\ local[u].pc \notin {"submit", "unsubmit", "drain", "fencing"}
                              /\ local'[u].pc \notin {"submit", "unsubmit", "drain"}
    OBVIOUS
  <2> QED
    BY <2>1, FencedFrame
<1>9. ASSUME t # Demand, UNCHANGED window
      PROVE  Protected'
  <2>1. local'[Demand] = local[Demand]
    BY <1>9 DEF Threads
  <2>2. \A k \in Keys : slotOf[k] \in window => slotOf'[k] = slotOf[k]
    BY DEF Taken
  <2> QED
    BY <1>9, <2>1, <2>2, ProtectedFrame
<1> QED
  BY <1>2, <1>3, <1>4, <1>5, <1>6, <1>7, <1>8, <1>9

\* The key came up while the lock was dropped.
LEMMA ClaimHitKeeps ==
  ASSUME IInv, NEW t \in Threads, NEW s, NEW left, NEW out, Claiming(t),
         Taken(s, left, out, slotOf', keyOf'),
         Resident(Head(local[t].todo)), Head(local[t].todo) \notin out,
         Hit(t, Head(local[t].todo)),
         free' = Append(left, s),
         reclaimable' = reclaimable \ (out \cup {Head(local[t].todo)}),
         UNCHANGED <<reserved, pending, fence, lock, bytes, copies>>,
         gen' \in [Slots -> Nat]
  PROVE  IInv'
<1> USE DEF IInv
<1> DEFINE c == local[t]
           d == local'[t]
           k == Head(c.todo)
<1>1. /\ lock = t /\ c.pc \in {"plan", "claim"} /\ c.todo # <<>>
      /\ c \in Calls /\ c.keys # {} /\ ~c.failed
      /\ k \in Keys /\ k \in c.keys /\ Tail(c.todo) \in Seq(Keys)
      /\ ToSet(c.todo) = {k} \cup ToSet(Tail(c.todo))
  BY ClaimingIs
<1>2. /\ window' = IF t = Demand THEN window \cup {slotOf[k]} ELSE window
      /\ local' = [local EXCEPT ![t].pc = "plan", ![t].todo = Tail(@), ![t].resolved[k] = slotOf[k]]
      /\ Resident(k) /\ k \notin out
  BY DEF Hit
<1>3. local \in [Threads -> Calls] /\ c.resolved \in [Keys -> Slots \cup {NoSlot}]
  BY <1>1 DEF TypeOK, Calls
<1> HIDE DEF k
<1>4. slotOf[k] \in Slots /\ slotOf'[k] = slotOf[k]
  BY <1>1, <1>2 DEF TypeOK, Resident, Taken
<1>5. /\ d.pc = "plan" /\ d.todo = Tail(c.todo)
      /\ d.resolved = [c.resolved EXCEPT ![k] = slotOf[k]]
      /\ d.keys = c.keys /\ d.batch = c.batch /\ d.failed = c.failed /\ d.waits = c.waits
      /\ local' \in [Threads -> Calls]
      /\ \A u \in Threads : u # t => local'[u] = local[u]
  <2>1. "plan" \in Phases /\ [c.resolved EXCEPT ![k] = slotOf[k]] \in [Keys -> Slots \cup {NoSlot}]
    BY <1>1, <1>3, <1>4 DEF Phases
  <2> HIDE DEF IInv
  <2>2. local' = [local EXCEPT ![t].pc = "plan", ![t].todo = Tail(c.todo),
                               ![t].resolved = [c.resolved EXCEPT ![k] = slotOf[k]]]
    BY <1>2, <1>3
  <2> QED
    BY <1>1, <1>3, <2>1, <2>2 DEF Calls
<1>6. window' \in SUBSET Slots /\ reclaimable' \in SUBSET Keys /\ reclaimable' = reclaimable \ (out \cup {k})
  BY <1>2, <1>4 DEF TypeOK, k
<1>7. /\ TypeOK' /\ Locked' /\ EverySlotInOnePlace' /\ Filling' /\ ResidentBytesAreItsOwn'
      /\ CopyReadsItsRow' /\ Fenced'
      /\ t # Demand /\ UNCHANGED window => Protected'
      /\ \A u \in Threads : Batch(u)' = Batch(u)
      /\ \A u \in Threads : u # t => PhaseOf(u)' /\ AskedOf(u)'
  <2> HIDE DEF IInv
  <2> QED
    BY <1>1, <1>5, <1>6, PutBackKeeps
<1>8. InPhase' /\ Asked'
  <2>1. PhaseOf(t)'
    BY <1>1, <1>5, <1>7 DEF PhaseOf
  <2>2. AskedOf(t)'
    BY <1>1, <1>3, <1>5 DEF Asked, AskedOf
  <2> QED
    BY <1>7, <2>1, <2>2 DEF InPhase, Asked
<1>9. Soft'
  <2> SUFFICES ASSUME NEW j \in reclaimable, j \notin out, j # k
               PROVE  slotOf'[j] # NoSlot /\ slotOf'[j] \notin window'
    BY <1>6 DEF Soft, Resident
  <2>1. j \in Keys /\ slotOf[j] # NoSlot /\ slotOf[j] \notin window /\ slotOf'[j] = slotOf[j]
    BY DEF Soft, Resident, TypeOK, Taken
  <2>2. slotOf[j] # slotOf[k]
    BY <1>1, <1>2, <2>1 DEF EverySlotInOnePlace, Resident
  <2> QED
    BY <1>2, <2>1, <2>2
<1>10. Protected'
  <2>1. CASE t # Demand
    BY <1>2, <1>7, <2>1
  <2>2. CASE t = Demand
    <3>1. /\ \A j \in Keys : slotOf[j] \in window => slotOf'[j] = slotOf[j]
          /\ \A j \in Keys : j \in ToSet(c.todo) => j = k \/ j \in ToSet(d.todo)
          /\ \A w \in ToSet(c.waits) : w.key = k \/ w \in ToSet(d.waits)
          /\ window' = window \cup {slotOf[k]}
      BY <1>1, <1>2, <1>5, <2>2 DEF Taken
    <3>2. Batch(Demand)' = Batch(Demand)
      BY <1>7, <2>2
    <3>3. c.pc # "idle" /\ d.pc \notin {"claim", "blocked"}
      BY <1>1, <1>5
    <3>4. /\ local[Demand].pc # "idle" /\ ~local[Demand].failed
          /\ local'[Demand].resolved = [local[Demand].resolved EXCEPT ![k] = slotOf[k]]
          /\ local'[Demand].failed = local[Demand].failed
          /\ local'[Demand].keys = local[Demand].keys
          /\ local'[Demand].pc \notin {"claim", "blocked"}
      BY <1>1, <1>5, <2>2, <3>3
    <3>5. /\ k \in Keys /\ Resident(k) /\ slotOf'[k] = slotOf[k]
          /\ \A j \in Keys : slotOf[j] \in window => slotOf'[j] = slotOf[j]
          /\ window' = window \cup {slotOf[k]}
          /\ \A j \in Keys : j \in ToSet(local[Demand].todo) => j = k \/ j \in ToSet(local'[Demand].todo)
          /\ \A w \in ToSet(local[Demand].waits) : w.key = k \/ w \in ToSet(local'[Demand].waits)
      BY <1>1, <1>2, <1>4, <2>2, <3>1
    <3> HIDE DEF IInv, c, d, Batch, Resident
    <3> QED
      BY <3>2, <3>4, <3>5, ProtectedHit
  <2> QED
    BY <2>1, <2>2
<1> QED
  BY <1>7, <1>8, <1>9, <1>10

\* The key is being filled elsewhere by now.
LEMMA ClaimElsewhereKeeps ==
  ASSUME IInv, NEW t \in Threads, NEW s, NEW left, NEW out, Claiming(t),
         Taken(s, left, out, slotOf', keyOf'),
         Pending(Head(local[t].todo)), Elsewhere(t, Head(local[t].todo)),
         free' = Append(left, s),
         reclaimable' = reclaimable \ out,
         UNCHANGED <<reserved, pending, window, fence, lock, bytes, copies>>,
         gen' \in [Slots -> Nat]
  PROVE  IInv'
<1> USE DEF IInv
<1> DEFINE c == local[t]
           d == local'[t]
           k == Head(c.todo)
<1>1. lock = t /\ c.pc \in {"plan", "claim"} /\ c.todo # <<>> /\ c.keys # {} /\ ~c.failed
  BY ClaimingIs
<1>2. /\ k \in Keys /\ k \in c.keys /\ ToSet(c.todo) = {k} \cup ToSet(Tail(c.todo))
      /\ d.pc = "plan" /\ d.todo = Tail(c.todo) /\ d.resolved = c.resolved
      /\ d.keys = c.keys /\ d.batch = c.batch /\ d.failed = c.failed
      /\ \A v \in ToSet(d.waits) : v \in ToSet(c.waits) \/ v.key = k
      /\ local' \in [Threads -> Calls]
      /\ \A u \in Threads : u # t => local'[u] = local[u]
  BY <1>1, ElsewhereIs
<1> HIDE DEF k
<1>3. window' \in SUBSET Slots /\ reclaimable' \in SUBSET Keys
  BY DEF TypeOK
<1>4. /\ TypeOK' /\ Locked' /\ EverySlotInOnePlace' /\ Filling' /\ ResidentBytesAreItsOwn'
      /\ CopyReadsItsRow' /\ Fenced'
      /\ t # Demand => Protected'
      /\ \A u \in Threads : Batch(u)' = Batch(u)
      /\ \A u \in Threads : u # t => PhaseOf(u)' /\ AskedOf(u)'
  <2> HIDE DEF IInv
  <2> QED
    BY <1>1, <1>2, <1>3, PutBackKeeps
<1>5. InPhase' /\ Asked'
  <2>1. PhaseOf(t)'
    BY <1>1, <1>2, <1>4 DEF PhaseOf
  <2>2. AskedOf(t)'
    BY <1>2 DEF Asked, AskedOf
  <2> QED
    BY <1>4, <2>1, <2>2 DEF InPhase, Asked
<1>6. Soft'
  BY DEF Soft, Resident, Taken, TypeOK
<1>7. Protected'
  <2> SUFFICES ASSUME t = Demand
               PROVE  Protected'
    BY <1>4
  <2>1. Batch(Demand)' = Batch(Demand)
    BY <1>4
  <2>2. \A j \in Keys : slotOf[j] \in window => slotOf'[j] = slotOf[j]
    BY DEF Taken
  <2> HIDE DEF IInv
  <2> QED
    BY <1>1, <2>1, <2>2, ProtectedElsewhere DEF k
<1> QED
  BY <1>4, <1>5, <1>6, <1>7

\* The slot is reserved for the key, which nobody else is filling.
LEMMA ReserveKeeps ==
  ASSUME IInv, NEW t \in Threads, NEW s, NEW left, NEW out, Claiming(t),
         Taken(s, left, out, slotOf', keyOf'),
         Resident(Head(local[t].todo)) => Head(local[t].todo) \in out,
         ~Pending(Head(local[t].todo)),
         Reserve(t, Head(local[t].todo), s),
         free' = left,
         reclaimable' = reclaimable \ out,
         UNCHANGED <<fence, lock, bytes, copies>>,
         gen' \in [Slots -> Nat]
  PROVE  IInv'
<1> USE DEF IInv
<1> DEFINE c == local[t]
           d == local'[t]
           k == Head(c.todo)
           new == [key |-> k, slot |-> s]
           p == [key |-> k, ev |-> NewEvent]
<1>1. /\ lock = t /\ c.pc \in {"plan", "claim"} /\ c.todo # <<>>
      /\ c \in Calls /\ c.keys # {} /\ ~c.failed
      /\ k \in Keys /\ k \in c.keys /\ Tail(c.todo) \in Seq(Keys)
      /\ ToSet(c.todo) = {k} \cup ToSet(Tail(c.todo))
  BY ClaimingIs
<1>2. /\ reserved' = reserved \cup {s} /\ pending' = Append(pending, p)
      /\ window' = IF t = Demand THEN window \cup {s} ELSE window
      /\ local' = [local EXCEPT ![t].pc = "plan", ![t].todo = Tail(@), ![t].resolved[k] = s,
                                ![t].batch = Append(@, new)]
      /\ ~Pending(k) /\ (Resident(k) => k \in out)
  BY DEF Reserve
<1>3. local \in [Threads -> Calls] /\ c.resolved \in [Keys -> Slots \cup {NoSlot}]
      /\ c.batch \in Seq(Fills)
  BY <1>1 DEF TypeOK, Calls
<1>4. t = Demand => c.resolved[k] = NoSlot
  BY WantsIs
<1> HIDE DEF k
<1>5. s \in Slots /\ s \notin reserved /\ new \in Fills /\ slotOf'[k] = NoSlot /\ s # NoSlot
  BY <1>1, <1>2 DEF Taken, Fills, Resident, Slots, NoSlot
<1>6. p \in Events
  BY <1>1, NewEventIs DEF Events
<1>7. new.key = k /\ new.slot = s /\ p.key = k
  OBVIOUS
<1> HIDE DEF new, p
<1> DEFINE batch == Append(c.batch, new)
           resolved == [c.resolved EXCEPT ![k] = s]
<1>8. /\ batch \in Seq(Fills) /\ ToSet(batch) = Batch(t) \cup {new}
      /\ resolved \in [Keys -> Slots \cup {NoSlot}]
      /\ resolved[k] = s /\ \A j \in Keys : j # k => resolved[j] = c.resolved[j]
  BY <1>1, <1>3, <1>5, AppendIs DEF Batch
<1>9. local' = [local EXCEPT ![t].pc = "plan", ![t].todo = Tail(c.todo),
                             ![t].resolved = resolved, ![t].batch = batch]
  BY <1>2, <1>3
<1> HIDE DEF batch, resolved
<1>10. /\ d.pc = "plan" /\ d.todo = Tail(c.todo) /\ d.resolved = resolved
       /\ d.keys = c.keys /\ d.batch = batch /\ d.failed = c.failed /\ d.waits = c.waits
       /\ local' \in [Threads -> Calls]
       /\ \A u \in Threads : u # t => local'[u] = local[u]
  <2>1. "plan" \in Phases
    BY DEF Phases
  <2> HIDE DEF IInv
  <2> QED
    BY <1>1, <1>3, <1>8, <1>9, <2>1 DEF Calls
<1>11. /\ Batch(t)' = Batch(t) \cup {new}
       /\ \A u \in Threads : u # t => Batch(u)' = Batch(u) /\ PhaseOf(u)' /\ AskedOf(u)'
  <2>1. Batch(t)' = Batch(t) \cup {new}
    BY <1>8, <1>10 DEF Batch
  <2>2. \A u \in Threads : u # t => Batch(u)' = Batch(u) /\ PhaseOf(u)' /\ AskedOf(u)'
    BY <1>10, OthersKeep DEF InPhase, Asked
  <2> HIDE DEF Batch
  <2> QED
    BY <2>1, <2>2
<1>12. pending' \in Seq(Events) /\ ToSet(pending') = ToSet(pending) \cup {p}
  BY <1>2, <1>6, AppendIs DEF TypeOK
<1>13. TypeOK' /\ Locked'
  <2>1. slotOf' \in [Keys -> Slots \cup {NoSlot}] /\ keyOf' \in [Slots -> Keys \cup {NoKey}]
        /\ left \in Seq(Slots)
    BY DEF Taken
  <2>2. TypeOK'
    BY <1>2, <1>5, <1>10, <1>12, <2>1 DEF TypeOK
  <2>3. Locked'
    BY <1>1, <1>10 DEF Locked
  <2> QED
    BY <2>2, <2>3
<1>14. EverySlotInOnePlace'
  <2> DEFINE occupied == {x \in Slots : keyOf'[x] # NoKey}
  <2>1. /\ occupied \cup ToSet(left) \cup reserved \cup {s} = Slots
        /\ occupied \cap ToSet(left) = {} /\ occupied \cap reserved = {}
        /\ ToSet(left) \cap reserved = {}
        /\ s \notin occupied /\ s \notin ToSet(left) /\ s \notin reserved
        /\ IsInjective(left)
        /\ \A j \in Keys : slotOf'[j] # NoSlot => keyOf'[slotOf'[j]] = j
        /\ \A x \in occupied : slotOf'[keyOf'[x]] = x
    BY DEF Taken
  <2> HIDE DEF IInv, occupied
  <2>2. /\ occupied \cup ToSet(left) \cup reserved' = Slots
        /\ occupied \cap ToSet(left) = {} /\ occupied \cap reserved' = {}
        /\ ToSet(left) \cap reserved' = {}
    BY <1>2, <2>1
  <2> QED
    BY <2>1, <2>2 DEF EverySlotInOnePlace, Resident, occupied
<1>15. Filling'
  <2>1. \A j : Pending(j)' <=> Pending(j) \/ j = k
    <3>1. \A j : Pending(j) <=> \E e \in ToSet(pending) : e.key = j
      BY PendingIs
    <3>2. \A j : Pending(j)' <=> \E e \in ToSet(pending') : e.key = j
      BY DEF Pending, ToSet
    <3> QED
      BY <1>7, <1>12, <3>1, <3>2
  <2>2. \A j \in Keys : Resident(j)' => Resident(j) /\ j # k
    BY <1>5 DEF Taken, Resident
  <2>3. \A u \in Threads : \A f \in Batch(u) : f.key \in Keys
    BY BatchIs DEF Fills
  <2>4. \A u \in Threads : \A f \in Batch(u) : f.key # k /\ f.slot # s
    <3> HIDE DEF Batch, Pending, Resident
    <3> QED
      BY <1>2, <1>5 DEF Filling
  <2>5. \A u \in Threads : \A f \in Batch(u)' : f \in Batch(u) \/ (u = t /\ f = new)
    <3> HIDE DEF Batch
    <3> QED
      BY <1>11
  <2>6. \A u \in Threads : \A f \in Batch(u) : f \in Batch(u)'
    <3> HIDE DEF Batch
    <3> QED
      BY <1>11
  <2>7. new \in Batch(t)'
    BY <1>11
  <2>8. Filling
    OBVIOUS
  <2> HIDE DEF IInv, Batch, Pending, Resident
  <2>9. \A u, v \in Threads : \A f \in Batch(u)', g \in Batch(v)' :
          f.key = g.key \/ f.slot = g.slot => u = v /\ f = g
    BY <1>7, <2>4, <2>5, <2>8 DEF Filling
  <2>10. \A u \in Threads : \A f \in Batch(u)' :
           ~Resident(f.key)' /\ f.slot \in reserved' /\ Pending(f.key)'
    BY <1>1, <1>2, <1>7, <2>1, <2>2, <2>3, <2>5, <2>8 DEF Filling
  <2>11. \A x \in reserved' : \E u \in Threads : \E f \in Batch(u)' : f.slot = x
    BY <1>2, <1>7, <2>6, <2>7, <2>8 DEF Filling
  <2>12. \A j \in Keys : Pending(j)' => \E u \in Threads : \E f \in Batch(u)' : f.key = j
    BY <1>7, <2>1, <2>6, <2>7, <2>8 DEF Filling
  <2> QED
    BY <2>9, <2>10, <2>11, <2>12 DEF Filling
<1>16. InPhase' /\ Asked'
  <2>1. PhaseOf(t)'
    BY <1>1, <1>10 DEF PhaseOf
  <2>2. AskedOf(t)'
    BY <1>1, <1>8, <1>10 DEF Asked, AskedOf
  <2> QED
    BY <1>11, <2>1, <2>2 DEF InPhase, Asked
<1>17. ResidentBytesAreItsOwn' /\ CopyReadsItsRow'
  BY DEF ResidentBytesAreItsOwn, CopyReadsItsRow, Taken
<1>18. Soft'
  <2> SUFFICES ASSUME NEW j \in reclaimable, j \notin out
               PROVE  slotOf'[j] # NoSlot /\ slotOf'[j] \notin window'
    BY DEF Soft, Resident
  <2>1. j \in Keys /\ slotOf[j] # NoSlot /\ slotOf[j] \notin window /\ slotOf'[j] = slotOf[j]
    BY DEF Soft, Resident, TypeOK, Taken
  <2>2. slotOf'[j] # s
    <3>1. keyOf'[s] = NoKey /\ keyOf'[slotOf'[j]] = j /\ j # NoKey
      BY <2>1, ColdTierAssumption DEF Taken
    <3> HIDE DEF IInv
    <3> QED
      BY <3>1
  <2> QED
    BY <1>2, <2>1, <2>2
<1>19. Protected'
  <2>1. \A j \in Keys : slotOf[j] \in window => slotOf'[j] = slotOf[j]
    BY DEF Taken
  <2>2. CASE t # Demand
    <3>1. local'[Demand] = local[Demand]
      BY <1>10, <2>2 DEF Threads
    <3> QED
      BY <1>2, <2>1, <2>2, <3>1, ProtectedFrame
  <2>3. CASE t = Demand
    <3>1. \A f \in Batch(Demand) : f.key \in Keys /\ f.key # k
      <4>1. \A f \in Batch(Demand) : f.key \in Keys
        BY <2>3, BatchIs DEF Fills
      <4> HIDE DEF Batch, Pending
      <4> QED
        BY <1>2, <2>3, <4>1 DEF Filling
    <3>2. window' = window \cup {s}
      BY <1>2, <2>3
    <3> HIDE DEF Batch
    <3>3. RowsHeld'
      <4> SUFFICES ASSUME NEW j \in Keys, d.resolved[j] # NoSlot,
                          \A f \in Batch(Demand)' : f.key # j
                   PROVE  slotOf'[j] = d.resolved[j] /\ slotOf'[j] \in window'
        BY <2>3 DEF RowsHeld
      <4>1. j # k /\ \A f \in Batch(Demand) : f.key # j
        BY <1>7, <1>11, <2>3
      <4>2. d.resolved[j] = c.resolved[j]
        BY <1>8, <1>10, <4>1
      <4> QED
        BY <1>1, <2>1, <2>3, <3>2, <4>1, <4>2 DEF Protected, RowsHeld
    <3>4. OwnFills'
      BY <1>7, <1>8, <1>10, <1>11, <2>3, <3>1, <3>2 DEF Protected, OwnFills
    <3>5. WindowIsOwn'
      <4> SUFFICES ASSUME NEW x \in window'
                   PROVE  \E j \in Keys : resolved[j] = x
        BY <1>10, <2>3 DEF WindowIsOwn
      <4>1. CASE x = s
        BY <1>1, <1>8, <4>1
      <4>2. CASE x # s
        <5>1. x \in Slots /\ x # NoSlot
          BY <3>2, <4>2 DEF TypeOK, Slots, NoSlot
        <5>2. PICK j \in Keys : c.resolved[j] = x
          BY <1>1, <2>3, <3>2, <4>2 DEF Protected, WindowIsOwn
        <5> QED
          BY <1>4, <1>8, <2>3, <5>1, <5>2
      <4> QED
        BY <4>1, <4>2
    <3>6. KeysAccounted' /\ WantsRow'
      <4>1. c.keys \subseteq Keys
        BY <1>1 DEF Calls
      <4> QED
        BY <1>1, <1>5, <1>8, <1>10, <2>3, <4>1 DEF Protected, KeysAccounted, WantsRow
    <3> QED
      BY <3>3, <3>4, <3>5, <3>6 DEF Protected
  <2> QED
    BY <2>2, <2>3
<1>20. Fenced'
  <2>1. \A u \in Threads : \/ local'[u] = local[u]
                           \/ /\ local[u].pc \notin {"submit", "unsubmit", "drain", "fencing"}
                              /\ local'[u].pc \notin {"submit", "unsubmit", "drain"}
    BY <1>1, <1>10
  <2> QED
    BY <2>1, FencedFrame
<1> QED
  BY <1>13, <1>14, <1>15, <1>16, <1>17, <1>18, <1>19, <1>20

\* Whichever of the three it comes to.
LEMMA UseSlotKeeps ==
  ASSUME IInv, NEW t \in Threads, NEW s, NEW left, NEW out, Claiming(t),
         Taken(s, left, out, slotOf', keyOf'), UseSlot(t, s, left, out),
         UNCHANGED <<fence, lock, bytes, copies>>, gen' \in [Slots -> Nat]
  PROVE  IInv'
<1> DEFINE k == Head(local[t].todo)
<1>1. CASE /\ Resident(k) /\ k \notin out /\ Hit(t, k)
           /\ free' = Append(left, s)
           /\ reclaimable' = reclaimable \ (out \cup {k})
           /\ UNCHANGED <<reserved, pending>>
  BY <1>1, ClaimHitKeeps
<1>2. CASE /\ ~Resident(k) /\ Pending(k) /\ Elsewhere(t, k)
           /\ free' = Append(left, s)
           /\ reclaimable' = reclaimable \ out
           /\ UNCHANGED <<reserved, pending, window>>
  BY <1>2, ClaimElsewhereKeeps
<1>3. CASE /\ Resident(k) => k \in out
           /\ ~Pending(k)
           /\ free' = left
           /\ reclaimable' = reclaimable \ out
           /\ Reserve(t, k, s)
  BY <1>3, ReserveKeeps
<1> QED
  BY <1>1, <1>2, <1>3 DEF UseSlot

LEMMA ClaimFreeKeeps ==
  ASSUME IInv, NEW t \in Threads, ClaimFree(t)
  PROVE  IInv'
<1>1. /\ Claiming(t) /\ free # <<>> /\ UseSlot(t, Last(free), Front(free), {})
      /\ UNCHANGED <<slotOf, keyOf, gen, fence, lock, bytes, copies>>
  BY DEF ClaimFree
<1>2. Taken(Last(free), Front(free), {}, slotOf', keyOf') /\ gen' \in [Slots -> Nat]
  BY <1>1, FreeTaken DEF IInv, TypeOK
<1> QED
  BY <1>1, <1>2, UseSlotKeeps

LEMMA ClaimVictimKeeps ==
  ASSUME IInv, NEW t \in Threads, ClaimVictim(t)
  PROVE  IInv'
<1>1. Claiming(t) /\ free = <<>> /\ UNCHANGED <<fence, lock, bytes, copies>>
  BY DEF ClaimVictim, Evict
<1>2. PICK s \in Victims(t) :
        /\ slotOf' = [slotOf EXCEPT ![keyOf[s]] = NoSlot]
        /\ keyOf' = [keyOf EXCEPT ![s] = NoKey]
        /\ gen' = NextGeneration(s)
        /\ UseSlot(t, s, free, {keyOf[s]})
  BY DEF ClaimVictim, Evict
<1>3. Taken(s, free, {keyOf[s]}, slotOf', keyOf')
  BY <1>1, <1>2, VictimTaken
<1>4. gen' \in [Slots -> Nat]
  <2>1. s \in Slots /\ gen \in [Slots -> Nat]
    BY DEF IInv, TypeOK, Victims, Evictable
  <2> QED
    BY <1>2, <2>1 DEF NextGeneration
<1> QED
  BY <1>1, <1>2, <1>3, <1>4, UseSlotKeeps

-----------------------------------------------------------------------------
(* The invariant holds initially, and every step keeps it.                 *)
LEMMA InitHolds ==
  ASSUME Init
  PROVE  IInv
<1> USE DEF Init
<1>1. local = [t \in Threads |-> Idle(0)]
  OBVIOUS
<1>2. \A t \in Threads : /\ local[t] \in Calls /\ local[t].pc = "idle" /\ local[t].keys = {}
                         /\ local[t].resolved = Nowhere /\ local[t].todo = <<>>
                         /\ local[t].batch = <<>> /\ local[t].waits = <<>> /\ ~local[t].failed
  BY <1>1, IdleIs
<1>3. ToSet(<<>>) = {}
  BY DEF ToSet
<1>4. \A t \in Threads : Batch(t) = {}
  BY <1>2, <1>3 DEF Batch
<1>5. \A k \in Keys : Nowhere[k] = NoSlot
  BY DEF Nowhere
<1>6. /\ free \in Seq(Slots) /\ ToSet(free) = Slots /\ IsInjective(free)
  <2>1. HotRows \in Nat \ {0}
    BY ColdTierAssumption
  <2>2. free = [i \in 1 .. HotRows |-> i - 1]
    OBVIOUS
  <2> HIDE DEF Init
  <2>3. free \in [1 .. HotRows -> Slots]
    BY <2>1, <2>2 DEF Slots
  <2>4. free \in Seq(Slots)
    BY <2>1, <2>3, SeqDef
  <2>5. IsInjective(free)
    BY <2>1, <2>2 DEF IsInjective
  <2>6. \A x \in Slots : x + 1 \in 1 .. HotRows /\ free[x + 1] = x
    BY <2>1, <2>2 DEF Slots
  <2>7. Slots \subseteq ToSet(free)
    BY <2>2, <2>6 DEF ToSet
  <2>8. ToSet(free) \subseteq Slots
    BY <2>4, HeldIs
  <2> QED
    BY <2>4, <2>5, <2>7, <2>8
<1>7. TypeOK
  <2>1. pending \in Seq(Events)
    BY EmptySeq
  <2>2. slotOf \in [Keys -> Slots \cup {NoSlot}]
    BY DEF Nowhere
  <2>3. local \in [Threads -> Calls]
    BY <1>1, <1>2
  <2> QED
    BY <1>6, <2>1, <2>2, <2>3 DEF TypeOK
<1>8. Locked
  BY <1>2, ColdTierAssumption DEF Locked
<1>9. EverySlotInOnePlace
  BY <1>5, <1>6 DEF EverySlotInOnePlace, Resident
<1>10. Filling
  <2>1. \A k : ~Pending(k)
    BY DEF Pending
  <2> HIDE DEF Batch, Pending
  <2> QED
    BY <1>4, <2>1 DEF Filling
<1>11. InPhase
  BY <1>2, <1>4 DEF InPhase, PhaseOf
<1>12. Asked
  <2>1. IsFiniteSet({}) /\ Cardinality({}) = 0
    BY FS_EmptySet
  <2>2. HotRows \in Nat /\ 0 <= HotRows
    BY ColdTierAssumption
  <2> SUFFICES ASSUME NEW t \in Threads
               PROVE  AskedOf(t)
    BY DEF Asked
  <2> HIDE DEF Init
  <2>3. IsFiniteSet(local[t].keys) /\ Cardinality(local[t].keys) <= HotRows
    BY <1>2, <2>1, <2>2
  <2>4. ToSet(local[t].todo) = {} /\ ToSet(local[t].waits) = {}
    BY <1>2, <1>3
  <2>5. \A k \in Keys : local[t].resolved[k] = NoSlot
    BY <1>2, <1>5
  <2> QED
    BY <2>3, <2>4, <2>5 DEF AskedOf
<1>13. ResidentBytesAreItsOwn /\ Soft /\ CopyReadsItsRow
  BY DEF ResidentBytesAreItsOwn, Soft, CopyReadsItsRow
<1>14. Protected
  <2>1. Demand \in Threads
    BY DEF Threads
  <2> HIDE DEF Batch, Init
  <2> QED
    BY <1>2, <1>3, <1>4, <1>5, <2>1
    DEF Protected, RowsHeld, OwnFills, WindowIsOwn, KeysAccounted, WantsRow
<1>15. Fenced
  BY DEF Fenced
<1> QED
  BY <1>7, <1>8, <1>9, <1>10, <1>11, <1>12, <1>13, <1>14, <1>15 DEF IInv

LEMMA StutterKeeps ==
  ASSUME IInv, UNCHANGED vars
  PROVE  IInv'
<1> USE DEF vars, tierVars
<1>1. \A t \in Threads : Batch(t)' = Batch(t)
  BY OthersKeep
<1>2. TypeOK' /\ Locked' /\ EverySlotInOnePlace' /\ ResidentBytesAreItsOwn' /\ Soft' /\ CopyReadsItsRow'
  BY DEF IInv, TypeOK, Locked, EverySlotInOnePlace, Resident, ResidentBytesAreItsOwn, Soft,
         CopyReadsItsRow
<1>3. Filling'
  BY <1>1, FillingFrame DEF IInv, Resident
<1>4. InPhase' /\ Asked'
  <2>1. \A t \in Threads : local'[t] = local[t]
    OBVIOUS
  <2> QED
    BY <2>1, OthersKeep DEF IInv, InPhase, Asked
<1>5. Protected'
  BY ProtectedFrame DEF IInv
<1>6. Fenced'
  BY FencedFrame DEF IInv
<1> QED
  BY <1>2, <1>3, <1>4, <1>5, <1>6 DEF IInv

LEMMA NextKeeps ==
  ASSUME IInv, [Next]_vars
  PROVE  IInv'
<1>1. ASSUME NEW t \in Threads, Call(t)
      PROVE  IInv'
  BY <1>1, PlanHitKeeps, PlanElsewhereKeeps, ClaimFreeKeeps, ClaimVictimKeeps, NoVictimKeeps,
     UnblockKeeps, EndPlanKeeps, PopFencesKeeps, SubmitKeeps, ReclaimUnsubmittedKeeps,
     EndFillKeeps, AwaitKeeps, RefetchKeeps, DemoteKeeps DEF Call
<1>2. ASSUME NEW t \in Threads, Publish(t) \/ FillFails(t)
      PROVE  IInv'
  BY <1>2, PublishKeeps, FillFailsKeeps
<1>3. ASSUME NEW t \in Threads, NEW q \in Requests[t], Begin(t, q)
      PROVE  IInv'
  BY <1>3, BeginKeeps
<1>4. CASE QueueCopies \/ Fence \/ ReadRows \/ Copy
  BY <1>4, QueueCopiesKeeps, FenceKeeps, ReadRowsKeeps, CopyKeeps
<1>5. ASSUME NEW k \in Keys, Invalidate(k)
      PROVE  IInv'
  BY <1>5, InvalidateKeeps
<1>6. CASE UNCHANGED vars
  BY <1>6, StutterKeeps
<1> QED
  BY <1>1, <1>2, <1>3, <1>4, <1>5, <1>6 DEF Next

-----------------------------------------------------------------------------
(* Everything the properties below rest on: where each slot is, what each  *)
(* call is filling, what the demand call holds, which copies are fenced.   *)
THEOREM Invariance == Spec => []IInv
<1>1. Init => IInv
  BY InitHolds
<1>2. IInv /\ [Next]_vars => IInv'
  BY NextKeeps
<1> QED
  BY <1>1, <1>2, PTL DEF Spec

(* No slot is lost or doubled, whatever the interleaving of claims, failed *)
(* fills, lost races for a key and invalidations.                          *)
THEOREM SlotsAccounted == Spec => []EverySlotInOnePlace
<1>1. IInv => EverySlotInOnePlace
  BY DEF IInv
<1> QED
  BY <1>1, Invariance, PTL

(* No key is filled twice at a time, and no pending event is left for      *)
(* nobody to set.                                                          *)
THEOREM OneFill == Spec => []OneFillPerKey
<1>1. IInv => OneFillPerKey
  <2> SUFFICES ASSUME IInv
               PROVE  OneFillPerKey
    OBVIOUS
  <2> DEFINE open == UNION {{<<t, f>> : f \in Batch(t)} : t \in Threads}
  <2>1. TypeOK /\ Filling
    BY DEF IInv
  <2>2. \A t \in Threads : \A f \in Batch(t) : f.key \in Keys
    BY <2>1, BatchIs DEF Fills
  <2>3. \A k : Pending(k) <=> \E p \in ToSet(pending) : p.key = k
    BY PendingIs
  <2>4. \A p \in ToSet(pending) : p.key \in Keys
    <3>1. pending \in Seq(Events)
      BY <2>1 DEF TypeOK
    <3>2. ToSet(pending) \subseteq Events
      BY <3>1, HeldIs
    <3> QED
      BY <3>2 DEF Events
  <2>5. {pending[i].key : i \in DOMAIN pending} = {p.key : p \in ToSet(pending)}
    BY DEF ToSet
  <2> HIDE DEF Batch, Pending, Resident
  <2>6. /\ \A x \in open : x[1] \in Threads /\ x[2] \in Batch(x[1]) /\ x = <<x[1], x[2]>>
        /\ \A t \in Threads : \A f \in Batch(t) : <<t, f>> \in open
    OBVIOUS
  <2> HIDE DEF open
  <2>7. \A x, y \in open : x # y => x[2].key # y[2].key /\ x[2].slot # y[2].slot
    BY <2>1, <2>6 DEF Filling
  <2>8. \A x \in open : ~Resident(x[2].key) /\ x[2].slot \in reserved
    BY <2>1, <2>6 DEF Filling
  <2>9. \A x \in open : \E p \in ToSet(pending) : p.key = x[2].key
    BY <2>1, <2>3, <2>6 DEF Filling
  <2>10. \A p \in ToSet(pending) : \E x \in open : x[2].key = p.key
    <3> SUFFICES ASSUME NEW p \in ToSet(pending)
                 PROVE  \E x \in open : x[2].key = p.key
      OBVIOUS
    <3>1. PICK t \in Threads : \E f \in Batch(t) : f.key = p.key
      BY <2>1, <2>3, <2>4 DEF Filling
    <3>2. PICK f \in Batch(t) : f.key = p.key
      BY <3>1
    <3> QED
      BY <2>6, <3>2
  <2>11. {x[2].key : x \in open} = {p.key : p \in ToSet(pending)}
    BY <2>9, <2>10
  <2> QED
    BY <2>5, <2>7, <2>8, <2>11 DEF OneFillPerKey, open
<1> QED
  BY <1>1, Invariance, PTL

(* Whatever a lookup returns holds the whole of the row it is for.         *)
THEOREM RowsAreWhole == Spec => []ResidentBytesAreItsOwn
<1>1. IInv => ResidentBytesAreItsOwn
  BY DEF IInv
<1> QED
  BY <1>1, Invariance, PTL

(* The demand call's rows stay where they are until its caller is done     *)
(* with them, and nothing it holds is reclaimable.                         *)
THEOREM WindowKept == Spec => []WindowHolds
<1>1. IInv => WindowHolds
  <2> SUFFICES ASSUME IInv
               PROVE  WindowHolds
    OBVIOUS
  <2> DEFINE d == local[Demand]
  <2>1. \A k \in Keys :
          d.resolved[k] # NoSlot /\ ~d.failed /\ k \notin {f.key : f \in Batch(Demand)}
            => slotOf[k] = d.resolved[k] /\ slotOf[k] \in window
    BY DEF IInv, Protected, RowsHeld
  <2>2. d.pc \in {"using", "fencing"} => \A k \in d.keys : d.resolved[k] # NoSlot
    BY HeldInPlace DEF Held, Slots, NoSlot
  <2>3. \A k \in reclaimable : Resident(k) /\ slotOf[k] \notin window
    BY DEF IInv, Soft
  <2> QED
    BY <2>1, <2>2, <2>3 DEF WindowHolds
<1> QED
  BY <1>1, Invariance, PTL

(* A non-blocking copy out of a row runs before the slot is filled again.  *)
THEOREM CopiesAreOrdered == Spec => []CopyReadsItsRow
<1>1. IInv => CopyReadsItsRow
  BY DEF IInv
<1> QED
  BY <1>1, Invariance, PTL

(* With nothing pending, nothing free and nothing evictable, the call      *)
(* would hold every slot without the row it claims one for, and so have    *)
(* been asked for more rows than fit.                                      *)
THEOREM DemandServed == Spec => []DemandNeverRefused
<1>1. IInv => DemandNeverRefused
  <2> SUFFICES ASSUME IInv, Claiming(Demand), free = <<>>, Victims(Demand) = {}, pending = <<>>
               PROVE  FALSE
    BY DEF DemandNeverRefused
  <2> DEFINE c == local[Demand]
             k == Head(c.todo)
             rest == c.keys \ {k}
             T == {c.resolved[j] : j \in rest}
  <2>1. Demand \in Threads
    BY DEF Threads
  <2>2. /\ c \in Calls /\ c.pc \in {"plan", "claim"} /\ k \in c.keys /\ k \in Keys
        /\ c.resolved[k] = NoSlot
    BY <2>1, ClaimingIs, WantsIs
  <2>3. reserved = {}
    <3>1. \A j : ~Pending(j)
      BY DEF Pending
    <3> HIDE DEF Pending, Batch
    <3> QED
      BY <3>1 DEF IInv, Filling
  <2>4. \A s \in Slots : keyOf[s] # NoKey
    <3>1. ToSet(free) = {}
      BY DEF ToSet
    <3> QED
      BY <2>3, <3>1 DEF IInv, EverySlotInOnePlace
  <2>5. \A s \in Slots : s \in Own(Demand) \cup window
    <3>1. Evictable(Demand) = {}
      BY DEF Victims
    <3> QED
      BY <2>3, <2>4, <3>1 DEF Evictable
  <2>6. \A s \in Slots : \E j \in Keys : c.resolved[j] = s
    BY <2>2, <2>5 DEF Own, IInv, Protected, WindowIsOwn
  <2>7. \A j \in Keys : c.resolved[j] # NoSlot => j \in rest
    BY <2>1, <2>2 DEF IInv, Asked, AskedOf
  <2>8. Slots \subseteq T
    BY <2>6, <2>7 DEF Slots, NoSlot
  <2>9. /\ IsFiniteSet(c.keys) /\ Cardinality(c.keys) <= HotRows /\ HotRows \in Nat
        /\ rest \subseteq DOMAIN c.resolved
    BY <2>1, <2>2, ColdTierAssumption DEF IInv, Asked, AskedOf, Calls
  <2> HIDE DEF c
  <2>10. /\ IsFiniteSet(rest) /\ Cardinality(rest) = Cardinality(c.keys) - 1
         /\ Cardinality(c.keys) \in Nat
    BY <2>2, <2>9, FS_RemoveElement, FS_CardinalityType
  <2> HIDE DEF rest
  <2>11. IsFiniteSet(T) /\ Cardinality(T) <= Cardinality(rest)
    BY <2>9, <2>10, ImageIs
  <2> HIDE DEF T
  <2>12. Cardinality(Slots) <= Cardinality(T)
    BY <2>8, <2>11, FS_Subset
  <2>13. Cardinality(Slots) = HotRows
    <3> DEFINE m == HotRows - 1
    <3>1. 0 \in Int /\ m \in Int /\ HotRows \in Nat \ {0} /\ Slots = 0 .. m
      BY ColdTierAssumption DEF Slots
    <3> HIDE DEF m
    <3>2. Cardinality(Slots) = IF 0 > m THEN 0 ELSE m - 0 + 1
      BY <3>1, FS_Interval
    <3>3. m = HotRows - 1
      BY DEF m
    <3> QED
      BY <3>1, <3>2, <3>3
  <2>14. Cardinality(T) \in Nat /\ Cardinality(rest) \in Nat
    BY <2>10, <2>11, FS_CardinalityType
  <2> QED
    BY <2>9, <2>10, <2>11, <2>12, <2>13, <2>14
<1> QED
  BY <1>1, Invariance, PTL

-----------------------------------------------------------------------------
(* What reclaiming leaves in the map of slots: all of it.                  *)
LEMMA ReclaimSame ==
  ASSUME IInv, NEW t \in Threads, NEW gone \in SUBSET Batch(t), Reclaim(gone)
  PROVE  keyOf' = keyOf /\ slotOf' = slotOf
<1> DEFINE slots == {f.slot : f \in gone}
<1>1. keyOf' = [s \in Slots |-> IF s \in slots THEN NoKey ELSE keyOf[s]] /\ slotOf' = slotOf
  BY DEF Reclaim
<1>2. \A f \in gone : f.slot \in reserved
  BY DEF IInv, Filling
<1>3. \A s \in Slots : s \in slots => keyOf[s] = NoKey
  BY <1>2 DEF IInv, EverySlotInOnePlace
<1> QED
  BY <1>1, <1>3 DEF IInv, TypeOK

\* What a published read was for is reserved, and not resident.
LEMMA PublishIs ==
  ASSUME IInv, NEW t \in Threads, Publish(t)
  PROVE  \E k \in Keys, s \in Slots :
           /\ slotOf[k] = NoSlot /\ keyOf[s] = NoKey
           /\ slotOf' = [slotOf EXCEPT ![k] = s] /\ keyOf' = [keyOf EXCEPT ![s] = k]
           /\ local'[t].pc = local[t].pc /\ local'[t].keys = local[t].keys
           /\ \A u \in Threads : u # t => local'[u] = local[u]
<1> USE DEF IInv
<1>1. PICK f \in local[t].flight :
        /\ slotOf' = [slotOf EXCEPT ![f.key] = f.slot] /\ keyOf' = [keyOf EXCEPT ![f.slot] = f.key]
        /\ local' = [local EXCEPT ![t].flight = @ \ {f},
                                  ![t].batch = Only(@, ToSet(@) \ {f})]
  BY DEF Publish, PublishRow
<1>2. f \in Batch(t) /\ f \in Fills
  <2>1. local[t].flight \subseteq Batch(t)
    BY DEF Publish, PublishRow, InPhase, PhaseOf
  <2>2. Batch(t) \in SUBSET Fills
    BY BatchIs
  <2> QED
    BY <1>1, <2>1, <2>2
<1>3. f.key \in Keys /\ f.slot \in Slots
  BY <1>2 DEF Fills
<1>4. ~Resident(f.key) /\ f.slot \in reserved
  <2> HIDE DEF Batch, Resident
  <2> QED
    BY <1>2 DEF Filling
<1>5. slotOf[f.key] = NoSlot /\ keyOf[f.slot] = NoKey
  BY <1>3, <1>4 DEF Resident, EverySlotInOnePlace
<1>6. /\ local'[t].pc = local[t].pc /\ local'[t].keys = local[t].keys
      /\ \A u \in Threads : u # t => local'[u] = local[u]
  <2>1. local \in [Threads -> Calls]
    BY DEF TypeOK
  <2> HIDE DEF IInv
  <2> QED
    BY <1>1, <2>1 DEF Calls
<1> QED
  BY <1>1, <1>3, <1>5, <1>6

(* A slot that loses its row moves its generation: a reference taken       *)
(* before never validates again.                                           *)
THEOREM GenerationMoves == Spec => GenerationMovesWithContents
<1> DEFINE Moves == \A s \in Slots : keyOf[s] # NoKey /\ keyOf'[s] # keyOf[s] => gen'[s] > gen[s]
<1>1. IInv /\ [Next]_vars => Moves
  <2> SUFFICES ASSUME IInv, [Next]_vars
               PROVE  Moves
    OBVIOUS
  <2> USE DEF IInv
  <2>1. keyOf \in [Slots -> Keys \cup {NoKey}] /\ gen \in [Slots -> Nat]
        /\ slotOf \in [Keys -> Slots \cup {NoSlot}]
    BY DEF TypeOK
  <2>2. CASE keyOf' = keyOf
    BY <2>2
  <2>3. ASSUME NEW x \in Slots, keyOf' = [keyOf EXCEPT ![x] = NoKey], gen' = NextGeneration(x)
        PROVE  Moves
    <3> HIDE DEF IInv
    <3>1. \A s \in Slots : s # x => keyOf'[s] = keyOf[s]
      BY <2>1, <2>3
    <3>2. gen'[x] = gen[x] + 1 /\ gen[x] \in Nat
      BY <2>1, <2>3 DEF NextGeneration
    <3> QED
      BY <3>1, <3>2
  <2>4. ASSUME NEW t \in Threads, ClaimVictim(t)
        PROVE  Moves
    <3>1. PICK s \in Victims(t) : keyOf' = [keyOf EXCEPT ![s] = NoKey] /\ gen' = NextGeneration(s)
      BY <2>4 DEF ClaimVictim, Evict
    <3>2. s \in Slots
      BY DEF Victims, Evictable
    <3> HIDE DEF IInv
    <3> QED
      BY <2>3, <3>1, <3>2
  <2>5. ASSUME NEW k \in Keys, Invalidate(k)
        PROVE  Moves
    <3>1. slotOf[k] \in Slots
      BY <2>1, <2>5 DEF Invalidate, Resident
    <3> QED
      BY <2>3, <2>5, <3>1 DEF Invalidate
  <2>6. ASSUME NEW t \in Threads, Publish(t)
        PROVE  Moves
    <3>1. PICK k \in Keys, s \in Slots : keyOf[s] = NoKey /\ keyOf' = [keyOf EXCEPT ![s] = k]
      BY <2>6, PublishIs
    <3> HIDE DEF IInv
    <3> QED
      BY <2>1, <3>1
  <2>7. ASSUME NEW t \in Threads, ReclaimUnsubmitted(t) \/ EndFill(t)
        PROVE  keyOf' = keyOf
    <3>1. Unsubmitted(t) \in SUBSET Batch(t) /\ ToSet(local[t].batch) = Batch(t)
      BY DEF Unsubmitted, Batch
    <3> HIDE DEF IInv
    <3> QED
      BY <2>7, <3>1, ReclaimSame DEF ReclaimUnsubmitted, EndFill
  <2>8. ASSUME NEW t \in Threads,
               \/ PlanHit(t) \/ PlanElsewhere(t) \/ ClaimFree(t) \/ NoVictim(t) \/ Unblock(t)
               \/ EndPlan(t) \/ PopFences(t) \/ Submit(t) \/ Await(t) \/ Refetch(t) \/ Demote(t)
               \/ FillFails(t)
        PROVE  keyOf' = keyOf
    BY <2>8 DEF PlanHit, PlanElsewhere, ClaimFree, NoVictim, GiveUp, Unblock, EndPlan, PopFences, Submit,
                Await, Refetch, Demote, Demoting, Reclassify, FillFails, tierVars
  <2>9. ASSUME NEW t \in Threads, NEW q \in Requests[t], Begin(t, q)
        PROVE  keyOf' = keyOf
    BY <2>9 DEF Begin
  <2>10. CASE QueueCopies \/ Fence \/ ReadRows \/ Copy \/ UNCHANGED vars
    <3>1. keyOf' = keyOf
      BY <2>10 DEF QueueCopies, Fence, ReadRows, Copy, vars, tierVars
    <3> QED
      BY <2>2, <3>1
  <2> HIDE DEF Moves, IInv
  <2> QED
    BY <2>2, <2>4, <2>5, <2>6, <2>7, <2>8, <2>9, <2>10 DEF Next, Call
<1>2. Moves => [\A s \in Slots : keyOf[s] # NoKey /\ keyOf'[s] # keyOf[s] => gen'[s] > gen[s]]_vars
  OBVIOUS
<1> HIDE DEF Moves
<1> QED
  BY <1>1, <1>2, Invariance, PTL DEF Spec, GenerationMovesWithContents

-----------------------------------------------------------------------------
(* The refinement: what the demand thread is granted, and what is resident. *)
Granted == local[Demand].pc \in {"using", "fencing"}

RowsIn == {k \in Keys : Resident(k)}

\* A step that leaves the map of rows and the demand call's request alone.
LEMMA CacheStutters ==
  ASSUME slotOf' = slotOf, local'[Demand].keys = local[Demand].keys, Granted' <=> Granted
  PROVE  UNCHANGED Cache!cache
<1>1. RowsIn' = RowsIn
  BY DEF RowsIn, Resident
<1>2. Granted' = Granted
  BY DEF Granted
<1> QED
  BY <1>1, <1>2 DEF Cache!cache, RowsIn, Granted

LEMMA AskStep ==
  ASSUME IInv, NEW q \in Requests[Demand], Begin(Demand, q)
  PROVE  \E ks \in SUBSET Keys : Cache!Ask(ks)
<1>1. Demand \in Threads
  BY DEF Threads
<1>2. /\ slotOf' = slotOf /\ local[Demand].pc = "idle"
      /\ local'[Demand].pc = "plan" /\ local'[Demand].keys = ToSet(q)
  <2>1. local \in [Threads -> Calls]
    BY DEF IInv, TypeOK
  <2> QED
    BY <1>1, <2>1 DEF Begin, Idle, Calls
<1>3. local[Demand].keys = {}
  BY <1>1, <1>2 DEF IInv, InPhase, PhaseOf
<1>4. ToSet(q) \subseteq Keys /\ ToSet(q) # {}
  <2>1. q \in Seq(Keys) /\ Len(q) \in 1 .. HotRows
    BY <1>1, ColdTierAssumption
  <2>2. DOMAIN q = 1 .. Len(q) /\ HotRows \in Nat
    BY <2>1, LenProperties, ColdTierAssumption
  <2>3. 1 \in DOMAIN q
    BY <2>1, <2>2
  <2>4. ToSet(q) \subseteq Keys
    BY <2>1, HeldIs
  <2> QED
    BY <2>3, <2>4 DEF ToSet
<1>5. RowsIn' = RowsIn /\ Granted' = Granted
  BY <1>2 DEF RowsIn, Resident, Granted
<1> QED
  BY <1>2, <1>3, <1>4, <1>5 DEF Cache!Ask, RowsIn, Granted

(* Nothing is left to plan, to fill or to wait for: every row asked for is  *)
(* resolved, and so resident.                                               *)
LEMMA GrantStep ==
  ASSUME IInv, NEW t \in Threads, Demote(t)
  PROVE  Cache!Grant
<1> DEFINE d == local[Demand]
<1>1. t = Demand
  BY DEF Demote, Demoting, Reclassify, IInv, InPhase, PhaseOf
<1>2. /\ slotOf' = slotOf /\ d.pc = "waits" /\ d.waits = <<>>
      /\ local'[Demand].pc = "using" /\ local'[Demand].keys = d.keys
  <2>1. local \in [Threads -> Calls]
    BY DEF IInv, TypeOK
  <2> QED
    BY <1>1, <2>1 DEF Demote, Demoting, Reclassify, Calls
<1>3. d.keys # {} /\ d.todo = <<>> /\ ~d.failed /\ Batch(Demand) = {}
  BY <1>1, <1>2 DEF IInv, InPhase, PhaseOf
<1>4. \A k \in d.keys : k \in Keys /\ Resident(k)
  <2> SUFFICES ASSUME NEW k \in d.keys
               PROVE  k \in Keys /\ Resident(k)
    OBVIOUS
  <2>1. k \in Keys
    BY <1>1 DEF IInv, TypeOK, Calls
  <2>2. ToSet(d.todo) = {} /\ ToSet(d.waits) = {}
    BY <1>2, <1>3 DEF ToSet
  <2>3. d.resolved[k] # NoSlot
    BY <1>3, <2>2 DEF IInv, Protected, KeysAccounted
  <2>4. slotOf[k] = d.resolved[k]
    BY <1>3, <2>1, <2>3 DEF IInv, Protected, RowsHeld
  <2> QED
    BY <2>1, <2>3, <2>4 DEF Resident
<1>5. RowsIn' = RowsIn /\ d.keys \subseteq RowsIn /\ ~Granted /\ Granted'
  BY <1>2, <1>4 DEF RowsIn, Resident, Granted
<1> QED
  BY <1>2, <1>3, <1>5 DEF Cache!Grant, RowsIn, Granted

\* The caller is done, or the call has raised.
LEMMA FinishStep ==
  ASSUME IInv, slotOf' = slotOf, local[Demand].pc # "idle",
         local' = [local EXCEPT ![Demand] = Idle(@.calls)]
  PROVE  Cache!Finish
<1>1. Demand \in Threads
  BY DEF Threads
<1>2. local'[Demand].pc = "idle" /\ local'[Demand].keys = {}
  <2>1. local \in [Threads -> Calls]
    BY DEF IInv, TypeOK
  <2> QED
    BY <1>1, <2>1 DEF Idle
<1>3. local[Demand].keys # {}
  BY <1>1 DEF IInv, InPhase, PhaseOf
<1>4. RowsIn' = RowsIn /\ ~Granted'
  BY <1>2 DEF RowsIn, Resident, Granted
<1> QED
  BY <1>2, <1>3, <1>4 DEF Cache!Finish, RowsIn, Granted

(* A row leaves: it is resident, and not one the demand thread has been     *)
(* granted.                                                                 *)
LEMMA DropStep ==
  ASSUME IInv, NEW k \in Keys, Resident(k), Granted => k \notin local[Demand].keys,
         slotOf' = [slotOf EXCEPT ![k] = NoSlot],
         local'[Demand].keys = local[Demand].keys, Granted' <=> Granted
  PROVE  Cache!Drop(k)
<1>1. slotOf \in [Keys -> Slots \cup {NoSlot}]
  BY DEF IInv, TypeOK
<1>2. RowsIn' = RowsIn \ {k} /\ k \in RowsIn
  BY <1>1 DEF RowsIn, Resident
<1>3. Granted' = Granted
  BY DEF Granted
<1> QED
  BY <1>2, <1>3 DEF Cache!Drop, RowsIn, Granted

\* A published row was not resident, and its slot was not one of theirs.
LEMMA LoadStep ==
  ASSUME IInv, NEW t \in Threads, Publish(t)
  PROVE  \E k \in Keys : Cache!Load(k)
<1>1. PICK k \in Keys, s \in Slots :
        /\ slotOf[k] = NoSlot /\ keyOf[s] = NoKey
        /\ slotOf' = [slotOf EXCEPT ![k] = s]
        /\ local'[t].pc = local[t].pc /\ local'[t].keys = local[t].keys
        /\ \A u \in Threads : u # t => local'[u] = local[u]
  BY PublishIs
<1>2. local'[Demand].pc = local[Demand].pc /\ local'[Demand].keys = local[Demand].keys
  BY <1>1 DEF Threads
<1>3. slotOf \in [Keys -> Slots \cup {NoSlot}] /\ keyOf \in [Slots -> Keys \cup {NoKey}]
  BY DEF IInv, TypeOK
<1>4. RowsIn' = RowsIn \cup {k} /\ k \notin RowsIn
  BY <1>1, <1>3 DEF RowsIn, Resident, Slots, NoSlot
<1>5. Cardinality(RowsIn) < HotRows
  <2> DEFINE rest == Slots \ {s}
             T == {keyOf[x] : x \in rest}
  <2>1. RowsIn \subseteq T
    <3> SUFFICES ASSUME NEW j \in RowsIn
                 PROVE  j \in T
      OBVIOUS
    <3>1. j \in Keys /\ slotOf[j] \in Slots /\ keyOf[slotOf[j]] = j
      BY <1>3 DEF RowsIn, Resident, IInv, EverySlotInOnePlace
    <3>2. slotOf[j] # s
      BY <1>1, <3>1, ColdTierAssumption
    <3> QED
      BY <3>1, <3>2
  <2>2. IsFiniteSet(Slots) /\ Cardinality(Slots) = HotRows /\ HotRows \in Nat
    <3> DEFINE m == HotRows - 1
    <3>1. 0 \in Int /\ m \in Int /\ HotRows \in Nat \ {0} /\ Slots = 0 .. m
      BY ColdTierAssumption DEF Slots
    <3> HIDE DEF m
    <3>2. IsFiniteSet(Slots) /\ Cardinality(Slots) = IF 0 > m THEN 0 ELSE m - 0 + 1
      BY <3>1, FS_Interval
    <3>3. m = HotRows - 1
      BY DEF m
    <3> QED
      BY <3>1, <3>2, <3>3
  <2>3. IsFiniteSet(rest) /\ Cardinality(rest) = HotRows - 1 /\ rest \subseteq DOMAIN keyOf
    BY <1>1, <1>3, <2>2, FS_RemoveElement
  <2> HIDE DEF rest
  <2>4. IsFiniteSet(T) /\ Cardinality(T) <= Cardinality(rest)
    BY <2>3, ImageIs
  <2> HIDE DEF T
  <2>5. IsFiniteSet(RowsIn) /\ Cardinality(RowsIn) <= Cardinality(T)
    BY <2>1, <2>4, FS_Subset
  <2>6. Cardinality(RowsIn) \in Nat /\ Cardinality(T) \in Nat
    BY <2>4, <2>5, FS_CardinalityType
  <2> QED
    BY <2>2, <2>3, <2>4, <2>5, <2>6
<1>6. Granted' = Granted
  BY <1>2 DEF Granted
<1>7. Cache!Cardinality(RowsIn) = Cardinality(RowsIn)
  BY DEF Cache!Cardinality, Cardinality
<1>8. Cache!Load(k)
  BY <1>2, <1>4, <1>5, <1>6, <1>7 DEF Cache!Load, RowsIn, Granted
<1> QED
  BY <1>8

(* A victim is a resident row outside the window, which has every row the   *)
(* demand thread has been granted.                                          *)
LEMMA VictimDrops ==
  ASSUME IInv, NEW t \in Threads, ClaimVictim(t)
  PROVE  \E k \in Keys : Cache!Drop(k)
<1>1. PICK s \in Victims(t) :
        /\ slotOf' = [slotOf EXCEPT ![keyOf[s]] = NoSlot]
        /\ UseSlot(t, s, free, {keyOf[s]})
  BY DEF ClaimVictim, Evict
<1>2. s \in Slots /\ keyOf[s] # NoKey /\ s \notin window
  BY DEF Victims, Evictable
<1>3. keyOf[s] \in Keys /\ slotOf[keyOf[s]] = s /\ Resident(keyOf[s])
  <2>1. keyOf[s] \in Keys
    BY <1>2 DEF IInv, TypeOK
  <2>2. slotOf[keyOf[s]] = s
    BY <1>2 DEF IInv, EverySlotInOnePlace
  <2> QED
    BY <1>2, <2>1, <2>2 DEF Resident, Slots, NoSlot
<1>4. Granted => keyOf[s] \notin local[Demand].keys
  BY <1>2, <1>3, HeldInPlace DEF Granted, Held
<1>5. /\ local[t].pc \in {"plan", "claim"} /\ local'[t].pc = "plan"
      /\ local'[t].keys = local[t].keys
      /\ \A u \in Threads : u # t => local'[u] = local[u]
  <2>1. local \in [Threads -> Calls] /\ local[t] \in Calls
    BY DEF IInv, TypeOK
  <2>2. local[t].pc \in {"plan", "claim"}
    BY DEF ClaimVictim, Evict, Claiming, Planning
  <2>3. /\ local'[t].pc = "plan" /\ local'[t].keys = local[t].keys
        /\ \A u \in Threads : u # t => local'[u] = local[u]
    <3> HIDE DEF IInv
    <3> DEFINE k == Head(local[t].todo)
    <3>1. CASE Hit(t, k)
      BY <2>1, <3>1 DEF Hit, Calls
    <3>2. CASE Elsewhere(t, k)
      BY <2>1, <3>2 DEF Elsewhere, Calls
    <3>3. CASE Reserve(t, k, s)
      BY <2>1, <3>3 DEF Reserve, Calls
    <3> QED
      BY <1>1, <3>1, <3>2, <3>3 DEF UseSlot
  <2> QED
    BY <2>2, <2>3
<1>6. /\ local'[Demand].keys = local[Demand].keys
      /\ local'[Demand].pc = local[Demand].pc \/ (~Granted /\ ~Granted')
  BY <1>5 DEF Threads, Granted
<1> QED
  BY <1>1, <1>3, <1>4, <1>6, DropStep DEF Granted

\* The steps of a call that no row and no grant depends on.
LEMMA CallStutters ==
  ASSUME IInv, NEW t \in Threads,
         \/ PlanHit(t) \/ PlanElsewhere(t) \/ ClaimFree(t) \/ NoVictim(t) \/ Unblock(t)
         \/ EndPlan(t) \/ PopFences(t) \/ Submit(t) \/ ReclaimUnsubmitted(t) \/ FillFails(t)
         \/ Await(t) \/ Refetch(t) \/ (EndFill(t) /\ ~(t = Demand /\ local[t].failed))
  PROVE  UNCHANGED Cache!cache
<1> DEFINE passing == {"plan", "claim", "blocked", "fences", "submit", "unsubmit", "drain",
                       "waits", "refetch"}
           Passes == /\ \A u \in Threads : u # t => local'[u] = local[u]
                     /\ t = Demand => /\ local'[t].keys = local[t].keys
                                      /\ local[t].pc \in passing /\ local'[t].pc \in passing
<1>1. local \in [Threads -> Calls] /\ local[t] \in Calls /\ t \in Threads
  BY DEF IInv, TypeOK
<1>2. slotOf' = slotOf
  <2>1. ReclaimUnsubmitted(t) \/ EndFill(t) => slotOf' = slotOf
    BY DEF ReclaimUnsubmitted, EndFill, Reclaim
  <2> QED
    BY <2>1 DEF PlanHit, PlanElsewhere, ClaimFree, NoVictim, GiveUp, Unblock, EndPlan, PopFences, Submit,
                FillFails, Await, Refetch, tierVars
<1>3. Passes
  <2>1. CASE PlanHit(t)
    BY <1>1, <2>1 DEF PlanHit, Hit, Planning, Calls
  <2>2. CASE PlanElsewhere(t)
    BY <1>1, <2>2 DEF PlanElsewhere, Elsewhere, Planning, Calls
  <2>3. CASE ClaimFree(t)
    <3>1. local[t].pc \in {"plan", "claim"}
      BY <2>3 DEF ClaimFree, Claiming, Planning
    <3> DEFINE k == Head(local[t].todo)
               s == Last(free)
    <3>2. Hit(t, k) \/ Elsewhere(t, k) \/ Reserve(t, k, s)
      BY <2>3 DEF ClaimFree, UseSlot
    <3>3. CASE Hit(t, k)
      BY <1>1, <3>1, <3>3 DEF Hit, Calls
    <3>4. CASE Elsewhere(t, k)
      BY <1>1, <3>1, <3>4 DEF Elsewhere, Calls
    <3>5. CASE Reserve(t, k, s)
      BY <1>1, <3>1, <3>5 DEF Reserve, Calls
    <3> QED
      BY <3>2, <3>3, <3>4, <3>5
  <2>4. CASE NoVictim(t)
    BY <1>1, <2>4 DEF NoVictim, GiveUp, Claiming, Planning, Calls
  <2>5. CASE Unblock(t)
    BY <1>1, <2>5 DEF Unblock, Calls
  <2>6. CASE EndPlan(t)
    <3>1. local[t].pc = "plan" /\ ~local[t].failed
      BY <1>1, <2>6 DEF EndPlan, IInv, InPhase, PhaseOf
    <3> QED
      BY <1>1, <2>6, <3>1 DEF EndPlan, Filled, Calls
  <2>7. CASE PopFences(t)
    BY <1>1, <2>7 DEF PopFences, Calls
  <2>8. CASE Submit(t)
    <3>1. PICK n \in 0 .. Len(local[t].batch) :
            LET sent == {local[t].batch[i] : i \in 1 .. n}
            IN local' = [local EXCEPT
                 ![t].pc = IF n = Len(local[t].batch) THEN "drain" ELSE "unsubmit",
                 ![t].flight = sent,
                 ![t].failed = n < Len(local[t].batch),
                 ![t].sync = 0]
      BY <2>8 DEF Submit
    <3>2. local[t].pc = "submit"
      BY <2>8 DEF Submit
    <3> DEFINE sent == {local[t].batch[i] : i \in 1 .. n}
               failed == n < Len(local[t].batch)
               next == IF n = Len(local[t].batch) THEN "drain" ELSE "unsubmit"
    <3>3. local' = [local EXCEPT ![t].pc = next, ![t].flight = sent, ![t].failed = failed, ![t].sync = 0]
      BY <3>1
    <3>4. next \in {"drain", "unsubmit"}
      OBVIOUS
    <3> HIDE DEF sent, failed, next, IInv
    <3> QED
      BY <1>1, <3>2, <3>3, <3>4 DEF Calls
  <2>9. CASE ReclaimUnsubmitted(t)
    <3> DEFINE left == Only(local[t].batch, local[t].flight)
    <3>1. /\ local[t].pc = "unsubmit"
          /\ local' = [local EXCEPT ![t].pc = "drain", ![t].batch = left]
      BY <2>9 DEF ReclaimUnsubmitted
    <3> HIDE DEF left, IInv
    <3> QED
      BY <1>1, <3>1 DEF Calls
  <2>10. CASE FillFails(t)
    <3>1. PICK f \in local[t].flight :
            local' = [local EXCEPT ![t].flight = @ \ {f}, ![t].failed = TRUE]
      BY <2>10 DEF FillFails
    <3>2. local[t].pc = "drain"
      BY <2>10 DEF FillFails
    <3> HIDE DEF IInv
    <3> QED
      BY <1>1, <3>1, <3>2 DEF Calls
  <2>11. CASE Await(t)
    <3> DEFINE k == Head(local[t].waits).key
    <3>1. /\ local[t].pc = "waits"
          /\ \/ local' = [local EXCEPT ![t].waits = Tail(@), ![t].resolved[k] = slotOf[k]]
             \/ local' = [local EXCEPT ![t].pc = "refetch", ![t].waits = Tail(@), ![t].todo = <<k>>]
      BY <2>11 DEF Await
    <3> HIDE DEF IInv, k
    <3> QED
      BY <1>1, <3>1 DEF Calls
  <2>12. CASE Refetch(t)
    BY <1>1, <2>12 DEF Refetch, Calls
  <2>13. CASE EndFill(t) /\ ~(t = Demand /\ local[t].failed)
    BY <1>1, <2>13 DEF EndFill, Filled, Calls
  <2> QED
    BY <2>1, <2>2, <2>3, <2>4, <2>5, <2>6, <2>7, <2>8, <2>9, <2>10, <2>11, <2>12, <2>13
<1>4. local'[Demand].keys = local[Demand].keys /\ (Granted' <=> Granted)
  <2>1. CASE t = Demand
    BY <1>3, <2>1 DEF Granted
  <2>2. CASE t # Demand
    BY <1>3, <2>2 DEF Granted, Threads
  <2> QED
    BY <2>1, <2>2
<1> QED
  BY <1>2, <1>4, CacheStutters

(* Every step of the tier is a step of the row cache, or leaves it alone.   *)
LEMMA StepsAreRowCache ==
  ASSUME IInv, [Next]_vars
  PROVE  [Cache!Next]_(Cache!cache)
<1>1. ASSUME NEW t \in Threads, Call(t) \/ Publish(t) \/ FillFails(t)
      PROVE  Cache!Next \/ UNCHANGED Cache!cache
  <2>1. CASE Publish(t)
    BY <2>1, LoadStep DEF Cache!Next
  <2>2. CASE ClaimVictim(t)
    BY <2>2, VictimDrops DEF Cache!Next
  <2>3. CASE Demote(t)
    BY <2>3, GrantStep DEF Cache!Next
  <2>4. CASE EndFill(t) /\ t = Demand /\ local[t].failed
    <3>1. /\ slotOf' = slotOf /\ local[Demand].pc # "idle"
          /\ local' = [local EXCEPT ![Demand] = Idle(@.calls)]
      BY <2>4 DEF EndFill, Reclaim
    <3>2. Cache!Finish
      BY <3>1, FinishStep
    <3> QED
      BY <3>2 DEF Cache!Next
  <2>5. CASE /\ ~ (Publish(t) \/ ClaimVictim(t) \/ Demote(t))
             /\ ~ (EndFill(t) /\ t = Demand /\ local[t].failed)
    <3>1. \/ PlanHit(t) \/ PlanElsewhere(t) \/ ClaimFree(t) \/ NoVictim(t) \/ Unblock(t)
          \/ EndPlan(t) \/ PopFences(t) \/ Submit(t) \/ ReclaimUnsubmitted(t) \/ FillFails(t)
          \/ Await(t) \/ Refetch(t) \/ (EndFill(t) /\ ~(t = Demand /\ local[t].failed))
      BY <1>1, <2>5 DEF Call
    <3> QED
      BY <3>1, CallStutters
  <2> QED
    BY <2>1, <2>2, <2>3, <2>4, <2>5
<1>2. ASSUME NEW t \in Threads, NEW q \in Requests[t], Begin(t, q)
      PROVE  Cache!Next \/ UNCHANGED Cache!cache
  <2>1. CASE t = Demand
    <3>1. q \in Requests[Demand] /\ Begin(Demand, q)
      BY <1>2, <2>1
    <3> QED
      BY <3>1, AskStep DEF Cache!Next
  <2>2. CASE t # Demand
    <3>1. slotOf' = slotOf /\ local'[Demand] = local[Demand]
      BY <1>2, <2>2 DEF Begin, IInv, TypeOK, Threads
    <3>2. Granted' <=> Granted
      BY <3>1 DEF Granted
    <3> QED
      BY <3>1, <3>2, CacheStutters
  <2> QED
    BY <2>1, <2>2
<1>3. ASSUME QueueCopies
      PROVE  UNCHANGED Cache!cache
  <2>1. /\ slotOf' = slotOf /\ local[Demand].pc = "using" /\ local'[Demand].pc = "fencing"
        /\ local'[Demand].keys = local[Demand].keys
    <3>1. local \in [Threads -> Calls] /\ Demand \in Threads
      BY DEF IInv, TypeOK, Threads
    <3> QED
      BY <1>3, <3>1 DEF QueueCopies, tierVars, Calls
  <2> QED
    BY <2>1, CacheStutters DEF Granted
<1>4. ASSUME Fence \/ ReadRows
      PROVE  Cache!Next
  <2>1. /\ slotOf' = slotOf /\ local[Demand].pc # "idle"
        /\ local' = [local EXCEPT ![Demand] = Idle(@.calls)]
    BY <1>4 DEF Fence, ReadRows, tierVars
  <2>2. Cache!Finish
    BY <2>1, FinishStep
  <2> QED
    BY <2>2 DEF Cache!Next
<1>5. ASSUME NEW k \in Keys, Invalidate(k)
      PROVE  Cache!Next
  <2>1. /\ slotOf' = [slotOf EXCEPT ![k] = NoSlot] /\ local' = local
        /\ local[Demand].pc = "idle" /\ Resident(k)
    BY <1>5 DEF Invalidate
  <2>2. ~Granted /\ ~Granted' /\ local'[Demand].keys = local[Demand].keys
    BY <2>1 DEF Granted
  <2>3. Cache!Drop(k)
    BY <2>1, <2>2, DropStep
  <2> QED
    BY <2>3 DEF Cache!Next
<1>6. ASSUME Copy \/ UNCHANGED vars
      PROVE  UNCHANGED Cache!cache
  <2>1. slotOf' = slotOf /\ local' = local
    BY <1>6 DEF Copy, vars, tierVars
  <2>2. Granted' <=> Granted
    BY <2>1 DEF Granted
  <2> QED
    BY <2>1, <2>2, CacheStutters
<1> QED
  BY <1>1, <1>2, <1>3, <1>4, <1>5, <1>6 DEF Next

(* The cold tier implements the row cache: a request is granted all of its  *)
(* rows or refused, and no row it was granted leaves before its reader is   *)
(* done, for every pool and any number of prefetchers.                      *)
THEOREM TierImplementsRowCache == Spec => ImplementsRowCache
<1>1. Init => Cache!Init
  <2> SUFFICES ASSUME Init
               PROVE  Cache!Init
    OBVIOUS
  <2>1. local[Demand] = Idle(0)
    BY DEF Init, Threads
  <2>2. {k \in Keys : Resident(k)} = {}
    BY DEF Init, Nowhere, Resident
  <2> QED
    BY <2>1, <2>2 DEF Cache!Init, Idle
<1>2. IInv /\ [Next]_vars => [Cache!Next]_(Cache!cache)
  BY StepsAreRowCache
<1> QED
  BY <1>1, <1>2, Invariance, PTL DEF Spec, ImplementsRowCache, Cache!Spec
-----------------------------------------------------------------------------
(* The heaps.                                                              *)

VEntries == {0, 1} \X Nat \X Nat \X Slots \X Keys
DEntries == Nat \X Nat \X Nat \X Keys

HeapOf(h, E) == h \in [DOMAIN h -> Nat \ {0}] /\ DOMAIN h \subseteq E

AtMost(e, f) == ~Before(f, e)

HeapsTyped ==
  /\ clock \in Nat /\ freq \in [Keys -> Nat] /\ last \in [Keys -> Nat]
  /\ seq \in [Keys -> Nat] /\ nextSeq \in Nat /\ order \in Seq(Keys)
  /\ HeapOf(vheap, VEntries) /\ HeapOf(dheap, DEntries)
  /\ loop \in {"none", "resurrect", "search", "demote", "reclaim"}
  /\ list \in Seq(Keys)

\* Residents are in the order of their publication.
InOrder ==
  /\ nextSeq > 0
  /\ ToSet(order) = {k \in Keys : Resident(k)}
  /\ \A i, j \in DOMAIN order : i < j => seq[order[i]] < seq[order[j]]
  /\ \A k \in Keys : seq[k] < nextSeq /\ (Resident(k) <=> seq[k] > 0)

\* Where a loop runs, and what it has come to.
LoopRight ==
  /\ loop \notin {"search", "demote"} => held = EmptyBag
  /\ loop \in {"resurrect", "reclaim"} => list # <<>> /\ IsInjective(list)
  /\ loop = "resurrect" => \A k \in ToSet(list) : Resident(k) /\ k \notin reclaimable
  /\ loop = "reclaim" => ToSet(list) \subseteq reclaimable
  /\ loop = "search" =>
       /\ HeapOf(held, VEntries)
       /\ \E t \in Threads : Claiming(t) /\ free = <<>>
                             /\ \A e \in DOMAIN held : e[4] \notin Evictable(t)
  /\ loop = "demote" =>
       /\ HeapOf(held, DEntries)
       /\ Demoting(Demand) /\ ProtectedRows < HotRows
       /\ \A e \in DOMAIN held : Resident(e[4]) /\ slotOf[e[4]] \in window

\* The reclaimable rows whose better rank has been pushed.
Pushed == IF loop = "reclaim" THEN reclaimable \ ToSet(list) ELSE reclaimable

VictimEntries == DOMAIN vheap \cup (IF loop = "search" THEN DOMAIN held ELSE {})

(* Every row has an entry that does not rank it lower than it ranks now.   *)
EveryRowFiled ==
  \A s \in Slots : keyOf[s] # NoKey =>
    \E e \in VictimEntries :
      e[4] = s /\ e[5] = keyOf[s] /\ AtMost(e, VEntry(Pushed, s, keyOf[s]))

\* The rows the demotion heap has to know.
Active ==
  {k \in Keys : Resident(k) /\ k \notin reclaimable}
    \ (IF loop \in {"resurrect", "demote"} THEN ToSet(list) ELSE {})

Filed == IF loop = "demote" THEN dheap (+) held ELSE dheap

(* Each row of A has one entry of its publication, which does not rank it  *)
(* lower than it ranks now, and no other row has one.                      *)
FiledOnce(h, A, at, n) ==
  /\ \A k \in A : \E e \in DOMAIN h :
       e[4] = k /\ e[3] = at[k] /\ AtMost(e, DEntry(at, k))
  /\ \A e \in DOMAIN h :
       /\ e[3] > 0 /\ e[3] < n
       /\ e[3] = at[e[4]] =>
            /\ e[4] \in A /\ h[e] = 1
            /\ \A f \in DOMAIN h : f[4] = e[4] /\ f[3] = e[3] => f = e

ActiveFiledOnce == ProtectedRows < HotRows => FiledOnce(Filed, Active, seq, nextSeq)

\* The victims so far are the first of the scan.
Rank(k) == <<freq[k], last[k], seq[k]>>

ChosenFirst ==
  loop = "demote" =>
    /\ ToSet(list) \subseteq Demotable
    /\ Len(list) <= Excess
    /\ \A i, j \in DOMAIN list : i < j => Before(Rank(list[i]), Rank(list[j]))
    /\ \A k \in ToSet(list), u \in Demotable \ ToSet(list) : Before(Rank(k), Rank(u))

HeapsRight ==
  HeapsTyped /\ InOrder /\ LoopRight /\ EveryRowFiled /\ ActiveFiledOnce /\ ChosenFirst

-----------------------------------------------------------------------------
(* How entries compare.                                                    *)
LEMMA BeforeThree ==
  ASSUME NEW e \in Int \X Int \X Int, NEW f \in Int \X Int \X Int
  PROVE  Before(e, f) <=> \/ e[1] < f[1]
                          \/ e[1] = f[1] /\ e[2] < f[2]
                          \/ e[1] = f[1] /\ e[2] = f[2] /\ e[3] < f[3]
<1>1. DOMAIN e = 1 .. 3
  OBVIOUS
<1>2. \A i \in 1 .. 3 : (\A j \in 1 .. i - 1 : e[j] = f[j])
                         <=> (i > 1 => e[1] = f[1]) /\ (i > 2 => e[2] = f[2])
  OBVIOUS
<1> QED
  BY <1>1, <1>2 DEF Before

LEMMA BeforeFour ==
  ASSUME NEW e \in Int \X Int \X Int \X Int, NEW f \in Int \X Int \X Int \X Int
  PROVE  Before(e, f) <=> \/ e[1] < f[1]
                          \/ e[1] = f[1] /\ e[2] < f[2]
                          \/ e[1] = f[1] /\ e[2] = f[2] /\ e[3] < f[3]
                          \/ e[1] = f[1] /\ e[2] = f[2] /\ e[3] = f[3] /\ e[4] < f[4]
<1>1. DOMAIN e = 1 .. 4
  OBVIOUS
<1>2. \A i \in 1 .. 4 : (\A j \in 1 .. i - 1 : e[j] = f[j])
                         <=> /\ i > 1 => e[1] = f[1]
                             /\ i > 2 => e[2] = f[2]
                             /\ i > 3 => e[3] = f[3]
  OBVIOUS
<1> QED
  BY <1>1, <1>2 DEF Before

LEMMA BeforeFive ==
  ASSUME NEW e \in Int \X Int \X Int \X Int \X Int, NEW f \in Int \X Int \X Int \X Int \X Int
  PROVE  Before(e, f) <=> \/ e[1] < f[1]
                          \/ e[1] = f[1] /\ e[2] < f[2]
                          \/ e[1] = f[1] /\ e[2] = f[2] /\ e[3] < f[3]
                          \/ e[1] = f[1] /\ e[2] = f[2] /\ e[3] = f[3] /\ e[4] < f[4]
                          \/ /\ e[1] = f[1] /\ e[2] = f[2] /\ e[3] = f[3] /\ e[4] = f[4]
                             /\ e[5] < f[5]
<1>1. DOMAIN e = 1 .. 5
  OBVIOUS
<1>2. \A i \in 1 .. 5 : (\A j \in 1 .. i - 1 : e[j] = f[j])
                         <=> /\ i > 1 => e[1] = f[1]
                             /\ i > 2 => e[2] = f[2]
                             /\ i > 3 => e[3] = f[3]
                             /\ i > 4 => e[4] = f[4]
  OBVIOUS
<1> QED
  BY <1>1, <1>2 DEF Before

(* A heap, as a bag of entries, after each operation.                      *)
LEMMA AddIs ==
  ASSUME NEW E, NEW h, HeapOf(h, E), NEW e \in E
  PROVE  /\ HeapOf(BagAdd(h, e), E)
         /\ DOMAIN BagAdd(h, e) = DOMAIN h \cup {e}
         /\ BagAdd(h, e)[e] = IF e \in DOMAIN h THEN h[e] + 1 ELSE 1
         /\ \A f \in DOMAIN h : f # e => BagAdd(h, e)[f] = h[f]
<1>1. CASE e \in DOMAIN h
  <2> DEFINE b == [f \in DOMAIN h |-> IF f = e THEN h[f] + 1 ELSE h[f]]
  <2>1. BagAdd(h, e) = b
    BY <1>1 DEF BagAdd
  <2>2. DOMAIN b = DOMAIN h \cup {e} /\ DOMAIN b \subseteq E
    BY <1>1 DEF HeapOf
  <2>3. b \in [DOMAIN b -> Nat \ {0}]
    BY DEF HeapOf
  <2> QED
    BY <1>1, <2>1, <2>2, <2>3 DEF HeapOf
<1>2. CASE e \notin DOMAIN h
  <2> DEFINE b == [f \in DOMAIN h \cup {e} |-> IF f = e THEN 1 ELSE h[f]]
  <2>1. BagAdd(h, e) = b
    BY <1>2 DEF BagAdd
  <2>2. DOMAIN b = DOMAIN h \cup {e} /\ DOMAIN b \subseteq E
    BY DEF HeapOf
  <2>3. b \in [DOMAIN b -> Nat \ {0}]
    BY DEF HeapOf
  <2> QED
    BY <1>2, <2>1, <2>2, <2>3 DEF HeapOf
<1> QED
  BY <1>1, <1>2

LEMMA RemoveIs ==
  ASSUME NEW E, NEW h, HeapOf(h, E), NEW e \in DOMAIN h
  PROVE  /\ HeapOf(BagRemove(h, e), E)
         /\ DOMAIN BagRemove(h, e) = IF h[e] = 1 THEN DOMAIN h \ {e} ELSE DOMAIN h
         /\ h[e] # 1 => BagRemove(h, e)[e] = h[e] - 1
         /\ \A f \in DOMAIN h : f # e => BagRemove(h, e)[f] = h[f]
<1>1. CASE h[e] = 1
  <2> DEFINE b == [f \in DOMAIN h \ {e} |-> h[f]]
  <2>1. BagRemove(h, e) = b
    BY <1>1 DEF BagRemove
  <2>2. DOMAIN b = DOMAIN h \ {e} /\ DOMAIN b \subseteq E
    BY DEF HeapOf
  <2>3. b \in [DOMAIN b -> Nat \ {0}]
    BY DEF HeapOf
  <2> QED
    BY <1>1, <2>1, <2>2, <2>3 DEF HeapOf
<1>2. CASE h[e] # 1
  <2> DEFINE b == [f \in DOMAIN h |-> IF f = e THEN h[f] - 1 ELSE h[f]]
  <2>1. BagRemove(h, e) = b
    BY <1>2 DEF BagRemove
  <2>2. DOMAIN b = DOMAIN h /\ DOMAIN b \subseteq E
    BY DEF HeapOf
  <2>3. b \in [DOMAIN b -> Nat \ {0}]
    BY <1>2 DEF HeapOf
  <2> QED
    BY <1>2, <2>1, <2>2, <2>3 DEF HeapOf
<1> QED
  BY <1>1, <1>2

LEMMA SumIs ==
  ASSUME NEW E, NEW g, NEW h, HeapOf(g, E), HeapOf(h, E)
  PROVE  /\ HeapOf(g (+) h, E)
         /\ DOMAIN (g (+) h) = DOMAIN g \cup DOMAIN h
         /\ \A e \in DOMAIN g \cup DOMAIN h :
              (g (+) h)[e] = (IF e \in DOMAIN g THEN g[e] ELSE 0)
                             + (IF e \in DOMAIN h THEN h[e] ELSE 0)
<1> DEFINE b == [e \in DOMAIN g \cup DOMAIN h |->
                   (IF e \in DOMAIN g THEN g[e] ELSE 0) + (IF e \in DOMAIN h THEN h[e] ELSE 0)]
<1>1. g (+) h = b
  BY DEF (+)
<1>2. DOMAIN b \subseteq E
  BY DEF HeapOf
<1>3. b \in [DOMAIN b -> Nat \ {0}]
  BY DEF HeapOf
<1> QED
  BY <1>1, <1>2, <1>3 DEF HeapOf

LEMMA BagIs ==
  ASSUME NEW E, NEW S, S \subseteq E
  PROVE  /\ HeapOf(SetToBag(S), E)
         /\ DOMAIN SetToBag(S) = S
         /\ \A e \in S : SetToBag(S)[e] = 1
BY DEF SetToBag, HeapOf

LEMMA EmptyIs ==
  ASSUME NEW E
  PROVE  /\ HeapOf(EmptyBag, E)
         /\ DOMAIN EmptyBag = {}
         /\ \A h : HeapOf(h, E) /\ DOMAIN h = {} => h = EmptyBag
<1>1. EmptyBag = [e \in {} |-> 1]
  BY DEF EmptyBag, SetToBag
<1> QED
  BY <1>1 DEF HeapOf

LEMMA KeysAndSlots == Keys \subseteq Nat /\ Slots \subseteq Nat /\ NoKey \notin Keys /\ NoSlot \notin Slots
BY ColdTierAssumption, LazyHeapsAssumption DEF Slots, NoSlot

LEMMA VEntriesAre ==
  ASSUME NEW e \in VEntries
  PROVE  /\ e \in Int \X Int \X Int \X Int \X Int
         /\ e[1] \in {0, 1} /\ e[2] \in Nat /\ e[3] \in Nat /\ e[4] \in Slots /\ e[5] \in Keys
<1>1. e[1] \in {0, 1} /\ e[2] \in Nat /\ e[3] \in Nat /\ e[4] \in Slots /\ e[5] \in Keys
      /\ e = <<e[1], e[2], e[3], e[4], e[5]>>
  BY DEF VEntries
<1>2. e[1] \in Int /\ e[2] \in Int /\ e[3] \in Int /\ e[4] \in Int /\ e[5] \in Int
  BY <1>1, KeysAndSlots
<1> QED
  BY <1>1, <1>2

LEMMA DEntriesAre ==
  ASSUME NEW e \in DEntries
  PROVE  /\ e \in Int \X Int \X Int \X Int
         /\ e[1] \in Nat /\ e[2] \in Nat /\ e[3] \in Nat /\ e[4] \in Keys
<1>1. e[1] \in Nat /\ e[2] \in Nat /\ e[3] \in Nat /\ e[4] \in Keys
      /\ e = <<e[1], e[2], e[3], e[4]>>
  BY DEF DEntries
<1>2. e[1] \in Int /\ e[2] \in Int /\ e[3] \in Int /\ e[4] \in Int
  BY <1>1, KeysAndSlots
<1> QED
  BY <1>1, <1>2

LEMMA VictimOrder ==
  ASSUME NEW e \in VEntries, NEW f \in VEntries, NEW g \in VEntries
  PROVE  /\ AtMost(e, f) /\ AtMost(f, g) => AtMost(e, g)
         /\ AtMost(e, e)
<1>1. /\ e \in Int \X Int \X Int \X Int \X Int
      /\ f \in Int \X Int \X Int \X Int \X Int
      /\ g \in Int \X Int \X Int \X Int \X Int
  BY VEntriesAre
<1>2. /\ e[1] \in Int /\ e[2] \in Int /\ e[3] \in Int /\ e[4] \in Int /\ e[5] \in Int
      /\ f[1] \in Int /\ f[2] \in Int /\ f[3] \in Int /\ f[4] \in Int /\ f[5] \in Int
      /\ g[1] \in Int /\ g[2] \in Int /\ g[3] \in Int /\ g[4] \in Int /\ g[5] \in Int
  BY <1>1
<1>3. AtMost(e, e)
  BY <1>1, <1>2, BeforeFive DEF AtMost
<1>4. ASSUME AtMost(e, f), AtMost(f, g)
      PROVE  AtMost(e, g)
  <2>1. ~Before(f, e) /\ ~Before(g, f)
    BY <1>4 DEF AtMost
  <2>2. ~Before(g, e)
    BY <1>1, <1>2, <2>1, BeforeFive
  <2> QED
    BY <2>2 DEF AtMost
<1> QED
  BY <1>3, <1>4

LEMMA DemotionOrder ==
  ASSUME NEW e \in DEntries, NEW f \in DEntries, NEW g \in DEntries
  PROVE  /\ AtMost(e, f) /\ AtMost(f, g) => AtMost(e, g)
         /\ AtMost(e, e)
<1>1. /\ e \in Int \X Int \X Int \X Int
      /\ f \in Int \X Int \X Int \X Int
      /\ g \in Int \X Int \X Int \X Int
  BY DEntriesAre
<1>2. /\ e[1] \in Int /\ e[2] \in Int /\ e[3] \in Int /\ e[4] \in Int
      /\ f[1] \in Int /\ f[2] \in Int /\ f[3] \in Int /\ f[4] \in Int
      /\ g[1] \in Int /\ g[2] \in Int /\ g[3] \in Int /\ g[4] \in Int
  BY <1>1
<1>3. AtMost(e, e)
  BY <1>1, <1>2, BeforeFour DEF AtMost
<1>4. ASSUME AtMost(e, f), AtMost(f, g)
      PROVE  AtMost(e, g)
  <2>1. ~Before(f, e) /\ ~Before(g, f)
    BY <1>4 DEF AtMost
  <2>2. ~Before(g, e)
    BY <1>1, <1>2, <2>1, BeforeFour
  <2> QED
    BY <2>2 DEF AtMost
<1> QED
  BY <1>3, <1>4

LEMMA EntriesAre ==
  ASSUME HeapsTyped, NEW k \in Keys, NEW s \in Slots, NEW soft
  PROVE  VEntry(soft, s, k) \in VEntries /\ DEntry(seq, k) \in DEntries
BY DEF HeapsTyped, VEntry, VEntries, DEntry, DEntries

(* Ranks as they are after a step.  A row that was asked for, or has been  *)
(* resurrected, ranks higher than before.                                  *)
GrownRank(k) == freq'[k] > freq[k] \/ (freq'[k] = freq[k] /\ last'[k] = last[k])

LEMMA VictimRankGrows ==
  ASSUME HeapsTyped, HeapsTyped', NEW k \in Keys, NEW s \in Slots, NEW soft, NEW left,
         k \in left => k \in soft, GrownRank(k)
  PROVE  AtMost(VEntry(soft, s, k), <<IF k \in left THEN 0 ELSE 1, freq'[k], last'[k], s, k>>)
<1> DEFINE e == VEntry(soft, s, k)
           f == <<IF k \in left THEN 0 ELSE 1, freq'[k], last'[k], s, k>>
<1>1. freq[k] \in Nat /\ last[k] \in Nat /\ freq'[k] \in Nat /\ last'[k] \in Nat /\ s \in Nat /\ k \in Nat
  BY KeysAndSlots DEF HeapsTyped
<1>2. e \in Int \X Int \X Int \X Int \X Int /\ f \in Int \X Int \X Int \X Int \X Int
  BY <1>1 DEF VEntry
<1>3. e[1] <= f[1] /\ e[2] = freq[k] /\ e[3] = last[k] /\ e[4] = s /\ e[5] = k
      /\ f[2] = freq'[k] /\ f[3] = last'[k] /\ f[4] = s /\ f[5] = k /\ e[1] \in Int /\ f[1] \in Int
  BY DEF VEntry
<1> HIDE DEF e, f
<1>4. ~Before(f, e)
  BY <1>1, <1>2, <1>3, BeforeFive DEF GrownRank
<1> QED
  BY <1>4 DEF AtMost, e, f

LEMMA DemotionRankGrows ==
  ASSUME HeapsTyped, HeapsTyped', NEW k \in Keys, GrownRank(k), seq'[k] = seq[k]
  PROVE  AtMost(DEntry(seq, k), DEntry(seq, k)')
<1> DEFINE e == DEntry(seq, k)
           f == <<freq'[k], last'[k], seq'[k], k>>
<1>1. /\ freq[k] \in Nat /\ last[k] \in Nat /\ freq'[k] \in Nat /\ last'[k] \in Nat
      /\ seq[k] \in Nat /\ k \in Nat
  BY KeysAndSlots DEF HeapsTyped
<1>2. e \in Int \X Int \X Int \X Int /\ f \in Int \X Int \X Int \X Int
  BY <1>1 DEF DEntry
<1>3. e[1] = freq[k] /\ e[2] = last[k] /\ e[3] = seq[k] /\ e[4] = k
      /\ f[1] = freq'[k] /\ f[2] = last'[k] /\ f[3] = seq[k] /\ f[4] = k
  BY DEF DEntry
<1> HIDE DEF e, f
<1>4. ~Before(f, e)
  BY <1>1, <1>2, <1>3, BeforeFour DEF GrownRank
<1> QED
  BY <1>4 DEF AtMost, e, f, DEntry

-----------------------------------------------------------------------------
(* A step that starts and ends outside the loops over heaps: rows leave    *)
(* their slots or are resurrected, ranks grow, no entry is lost.           *)
LEMMA RowsMove ==
  ASSUME IInv, HeapsRight, loop \in {"none", "search"}, NEW out \in SUBSET Keys,
         \A k \in Keys : slotOf'[k] = IF k \in out THEN NoSlot ELSE slotOf[k],
         \A s \in Slots : keyOf'[s] = IF keyOf[s] \in out THEN NoKey ELSE keyOf[s],
         seq' \in [Keys -> Nat],
         \A k \in Keys : seq'[k] = IF k \in out THEN 0 ELSE seq[k],
         nextSeq' = nextSeq,
         order' \in Seq(Keys), ToSet(order') = ToSet(order) \ out,
         \A i, j \in DOMAIN order' : i < j => seq[order'[i]] < seq[order'[j]],
         dheap' = dheap, held' = EmptyBag,
         HeapOf(vheap', VEntries), DOMAIN vheap' = VictimEntries,
         clock' \in Nat, freq' \in [Keys -> Nat], last' \in [Keys -> Nat],
         \A k \in Keys : GrownRank(k),
         reclaimable' \subseteq reclaimable \ out,
         list' \in Seq(Keys),
         \/ loop' = "none" /\ reclaimable' = reclaimable \ out
         \/ /\ loop' = "resurrect" /\ list' # <<>> /\ IsInjective(list')
            /\ ToSet(list') = (reclaimable \ out) \ reclaimable'
  PROVE  HeapsRight'
<1> USE DEF HeapsRight
<1>1. HeapsTyped'
  BY DEF HeapsTyped
<1>2. /\ slotOf \in [Keys -> Slots \cup {NoSlot}] /\ keyOf \in [Slots -> Keys \cup {NoKey}]
      /\ reclaimable \subseteq Keys
      /\ \A k \in reclaimable : Resident(k)
  BY DEF IInv, TypeOK, Soft
<1>3. \A k \in Keys : Resident(k)' <=> Resident(k) /\ k \notin out
  BY DEF Resident
<1>4. InOrder'
  <2>1. ToSet(order') = {k \in Keys : Resident(k)'}
    BY <1>3 DEF InOrder
  <2>2. ASSUME NEW i \in DOMAIN order', NEW j \in DOMAIN order', i < j
        PROVE  seq'[order'[i]] < seq'[order'[j]]
    <3>1. order'[i] \in ToSet(order') /\ order'[j] \in ToSet(order')
      BY DEF ToSet
    <3>2. /\ order'[i] \in Keys /\ order'[i] \notin out
          /\ order'[j] \in Keys /\ order'[j] \notin out
      BY <2>1, <3>1
    <3> QED
      BY <2>2, <3>2
  <2>3. ASSUME NEW k \in Keys
        PROVE  seq'[k] < nextSeq' /\ (Resident(k)' <=> seq'[k] > 0)
    <3>1. seq[k] < nextSeq /\ (Resident(k) <=> seq[k] > 0) /\ nextSeq > 0
      BY DEF InOrder
    <3> QED
      BY <1>3, <3>1
  <2> QED
    BY <2>1, <2>2, <2>3 DEF InOrder
<1>5. LoopRight'
  <2>1. loop' = "resurrect" => \A k \in ToSet(list') : Resident(k)' /\ k \notin reclaimable'
    BY <1>2, <1>3
  <2> QED
    BY <2>1 DEF LoopRight
<1>6. Pushed = reclaimable /\ Pushed' = reclaimable' /\ VictimEntries' = VictimEntries
  BY DEF Pushed, VictimEntries
<1>7. EveryRowFiled'
  <2>1. SUFFICES ASSUME NEW s \in Slots, keyOf'[s] # NoKey
                 PROVE  \E e \in VictimEntries :
                          /\ e[4] = s /\ e[5] = keyOf'[s]
                          /\ AtMost(e, <<IF keyOf'[s] \in reclaimable' THEN 0 ELSE 1,
                                         freq'[keyOf'[s]], last'[keyOf'[s]], s, keyOf'[s]>>)
    BY <1>6 DEF EveryRowFiled, VEntry
  <2>2. keyOf'[s] = keyOf[s] /\ keyOf[s] \in Keys
    BY <1>2, <2>1
  <2>3. PICK e \in VictimEntries :
          e[4] = s /\ e[5] = keyOf[s] /\ AtMost(e, VEntry(reclaimable, s, keyOf[s]))
    BY <1>6, <2>1, <2>2 DEF EveryRowFiled
  <2>4. AtMost(VEntry(reclaimable, s, keyOf[s]),
               <<IF keyOf[s] \in reclaimable' THEN 0 ELSE 1, freq'[keyOf[s]], last'[keyOf[s]], s, keyOf[s]>>)
    BY <1>1, <2>2, VictimRankGrows
  <2>5. e \in VEntries /\ VEntry(reclaimable, s, keyOf[s]) \in VEntries
    BY <2>2, EntriesAre DEF HeapOf
  <2>6. <<IF keyOf[s] \in reclaimable' THEN 0 ELSE 1, freq'[keyOf[s]], last'[keyOf[s]], s, keyOf[s]>> \in VEntries
    BY <2>2 DEF VEntries
  <2>7. AtMost(e, <<IF keyOf[s] \in reclaimable' THEN 0 ELSE 1, freq'[keyOf[s]], last'[keyOf[s]], s, keyOf[s]>>)
    BY <2>3, <2>4, <2>5, <2>6, VictimOrder
  <2> QED
    BY <2>2, <2>3, <2>7
<1>8. Filed = dheap /\ Filed' = dheap
  BY DEF Filed
<1>9. Active' = Active \ out
  BY <1>2, <1>3 DEF Active
<1>10. ActiveFiledOnce'
  <2>1. SUFFICES ASSUME ProtectedRows < HotRows
                 PROVE  /\ \A k \in Active' : \E e \in DOMAIN dheap :
                             e[4] = k /\ e[3] = seq'[k] /\ AtMost(e, DEntry(seq, k)')
                        /\ \A e \in DOMAIN dheap :
                             /\ e[3] > 0 /\ e[3] < nextSeq'
                             /\ e[3] = seq'[e[4]] =>
                                  /\ e[4] \in Active' /\ dheap[e] = 1
                                  /\ \A f \in DOMAIN dheap : f[4] = e[4] /\ f[3] = e[3] => f = e
    BY <1>8 DEF ActiveFiledOnce, FiledOnce
  <2>2. ASSUME NEW k \in Active'
        PROVE  \E e \in DOMAIN dheap : e[4] = k /\ e[3] = seq'[k] /\ AtMost(e, DEntry(seq, k)')
    <3>1. k \in Active /\ k \in Keys /\ seq'[k] = seq[k]
      BY <1>9, <2>2 DEF Active
    <3>2. PICK e \in DOMAIN dheap : e[4] = k /\ e[3] = seq[k] /\ AtMost(e, DEntry(seq, k))
      BY <1>8, <2>1, <3>1 DEF ActiveFiledOnce, FiledOnce
    <3>3. AtMost(DEntry(seq, k), DEntry(seq, k)')
      BY <1>1, <3>1, DemotionRankGrows
    <3>4. e \in DEntries /\ DEntry(seq, k) \in DEntries
      <4>1. e \in DEntries
        BY DEF HeapsTyped, HeapOf
      <4>2. DEntry(seq, k) \in DEntries
        BY <3>1 DEF DEntry, DEntries, HeapsTyped
      <4> QED
        BY <4>1, <4>2
    <3>5. DEntry(seq, k)' \in DEntries
      BY <1>1, <3>1 DEF DEntry, DEntries, HeapsTyped
    <3>6. AtMost(e, DEntry(seq, k)')
      BY <3>2, <3>3, <3>4, <3>5, DemotionOrder
    <3> QED
      BY <3>1, <3>2, <3>6
  <2>3. ASSUME NEW e \in DOMAIN dheap
        PROVE  /\ e[3] > 0 /\ e[3] < nextSeq'
               /\ e[3] = seq'[e[4]] =>
                    /\ e[4] \in Active' /\ dheap[e] = 1
                    /\ \A f \in DOMAIN dheap : f[4] = e[4] /\ f[3] = e[3] => f = e
    <3>1. e[4] \in Keys
      BY DEntriesAre DEF HeapsTyped, HeapOf
    <3>2. /\ e[3] > 0 /\ e[3] < nextSeq
          /\ e[3] = seq[e[4]] =>
               /\ e[4] \in Active /\ dheap[e] = 1
               /\ \A f \in DOMAIN dheap : f[4] = e[4] /\ f[3] = e[3] => f = e
      BY <1>8, <2>1 DEF ActiveFiledOnce, FiledOnce
    <3>3. e[3] = seq'[e[4]] => e[4] \notin out /\ e[3] = seq[e[4]]
      BY <3>1, <3>2
    <3> QED
      BY <1>9, <3>2, <3>3
  <2> QED
    BY <2>2, <2>3
<1>11. ChosenFirst'
  BY DEF ChosenFirst
<1> QED
  BY <1>1, <1>4, <1>5, <1>7, <1>10, <1>11

(* No row leaves its slot.                                                 *)
LEMMA RowsStay ==
  ASSUME IInv, HeapsRight, loop = "none",
         UNCHANGED <<slotOf, keyOf, publications, heaps>>,
         clock' \in Nat, freq' \in [Keys -> Nat], last' \in [Keys -> Nat],
         \A k \in Keys : GrownRank(k),
         list' \in Seq(Keys), reclaimable' \subseteq reclaimable,
         \/ loop' = "none" /\ reclaimable' = reclaimable
         \/ /\ loop' = "resurrect" /\ list' # <<>> /\ IsInjective(list')
            /\ ToSet(list') = reclaimable \ reclaimable'
  PROVE  HeapsRight'
<1> DEFINE out == {}
<1>1. UNCHANGED <<slotOf, keyOf, seq, nextSeq, order, vheap, dheap, held>>
  BY DEF publications, heaps
<1>2. held = EmptyBag
  BY DEF HeapsRight, LoopRight
<1>3. /\ seq \in [Keys -> Nat] /\ order \in Seq(Keys) /\ HeapOf(vheap, VEntries)
      /\ \A i, j \in DOMAIN order : i < j => seq[order[i]] < seq[order[j]]
  BY DEF HeapsRight, HeapsTyped, InOrder
<1>4. DOMAIN vheap = VictimEntries
  BY DEF VictimEntries
<1>5. out \in SUBSET Keys /\ reclaimable \ out = reclaimable /\ ToSet(order) \ out = ToSet(order)
  OBVIOUS
<1>6. /\ \A k \in Keys : slotOf'[k] = IF k \in out THEN NoSlot ELSE slotOf[k]
      /\ \A s \in Slots : keyOf'[s] = IF keyOf[s] \in out THEN NoKey ELSE keyOf[s]
      /\ \A k \in Keys : seq'[k] = IF k \in out THEN 0 ELSE seq[k]
  BY <1>1
<1>7. /\ reclaimable' \subseteq reclaimable \ out
      /\ \/ loop' = "none" /\ reclaimable' = reclaimable \ out
         \/ /\ loop' = "resurrect" /\ list' # <<>> /\ IsInjective(list')
            /\ ToSet(list') = (reclaimable \ out) \ reclaimable'
  BY <1>5
<1>8. /\ order' \in Seq(Keys) /\ ToSet(order') = ToSet(order) \ out
      /\ \A i, j \in DOMAIN order' : i < j => seq[order'[i]] < seq[order'[j]]
      /\ seq' \in [Keys -> Nat] /\ nextSeq' = nextSeq /\ dheap' = dheap /\ held' = EmptyBag
      /\ HeapOf(vheap', VEntries) /\ DOMAIN vheap' = VictimEntries
  BY <1>1, <1>2, <1>3, <1>4, <1>5
<1> HIDE DEF out
<1> QED
  BY <1>5, <1>6, <1>7, <1>8, RowsMove

\* Ranks that stay have grown in the sense above.
LEMMA RanksStay ==
  ASSUME HeapsRight, UNCHANGED ranks
  PROVE  /\ clock' \in Nat /\ freq' \in [Keys -> Nat] /\ last' \in [Keys -> Nat]
         /\ \A k \in Keys : GrownRank(k)
BY DEF HeapsRight, HeapsTyped, ranks, GrownRank

\* Those of the keys asked for have grown.
LEMMA RanksTouched ==
  ASSUME HeapsRight, NEW ks, Touch(ks)
  PROVE  /\ clock' \in Nat /\ freq' \in [Keys -> Nat] /\ last' \in [Keys -> Nat]
         /\ \A k \in Keys : GrownRank(k)
<1>1. clock \in Nat /\ freq \in [Keys -> Nat] /\ last \in [Keys -> Nat]
  BY DEF HeapsRight, HeapsTyped
<1>2. /\ clock' = clock + 1
      /\ freq' = [k \in Keys |-> IF k \in ks THEN freq[k] + 1 ELSE freq[k]]
      /\ last' = [k \in Keys |-> IF k \in ks THEN clock + 1 ELSE last[k]]
  BY DEF Touch
<1>3. clock' \in Nat /\ freq' \in [Keys -> Nat] /\ last' \in [Keys -> Nat]
  BY <1>1, <1>2
<1>4. ASSUME NEW k \in Keys
      PROVE  GrownRank(k)
  BY <1>1, <1>2 DEF GrownRank
<1> QED
  BY <1>3, <1>4

\* The keys of a request that a loop has to resurrect.
LEMMA ResurrectIs ==
  ASSUME IInv, NEW q \in Seq(Keys), IsInjective(q), NEW out \in SUBSET Keys, Resurrect(q, out),
         reclaimable' = (reclaimable \ out) \ ToSet(q)
  PROVE  /\ list' \in Seq(Keys) /\ reclaimable' \subseteq reclaimable \ out
         /\ \/ loop' = "none" /\ reclaimable' = reclaimable \ out
            \/ /\ loop' = "resurrect" /\ list' # <<>> /\ IsInjective(list')
               /\ ToSet(list') = (reclaimable \ out) \ reclaimable'
<1>1. list' = Only(q, reclaimable \ out) /\ loop' = IF list' = <<>> THEN "none" ELSE "resurrect"
  BY DEF Resurrect
<1>2. list' \in Seq(Keys) /\ ToSet(list') = ToSet(q) \cap (reclaimable \ out) /\ IsInjective(list')
  BY <1>1, OnlyIs, OnlyInOrder
<1>3. list' = <<>> <=> ToSet(list') = {}
  BY <1>2, HeldIs
<1>4. (reclaimable \ out) \ reclaimable' = ToSet(q) \cap (reclaimable \ out)
  OBVIOUS
<1> QED
  BY <1>1, <1>2, <1>3, <1>4

LEMMA OneIs ==
  ASSUME NEW k \in Keys
  PROVE  <<k>> \in Seq(Keys) /\ IsInjective(<<k>>) /\ ToSet(<<k>>) = {k}
BY DEF ToSet, IsInjective

LEMMA AskKeeps ==
  ASSUME IInv, HeapsRight, NEW t \in Threads, NEW q \in Requests[t], Ask(t, q)
  PROVE  HeapsRight'
<1>1. /\ loop = "none" /\ Begin(t, q) /\ Touch(ToSet(q)) /\ Resurrect(q, {})
      /\ UNCHANGED <<publications, heaps>>
  BY DEF Ask, Resting
<1>2. q \in Seq(Keys) /\ IsInjective(q)
  <2>1. \A u \in Threads : \A r \in Requests[u] : r \in Seq(Keys) /\ IsInjective(r)
    BY ColdTierAssumption
  <2> QED
    BY <2>1
<1>3. UNCHANGED <<slotOf, keyOf>> /\ reclaimable' = reclaimable \ {k \in ToSet(q) : Resident(k)}
  BY <1>1 DEF Begin
<1>4. reclaimable' = (reclaimable \ {}) \ ToSet(q)
  BY <1>3 DEF IInv, Soft
<1>5. /\ list' \in Seq(Keys) /\ reclaimable' \subseteq reclaimable
      /\ \/ loop' = "none" /\ reclaimable' = reclaimable
         \/ /\ loop' = "resurrect" /\ list' # <<>> /\ IsInjective(list')
            /\ ToSet(list') = reclaimable \ reclaimable'
  <2>1. {} \in SUBSET Keys /\ reclaimable \ {} = reclaimable
    OBVIOUS
  <2> QED
    BY <1>1, <1>2, <1>4, <2>1, ResurrectIs
<1> QED
  BY <1>1, <1>3, <1>5, RanksTouched, RowsStay

\* One row is resurrected, if it needs to be.
LEMMA OneRowStays ==
  ASSUME IInv, HeapsRight, loop = "none", NEW k \in Keys, Resurrect(<<k>>, {}),
         reclaimable' = reclaimable \ {k},
         UNCHANGED <<slotOf, keyOf, ranks, publications, heaps>>
  PROVE  HeapsRight'
<1>1. <<k>> \in Seq(Keys) /\ IsInjective(<<k>>) /\ ToSet(<<k>>) = {k}
  BY OneIs
<1>2. {} \in SUBSET Keys /\ reclaimable \ {} = reclaimable
  OBVIOUS
<1>3. /\ list' \in Seq(Keys) /\ reclaimable' \subseteq reclaimable
      /\ \/ loop' = "none" /\ reclaimable' = reclaimable
         \/ /\ loop' = "resurrect" /\ list' # <<>> /\ IsInjective(list')
            /\ ToSet(list') = reclaimable \ reclaimable'
  BY <1>1, <1>2, ResurrectIs
<1> QED
  BY <1>3, RanksStay, RowsStay

LEMMA MeetRowKeeps ==
  ASSUME IInv, HeapsRight, NEW t \in Threads, MeetRow(t)
  PROVE  HeapsRight'
<1> DEFINE k == Head(local[t].todo)
<1>1. /\ loop = "none" /\ PlanHit(t) /\ Resurrect(<<k>>, {}) /\ UNCHANGED <<ranks, publications, heaps>>
  BY DEF MeetRow, Resting
<1>2. UNCHANGED <<slotOf, keyOf>> /\ reclaimable' = reclaimable \ {k} /\ local[t].todo # <<>>
  BY <1>1 DEF PlanHit, Planning
<1>3. k \in Keys
  <2>1. local[t].todo \in Seq(Keys)
    BY DEF IInv, TypeOK, Calls
  <2> QED
    BY <1>2, <2>1, TailIs
<1> HIDE DEF k
<1> QED
  BY <1>1, <1>2, <1>3, OneRowStays

\* What a claim leaves reclaimable.
LEMMA UseSlotSoft ==
  ASSUME IInv, NEW t \in Threads, NEW s, NEW left, NEW out, UseSlot(t, s, left, out)
  PROVE  reclaimable' = (reclaimable \ out) \ {Head(local[t].todo)}
<1> DEFINE k == Head(local[t].todo)
<1>1. CASE Resident(k) /\ k \notin out /\ reclaimable' = reclaimable \ (out \cup {k})
  BY <1>1
<1>2. CASE reclaimable' = reclaimable \ out /\ (Resident(k) => k \in out)
  <2>1. k \notin reclaimable \ out
    BY <1>2 DEF IInv, Soft
  <2> QED
    BY <1>2, <2>1
<1> QED
  BY <1>1, <1>2 DEF UseSlot

LEMMA TakeFreeKeeps ==
  ASSUME IInv, HeapsRight, NEW t \in Threads, TakeFree(t)
  PROVE  HeapsRight'
<1> DEFINE k == Head(local[t].todo)
<1>1. /\ loop = "none" /\ ClaimFree(t) /\ Resurrect(<<k>>, {}) /\ UNCHANGED <<ranks, publications, heaps>>
  BY DEF TakeFree, Resting
<1>2. /\ UNCHANGED <<slotOf, keyOf>> /\ Claiming(t)
      /\ UseSlot(t, Last(free), Front(free), {})
  BY <1>1 DEF ClaimFree
<1>3. k \in Keys
  BY <1>2, ClaimingIs
<1>4. reclaimable' = reclaimable \ {k}
  BY <1>2, UseSlotSoft
<1> HIDE DEF k
<1> QED
  BY <1>1, <1>2, <1>3, <1>4, OneRowStays

LEMMA LookKeeps ==
  ASSUME IInv, HeapsRight, NEW t \in Threads, Look(t)
  PROVE  HeapsRight'
<1> DEFINE k == Head(local[t].waits).key
<1>1. /\ loop = "none" /\ Await(t) /\ Resurrect(<<k>>, {}) /\ UNCHANGED <<ranks, publications, heaps>>
  BY DEF Look, Resting
<1>2. /\ UNCHANGED <<slotOf, keyOf>> /\ local[t].waits # <<>>
      /\ IF Resident(k) THEN reclaimable' = reclaimable \ {k} ELSE reclaimable' = reclaimable
  BY <1>1 DEF Await
<1>3. k \in Keys
  <2>1. local[t].waits \in Seq(Events)
    BY DEF IInv, TypeOK, Calls
  <2>2. Head(local[t].waits) \in Events
    BY <1>2, <2>1, TailIs
  <2> QED
    BY <2>2 DEF Events
<1>4. reclaimable' = reclaimable \ {k}
  BY <1>2 DEF IInv, Soft
<1> HIDE DEF k
<1> QED
  BY <1>1, <1>2, <1>3, <1>4, OneRowStays

LEMMA AskAgainKeeps ==
  ASSUME IInv, HeapsRight, NEW t \in Threads, AskAgain(t)
  PROVE  HeapsRight'
<1>1. /\ loop = "none" /\ Refetch(t) /\ Touch({Head(local[t].todo)})
      /\ UNCHANGED <<publications, heaps, loop, list>>
  BY DEF AskAgain, Resting
<1>2. UNCHANGED <<slotOf, keyOf, reclaimable>>
  BY <1>1 DEF Refetch, tierVars
<1>3. list \in Seq(Keys)
  BY DEF HeapsRight, HeapsTyped
<1> QED
  BY <1>1, <1>2, <1>3, RanksTouched, RowsStay

\* Neither rows nor heaps.
LEMMA RestKeeps ==
  ASSUME IInv, HeapsRight, loop = "none", UNCHANGED <<slotOf, keyOf, reclaimable, heapVars>>
  PROVE  HeapsRight'
<1>1. UNCHANGED <<ranks, publications, heaps, loop, list>>
  BY DEF heapVars
<1>2. list \in Seq(Keys)
  BY DEF HeapsRight, HeapsTyped
<1> QED
  BY <1>1, <1>2, RanksStay, RowsStay

LEMMA QuietKeeps ==
  ASSUME IInv, HeapsRight, Quiet
  PROVE  HeapsRight'
<1>1. loop = "none" /\ UNCHANGED heapVars
  BY DEF Quiet, Resting
<1>2. ASSUME NEW t \in Threads, ReclaimUnsubmitted(t) \/ EndFill(t)
      PROVE  UNCHANGED <<slotOf, keyOf, reclaimable>>
  <2>1. Unsubmitted(t) \in SUBSET Batch(t) /\ ToSet(local[t].batch) = Batch(t)
    BY DEF Unsubmitted, Batch
  <2>2. PICK gone \in SUBSET Batch(t) : Reclaim(gone)
    BY <1>2, <2>1 DEF ReclaimUnsubmitted, EndFill
  <2> QED
    BY <2>2, ReclaimSame DEF Reclaim
<1>3. ASSUME NEW t \in Threads,
             \/ PlanElsewhere(t) \/ Unblock(t) \/ EndPlan(t) \/ PopFences(t) \/ Submit(t)
             \/ FillFails(t)
      PROVE  UNCHANGED <<slotOf, keyOf, reclaimable>>
  BY <1>3 DEF PlanElsewhere, Unblock, EndPlan, PopFences, Submit, FillFails, tierVars
<1>4. CASE QueueCopies \/ Fence \/ ReadRows \/ Copy
  BY <1>1, <1>4, RestKeeps DEF QueueCopies, Fence, ReadRows, Copy, tierVars
<1> QED
  BY <1>1, <1>2, <1>3, <1>4, RestKeeps DEF Quiet

LEMMA NothingToDemoteKeeps ==
  ASSUME IInv, HeapsRight, NEW t \in Threads, NothingToDemote(t)
  PROVE  HeapsRight'
<1>1. loop = "none" /\ UNCHANGED heapVars /\ Reclassify(t, {})
  BY DEF NothingToDemote, Resting
<1>2. UNCHANGED <<slotOf, keyOf, reclaimable>>
  BY <1>1 DEF Reclassify
<1> QED
  BY <1>1, <1>2, RestKeeps

\* What is left of the publications once a row has gone.
LEMMA UnpublishIs ==
  ASSUME HeapsRight, NEW k \in Keys, Unpublish(k)
  PROVE  /\ seq' \in [Keys -> Nat]
         /\ \A j \in Keys : seq'[j] = IF j \in {k} THEN 0 ELSE seq[j]
         /\ nextSeq' = nextSeq
         /\ order' \in Seq(Keys) /\ ToSet(order') = ToSet(order) \ {k}
         /\ \A i, j \in DOMAIN order' : i < j => seq[order'[i]] < seq[order'[j]]
<1>1. seq \in [Keys -> Nat] /\ order \in Seq(Keys)
  BY DEF HeapsRight, HeapsTyped
<1>2. seq' = [seq EXCEPT ![k] = 0] /\ order' = Only(order, Keys \ {k}) /\ nextSeq' = nextSeq
  BY DEF Unpublish
<1>3. seq' \in [Keys -> Nat] /\ \A j \in Keys : seq'[j] = IF j \in {k} THEN 0 ELSE seq[j]
  BY <1>1, <1>2
<1>4. order' \in Seq(Keys) /\ ToSet(order') = ToSet(order) \ {k}
  <2>1. order' \in Seq(Keys) /\ ToSet(order') = ToSet(order) \cap (Keys \ {k})
    BY <1>1, <1>2, OnlyIs
  <2>2. ToSet(order) \subseteq Keys
    BY <1>1, HeldIs
  <2> QED
    BY <2>1, <2>2
<1>5. ASSUME NEW i \in DOMAIN order', NEW j \in DOMAIN order', i < j
      PROVE  seq[order'[i]] < seq[order'[j]]
  <2>1. PICK a \in DOMAIN order, b \in DOMAIN order : a < b /\ order'[i] = order[a] /\ order'[j] = order[b]
    BY <1>1, <1>2, <1>5, OnlyInOrder
  <2> QED
    BY <2>1 DEF HeapsRight, InOrder
<1> QED
  BY <1>2, <1>3, <1>4, <1>5

LEMMA DropKeeps ==
  ASSUME IInv, HeapsRight, NEW k \in Keys, Drop(k)
  PROVE  HeapsRight'
<1>1. /\ loop = "none" /\ Invalidate(k) /\ Unpublish(k) /\ UNCHANGED <<ranks, heaps, loop, list>>
  BY DEF Drop, Resting
<1>2. /\ Resident(k) /\ slotOf' = [slotOf EXCEPT ![k] = NoSlot]
      /\ keyOf' = [keyOf EXCEPT ![slotOf[k]] = NoKey] /\ reclaimable' = reclaimable \ {k}
  BY <1>1 DEF Invalidate
<1>3. /\ slotOf \in [Keys -> Slots \cup {NoSlot}] /\ keyOf \in [Slots -> Keys \cup {NoKey}]
      /\ slotOf[k] \in Slots /\ keyOf[slotOf[k]] = k
      /\ \A s \in Slots : keyOf[s] # NoKey => slotOf[keyOf[s]] = s
  BY <1>2 DEF IInv, TypeOK, EverySlotInOnePlace, Resident
<1>4. \A j \in Keys : slotOf'[j] = IF j \in {k} THEN NoSlot ELSE slotOf[j]
  BY <1>2, <1>3
<1>5. \A s \in Slots : keyOf'[s] = IF keyOf[s] \in {k} THEN NoKey ELSE keyOf[s]
  <2>1. k # NoKey
    BY KeysAndSlots
  <2> QED
    BY <1>2, <1>3, <2>1
<1>6. /\ held = EmptyBag /\ UNCHANGED <<vheap, dheap, held>> /\ DOMAIN vheap = VictimEntries
      /\ HeapOf(vheap, VEntries) /\ list \in Seq(Keys)
  BY <1>1 DEF HeapsRight, LoopRight, VictimEntries, heaps, HeapsTyped
<1>7. loop' = "none" /\ held' = EmptyBag /\ dheap' = dheap /\ HeapOf(vheap', VEntries)
      /\ DOMAIN vheap' = VictimEntries /\ list' \in Seq(Keys)
  BY <1>1, <1>6
<1>8. /\ clock' \in Nat /\ freq' \in [Keys -> Nat] /\ last' \in [Keys -> Nat]
      /\ \A j \in Keys : GrownRank(j)
  BY <1>1, RanksStay
<1> DEFINE out == {k}
<1>9. /\ out \in SUBSET Keys
      /\ \A j \in Keys : slotOf'[j] = IF j \in out THEN NoSlot ELSE slotOf[j]
      /\ \A s \in Slots : keyOf'[s] = IF keyOf[s] \in out THEN NoKey ELSE keyOf[s]
      /\ seq' \in [Keys -> Nat] /\ \A j \in Keys : seq'[j] = IF j \in out THEN 0 ELSE seq[j]
      /\ nextSeq' = nextSeq
      /\ order' \in Seq(Keys) /\ ToSet(order') = ToSet(order) \ out
      /\ \A i, j \in DOMAIN order' : i < j => seq[order'[i]] < seq[order'[j]]
      /\ reclaimable' \subseteq reclaimable \ out
      /\ loop' = "none" /\ reclaimable' = reclaimable \ out
  BY <1>1, <1>2, <1>4, <1>5, UnpublishIs
<1> HIDE DEF out
<1> QED
  BY <1>1, <1>7, <1>8, <1>9, RowsMove

-----------------------------------------------------------------------------
(* The search for a victim.                                                *)
LEMMA SearchIs ==
  ASSUME IInv, HeapsRight, NEW t \in Threads, Searching(t)
  PROVE  /\ Claiming(t) /\ free = <<>>
         /\ HeapOf(vheap, VEntries) /\ HeapOf(held, VEntries)
         /\ \A e \in DOMAIN held : e[4] \notin Evictable(t)
<1>1. PICK u \in Threads : Claiming(u) /\ free = <<>> /\ \A e \in DOMAIN held : e[4] \notin Evictable(u)
  BY DEF HeapsRight, LoopRight, Searching
<1>2. Claiming(t) /\ loop = "search"
  BY DEF Searching
<1>3. u = t
  BY <1>1, <1>2 DEF Claiming, Planning
<1> QED
  BY <1>1, <1>2, <1>3 DEF HeapsRight, HeapsTyped, LoopRight

\* A step of the search: an entry that goes is stale, and another takes its place.
LEMMA SearchGoes ==
  ASSUME IInv, HeapsRight, loop \in {"none", "search"}, loop' = "search",
         UNCHANGED <<vars, ranks, publications, dheap, list>>,
         NEW t \in Threads, Claiming(t), free = <<>>,
         HeapOf(vheap', VEntries), HeapOf(held', VEntries),
         \A e \in DOMAIN held' : e[4] \notin Evictable(t),
         \A e \in VictimEntries : SlotMoved(e) \/ \E f \in VictimEntries' :
           f[4] = e[4] /\ f[5] = e[5]
             /\ (f = e \/ f = VEntry(reclaimable, e[4], e[5]))
  PROVE  HeapsRight'
<1>1. HeapsTyped'
  BY DEF HeapsRight, HeapsTyped, ranks, publications
<1>2. UNCHANGED <<slotOf, keyOf, free, reserved, pending, window, reclaimable, lock, local>>
  BY DEF vars, tierVars
<1>3. InOrder'
  BY <1>2 DEF HeapsRight, InOrder, Resident, publications
<1>4. Claiming(t)' /\ Evictable(t)' = Evictable(t)
  BY <1>2 DEF Claiming, Planning, Resident, Pending, Evictable, Own
<1>5. LoopRight'
  BY <1>2, <1>4 DEF LoopRight
<1>6. Pushed = reclaimable /\ Pushed' = reclaimable
  BY <1>2 DEF Pushed
<1>7. \A s \in Slots, k \in Keys : VEntry(reclaimable, s, k)' = VEntry(reclaimable, s, k)
  BY <1>2 DEF VEntry, ranks
<1>8. EveryRowFiled'
  <2> SUFFICES ASSUME NEW s \in Slots, keyOf[s] # NoKey
               PROVE  \E e \in VictimEntries' :
                        e[4] = s /\ e[5] = keyOf[s] /\ AtMost(e, VEntry(reclaimable, s, keyOf[s]))
    <3>1. ASSUME NEW s \in Slots, keyOf[s] # NoKey
          PROVE  VEntry(Pushed, s, keyOf[s])' = VEntry(reclaimable, s, keyOf[s])
      BY <1>2, <1>6 DEF VEntry, ranks
    <3> QED
      BY <1>2, <3>1 DEF EveryRowFiled
  <2>1. keyOf[s] \in Keys
    BY DEF IInv, TypeOK
  <2>2. PICK e \in VictimEntries :
          e[4] = s /\ e[5] = keyOf[s] /\ AtMost(e, VEntry(reclaimable, s, keyOf[s]))
    BY <1>6 DEF HeapsRight, EveryRowFiled
  <2>3. ~SlotMoved(e)
    BY <2>2 DEF SlotMoved
  <2>4. PICK f \in VictimEntries' : f[4] = e[4] /\ f[5] = e[5]
          /\ (f = e \/ f = VEntry(reclaimable, e[4], e[5]))
    BY <2>3
  <2>5. VEntry(reclaimable, s, keyOf[s]) \in VEntries
    BY <2>1, EntriesAre DEF HeapsRight
  <2>6. AtMost(f, VEntry(reclaimable, s, keyOf[s]))
    BY <2>2, <2>4, <2>5, VictimOrder
  <2> QED
    BY <2>2, <2>4, <2>6
<1>9. Active' = Active /\ Filed' = dheap /\ Filed = dheap
  BY <1>2 DEF Active, Filed, Resident
<1>10. \A k : DEntry(seq, k)' = DEntry(seq, k)
  BY DEF DEntry, ranks, publications
<1>11. ActiveFiledOnce'
  BY <1>9, <1>10 DEF HeapsRight, ActiveFiledOnce, FiledOnce, publications
<1>12. ChosenFirst'
  BY DEF ChosenFirst
<1> QED
  BY <1>1, <1>3, <1>5, <1>8, <1>11, <1>12 DEF HeapsRight

LEMMA StartSearchKeeps ==
  ASSUME IInv, HeapsRight, NEW t \in Threads, StartSearch(t)
  PROVE  HeapsRight'
<1>1. /\ loop = "none" /\ loop' = "search" /\ Claiming(t) /\ free = <<>>
      /\ UNCHANGED <<vars, ranks, publications, dheap, list, vheap, held>>
  BY DEF StartSearch, Resting, heaps
<1>2. held = EmptyBag /\ HeapOf(vheap, VEntries)
  BY <1>1 DEF HeapsRight, LoopRight, HeapsTyped
<1>3. HeapOf(held, VEntries) /\ DOMAIN held = {}
  BY <1>2, EmptyIs
<1>4. VictimEntries = DOMAIN vheap /\ VictimEntries' = DOMAIN vheap
  BY <1>1, <1>3 DEF VictimEntries
<1> QED
  BY <1>1, <1>2, <1>3, <1>4, SearchGoes

LEMMA SearchOnKeeps ==
  ASSUME IInv, HeapsRight, NEW t \in Threads, SearchOn(t)
  PROVE  HeapsRight'
<1>1. /\ Searching(t) /\ loop = "search" /\ loop' = "search"
      /\ UNCHANGED <<vars, ranks, publications, dheap, list>>
  BY DEF SearchOn, Searching
<1>2. /\ Claiming(t) /\ free = <<>> /\ HeapOf(vheap, VEntries) /\ HeapOf(held, VEntries)
      /\ \A e \in DOMAIN held : e[4] \notin Evictable(t)
  BY <1>1, SearchIs
<1>3. VictimEntries = DOMAIN vheap \cup DOMAIN held /\ VictimEntries' = DOMAIN vheap' \cup DOMAIN held'
  BY <1>1 DEF VictimEntries
<1>4. PICK e \in Tops(vheap) :
       \/ /\ SlotMoved(e)
          /\ vheap' = BagRemove(vheap, e)
          /\ UNCHANGED held
       \/ /\ ~SlotMoved(e) /\ ~Current(e)
          /\ vheap' = BagAdd(BagRemove(vheap, e), VEntry(reclaimable, e[4], e[5]))
          /\ UNCHANGED held
       \/ /\ Current(e) /\ e[4] \notin Evictable(t)
          /\ vheap' = BagRemove(vheap, e)
          /\ held' = BagAdd(held, e)
  BY DEF SearchOn
<1>5. e \in DOMAIN vheap /\ e \in VEntries
  BY <1>2, <1>4 DEF Tops, BagToSet, HeapOf
<1>6. /\ HeapOf(BagRemove(vheap, e), VEntries)
      /\ DOMAIN vheap \ {e} \subseteq DOMAIN BagRemove(vheap, e)
  BY <1>2, <1>5, RemoveIs
<1>7. CASE SlotMoved(e) /\ vheap' = BagRemove(vheap, e) /\ UNCHANGED held
  <2>1. HeapOf(vheap', VEntries) /\ HeapOf(held', VEntries) /\ \A f \in DOMAIN held' : f[4] \notin Evictable(t)
    BY <1>2, <1>6, <1>7
  <2>2. \A f \in VictimEntries : SlotMoved(f) \/ f \in VictimEntries'
    BY <1>3, <1>6, <1>7
  <2> QED
    BY <1>1, <1>2, <2>1, <2>2, SearchGoes
<1>8. CASE /\ ~SlotMoved(e) /\ ~Current(e)
           /\ vheap' = BagAdd(BagRemove(vheap, e), VEntry(reclaimable, e[4], e[5]))
           /\ UNCHANGED held
  <2> DEFINE g == VEntry(reclaimable, e[4], e[5])
  <2>1. g \in VEntries /\ g[4] = e[4] /\ g[5] = e[5]
    <3>1. e[4] \in Slots /\ e[5] \in Keys
      BY <1>5, VEntriesAre
    <3>2. g \in VEntries
      BY <3>1, EntriesAre DEF HeapsRight
    <3> QED
      BY <3>2 DEF VEntry
  <2> HIDE DEF g
  <2>2. HeapOf(vheap', VEntries) /\ DOMAIN vheap' = DOMAIN BagRemove(vheap, e) \cup {g}
    BY <1>6, <1>8, <2>1, AddIs DEF g
  <2>3. HeapOf(held', VEntries) /\ \A f \in DOMAIN held' : f[4] \notin Evictable(t)
    BY <1>2, <1>8
  <2>4. \A f \in VictimEntries : f \in VictimEntries' \/ (f = e /\ g \in VictimEntries')
    BY <1>3, <1>6, <1>8, <2>2
  <2>5. \A f \in VictimEntries : \E h \in VictimEntries' :
          h[4] = f[4] /\ h[5] = f[5] /\ (h = f \/ h = VEntry(reclaimable, f[4], f[5]))
    BY <2>1, <2>4 DEF g
  <2> QED
    BY <1>1, <1>2, <2>2, <2>3, <2>5, SearchGoes
<1>9. CASE /\ Current(e) /\ e[4] \notin Evictable(t)
           /\ vheap' = BagRemove(vheap, e)
           /\ held' = BagAdd(held, e)
  <2>1. HeapOf(held', VEntries) /\ DOMAIN held' = DOMAIN held \cup {e}
    <3>1. HeapOf(BagAdd(held, e), VEntries) /\ DOMAIN BagAdd(held, e) = DOMAIN held \cup {e}
      <4>1. HeapOf(held, VEntries) /\ e \in VEntries
        BY <1>2, <1>5
      <4> QED
        BY <4>1, AddIs
    <3> QED
      BY <1>9, <3>1
  <2>2. HeapOf(vheap', VEntries) /\ \A f \in DOMAIN held' : f[4] \notin Evictable(t)
    BY <1>2, <1>6, <1>9, <2>1
  <2>3. \A f \in VictimEntries : f \in VictimEntries'
    BY <1>3, <1>6, <1>9, <2>1
  <2> QED
    BY <1>1, <1>2, <2>1, <2>2, <2>3, SearchGoes
<1> QED
  BY <1>4, <1>7, <1>8, <1>9

\* The entries kept aside are back in the heap.
LEMMA EndSearchIs ==
  ASSUME IInv, HeapsRight, NEW t \in Threads, Searching(t), EndSearch
  PROVE  /\ dheap' = dheap /\ held' = EmptyBag
         /\ HeapOf(vheap', VEntries) /\ DOMAIN vheap' = VictimEntries
         /\ clock' \in Nat /\ freq' \in [Keys -> Nat] /\ last' \in [Keys -> Nat]
         /\ \A k \in Keys : GrownRank(k)
<1>1. HeapOf(vheap, VEntries) /\ HeapOf(held, VEntries) /\ loop = "search"
  BY SearchIs DEF Searching
<1>2. vheap' = vheap (+) held /\ held' = EmptyBag /\ UNCHANGED <<ranks, dheap>>
  BY DEF EndSearch
<1>3. HeapOf(vheap', VEntries) /\ DOMAIN vheap' = DOMAIN vheap \cup DOMAIN held
  BY <1>1, <1>2, SumIs
<1>4. VictimEntries = DOMAIN vheap \cup DOMAIN held
  BY <1>1 DEF VictimEntries
<1> QED
  BY <1>2, <1>3, <1>4, RanksStay

LEMMA FindNoneKeeps ==
  ASSUME IInv, HeapsRight, NEW t \in Threads, FindNone(t)
  PROVE  HeapsRight'
<1> DEFINE out == {}
<1>1. /\ Searching(t) /\ loop = "search" /\ loop' = "none" /\ EndSearch
      /\ UNCHANGED <<slotOf, keyOf, reclaimable, seq, nextSeq, order, list>>
  BY DEF FindNone, Searching, GiveUp, tierVars, publications
<1>2. /\ seq \in [Keys -> Nat] /\ order \in Seq(Keys) /\ list \in Seq(Keys)
      /\ \A i, j \in DOMAIN order : i < j => seq[order[i]] < seq[order[j]]
  BY DEF HeapsRight, HeapsTyped, InOrder
<1>3. out \in SUBSET Keys /\ reclaimable \ out = reclaimable /\ ToSet(order) \ out = ToSet(order)
  OBVIOUS
<1>4. /\ \A k \in Keys : slotOf'[k] = IF k \in out THEN NoSlot ELSE slotOf[k]
      /\ \A s \in Slots : keyOf'[s] = IF keyOf[s] \in out THEN NoKey ELSE keyOf[s]
      /\ \A k \in Keys : seq'[k] = IF k \in out THEN 0 ELSE seq[k]
  BY <1>1
<1>5. /\ order' \in Seq(Keys) /\ ToSet(order') = ToSet(order) \ out
      /\ \A i, j \in DOMAIN order' : i < j => seq[order'[i]] < seq[order'[j]]
      /\ seq' \in [Keys -> Nat] /\ nextSeq' = nextSeq /\ list' \in Seq(Keys)
      /\ reclaimable' \subseteq reclaimable \ out /\ reclaimable' = reclaimable \ out
  BY <1>1, <1>2, <1>3
<1> HIDE DEF out
<1> QED
  BY <1>1, <1>3, <1>4, <1>5, EndSearchIs, RowsMove

LEMMA TakeVictimKeeps ==
  ASSUME IInv, HeapsRight, NEW t \in Threads, TakeVictim(t)
  PROVE  HeapsRight'
<1> DEFINE k == Head(local[t].todo)
<1>1. PICK e \in Tops(vheap) :
        /\ Current(e) /\ e[4] \in Evictable(t) /\ Evict(t, e[4])
        /\ Unpublish(e[5]) /\ Resurrect(<<k>>, {e[5]})
  BY DEF TakeVictim
<1>2. Searching(t) /\ loop = "search" /\ EndSearch
  BY DEF TakeVictim, Searching
<1>3. e[4] \in Slots /\ e[5] \in Keys /\ keyOf[e[4]] = e[5]
  <2>1. e \in VEntries
    BY <1>1, <1>2, SearchIs DEF Tops, BagToSet, HeapOf
  <2> QED
    BY <1>1, <2>1, VEntriesAre DEF Current, SlotMoved
<1> DEFINE out == {e[5]}
<1>4. /\ slotOf' = [slotOf EXCEPT ![e[5]] = NoSlot] /\ keyOf' = [keyOf EXCEPT ![e[4]] = NoKey]
      /\ UseSlot(t, e[4], free, out)
  BY <1>1, <1>3 DEF Evict
<1>5. /\ slotOf \in [Keys -> Slots \cup {NoSlot}] /\ keyOf \in [Slots -> Keys \cup {NoKey}]
      /\ \A s \in Slots : keyOf[s] # NoKey => slotOf[keyOf[s]] = s
  BY DEF IInv, TypeOK, EverySlotInOnePlace
<1>6. \A j \in Keys : slotOf'[j] = IF j \in out THEN NoSlot ELSE slotOf[j]
  BY <1>3, <1>4, <1>5
<1>7. \A s \in Slots : keyOf'[s] = IF keyOf[s] \in out THEN NoKey ELSE keyOf[s]
  <2>1. e[5] # NoKey
    BY <1>3, KeysAndSlots
  <2> QED
    BY <1>3, <1>4, <1>5, <2>1
<1>8. k \in Keys
  BY <1>2, SearchIs, ClaimingIs
<1>9. out \in SUBSET Keys
  BY <1>3
<1>10. reclaimable' = (reclaimable \ out) \ ToSet(<<k>>)
  BY <1>4, <1>8, UseSlotSoft, OneIs
<1>11. /\ list' \in Seq(Keys) /\ reclaimable' \subseteq reclaimable \ out
       /\ \/ loop' = "none" /\ reclaimable' = reclaimable \ out
          \/ /\ loop' = "resurrect" /\ list' # <<>> /\ IsInjective(list')
             /\ ToSet(list') = (reclaimable \ out) \ reclaimable'
  <2>1. <<k>> \in Seq(Keys) /\ IsInjective(<<k>>) /\ Resurrect(<<k>>, out)
    BY <1>1, <1>8, OneIs
  <2> HIDE DEF out, k
  <2> QED
    BY <1>9, <1>10, <2>1, ResurrectIs
<1>12. /\ seq' \in [Keys -> Nat] /\ \A j \in Keys : seq'[j] = IF j \in out THEN 0 ELSE seq[j]
       /\ nextSeq' = nextSeq
       /\ order' \in Seq(Keys) /\ ToSet(order') = ToSet(order) \ out
       /\ \A i, j \in DOMAIN order' : i < j => seq[order'[i]] < seq[order'[j]]
  BY <1>1, <1>3, UnpublishIs
<1> HIDE DEF out, k
<1> QED
  BY <1>2, <1>6, <1>7, <1>9, <1>11, <1>12, EndSearchIs, RowsMove

-----------------------------------------------------------------------------
(* A push.  The heap may be rebuilt: it then has an entry for every row    *)
(* but those that are passed as not to be in it.                           *)
LEMMA VictimPushed ==
  ASSUME HeapsRight, NEW of \in [Slots -> Keys \cup {NoKey}], NEW soft,
         NEW s \in Slots, NEW k \in Keys, of[s] = k,
         \A u \in Slots : u # s /\ of[u] # NoKey => \E e \in DOMAIN vheap :
           e[4] = u /\ e[5] = of[u] /\ AtMost(e, VEntry(soft, u, of[u]))
  PROVE  /\ HeapOf(VPushed(of, soft, s, k), VEntries)
         /\ \A u \in Slots : of[u] # NoKey => \E e \in DOMAIN VPushed(of, soft, s, k) :
              e[4] = u /\ e[5] = of[u] /\ AtMost(e, VEntry(soft, u, of[u]))
<1> DEFINE E == {VEntry(soft, u, of[u]) : u \in {x \in Slots : of[x] # NoKey}}
           g == VEntry(soft, s, k)
           h == IF BagCardinality(vheap) > HeapLimit THEN VCompacted(of, soft) ELSE vheap
<1>1. \A u \in Slots, j \in Keys : /\ VEntry(soft, u, j) \in VEntries
                                   /\ VEntry(soft, u, j)[4] = u /\ VEntry(soft, u, j)[5] = j
                                   /\ AtMost(VEntry(soft, u, j), VEntry(soft, u, j))
  <2> SUFFICES ASSUME NEW u \in Slots, NEW j \in Keys
               PROVE  /\ VEntry(soft, u, j) \in VEntries
                      /\ VEntry(soft, u, j)[4] = u /\ VEntry(soft, u, j)[5] = j
                      /\ AtMost(VEntry(soft, u, j), VEntry(soft, u, j))
    OBVIOUS
  <2>1. VEntry(soft, u, j) \in VEntries
    BY EntriesAre DEF HeapsRight
  <2>2. AtMost(VEntry(soft, u, j), VEntry(soft, u, j))
    BY <2>1, VictimOrder
  <2> QED
    BY <2>1, <2>2 DEF VEntry
<1>2. \A u \in Slots : of[u] # NoKey => of[u] \in Keys
  OBVIOUS
<1>3. /\ HeapOf(h, VEntries)
      /\ \A u \in Slots : u # s /\ of[u] # NoKey => \E e \in DOMAIN h :
           e[4] = u /\ e[5] = of[u] /\ AtMost(e, VEntry(soft, u, of[u]))
  <2>1. CASE BagCardinality(vheap) > HeapLimit
    <3>1. h = SetToBag(E)
      BY <2>1 DEF VCompacted
    <3>2. E \subseteq VEntries
      BY <1>1, <1>2
    <3> HIDE DEF E, h
    <3>3. HeapOf(h, VEntries) /\ DOMAIN h = E
      BY <3>1, <3>2, BagIs
    <3>4. \A u \in Slots : of[u] # NoKey => VEntry(soft, u, of[u]) \in E
      BY DEF E
    <3> QED
      BY <1>1, <1>2, <3>3, <3>4
  <2>2. CASE ~(BagCardinality(vheap) > HeapLimit)
    <3>1. h = vheap
      BY <2>2
    <3> HIDE DEF h
    <3> QED
      BY <3>1 DEF HeapsRight, HeapsTyped
  <2> QED
    BY <2>1, <2>2
<1>4. VPushed(of, soft, s, k) = BagAdd(h, g)
  BY DEF VPushed
<1>5. g \in VEntries /\ g[4] = s /\ g[5] = k /\ AtMost(g, VEntry(soft, s, of[s]))
  BY <1>1
<1> HIDE DEF h, g, E
<1>6. HeapOf(BagAdd(h, g), VEntries) /\ DOMAIN BagAdd(h, g) = DOMAIN h \cup {g}
  BY <1>3, <1>5, AddIs
<1> QED
  BY <1>3, <1>4, <1>5, <1>6

LEMMA DemotionPushed ==
  ASSUME HeapsRight, ProtectedRows < HotRows, NEW at \in [Keys -> Nat], NEW n \in Nat,
         NEW A \in SUBSET Keys, NEW k \in Keys, k \notin A, NEW ks, NEW soft,
         ks \ soft = A \cup {k}, \A j \in A \cup {k} : 0 < at[j] /\ at[j] < n,
         FiledOnce(dheap, A, at, n)
  PROVE  /\ HeapOf(DPushed(ks, at, soft, k), DEntries)
         /\ FiledOnce(DPushed(ks, at, soft, k), A \cup {k}, at, n)
<1> DEFINE d == DPushed(ks, at, soft, k)
           E == {DEntry(at, j) : j \in ks \ soft}
           g == DEntry(at, k)
           B == A \cup {k}
<1>1. \A j \in Keys : /\ DEntry(at, j) \in DEntries
                      /\ DEntry(at, j)[3] = at[j] /\ DEntry(at, j)[4] = j
                      /\ AtMost(DEntry(at, j), DEntry(at, j))
  <2> SUFFICES ASSUME NEW j \in Keys
               PROVE  /\ DEntry(at, j) \in DEntries
                      /\ DEntry(at, j)[3] = at[j] /\ DEntry(at, j)[4] = j
                      /\ AtMost(DEntry(at, j), DEntry(at, j))
    OBVIOUS
  <2>1. DEntry(at, j) \in DEntries
    BY DEF HeapsRight, HeapsTyped, DEntry, DEntries
  <2>2. AtMost(DEntry(at, j), DEntry(at, j))
    BY <2>1, DemotionOrder
  <2> QED
    BY <2>1, <2>2 DEF DEntry
<1>2. ~(ProtectedRows >= HotRows)
  BY ColdTierAssumption
<1>3. B \subseteq Keys
  OBVIOUS
<1>4. CASE BagCardinality(dheap) > HeapLimit
  <2>1. d = SetToBag(E)
    BY <1>2, <1>4 DEF DPushed, DCompacted
  <2>2. E \subseteq DEntries /\ \A e \in E : \E j \in B : e = DEntry(at, j)
    BY <1>1, <1>3
  <2>3. \A j \in B : DEntry(at, j) \in E
    OBVIOUS
  <2> HIDE DEF E, d, B
  <2>4. HeapOf(d, DEntries) /\ DOMAIN d = E /\ \A e \in E : d[e] = 1
    BY <2>1, <2>2, BagIs
  <2>5. \A j \in B : \E e \in DOMAIN d : e[4] = j /\ e[3] = at[j] /\ AtMost(e, DEntry(at, j))
    BY <1>1, <1>3, <2>3, <2>4
  <2>6. ASSUME NEW e \in DOMAIN d
        PROVE  /\ e[3] > 0 /\ e[3] < n
               /\ e[4] \in B /\ d[e] = 1
               /\ \A f \in DOMAIN d : f[4] = e[4] /\ f[3] = e[3] => f = e
    <3>1. PICK j \in B : e = DEntry(at, j)
      BY <2>2, <2>4
    <3>2. e[4] = j /\ e[3] = at[j] /\ 0 < at[j] /\ at[j] < n /\ at[j] \in Nat
      BY <1>1, <1>3, <3>1 DEF B
    <3>3. ASSUME NEW f \in DOMAIN d, f[4] = e[4]
          PROVE  f = e
      <4>1. PICK i \in B : f = DEntry(at, i)
        BY <2>2, <2>4
      <4>2. f[4] = i
        BY <1>1, <1>3, <4>1
      <4> QED
        BY <3>1, <3>2, <3>3, <4>1, <4>2
    <3>4. e[3] > 0
      BY <3>2
    <3> QED
      BY <2>4, <3>2, <3>3, <3>4
  <2> QED
    BY <2>4, <2>5, <2>6 DEF FiledOnce, B, d
<1>5. CASE ~(BagCardinality(dheap) > HeapLimit)
  <2>1. d = BagAdd(dheap, g)
    BY <1>2, <1>5 DEF DPushed
  <2>2. g \in DEntries /\ g[3] = at[k] /\ g[4] = k /\ AtMost(g, DEntry(at, k)) /\ 0 < at[k] /\ at[k] < n
    BY <1>1
  <2>3. \A e \in DOMAIN dheap : e[3] = at[e[4]] => e[4] # k
    BY DEF FiledOnce
  <2>4. g \notin DOMAIN dheap
    BY <2>2, <2>3
  <2> HIDE DEF d, g, B
  <2>5. /\ HeapOf(d, DEntries) /\ DOMAIN d = DOMAIN dheap \cup {g} /\ d[g] = 1
        /\ \A e \in DOMAIN dheap : d[e] = dheap[e]
    <3>1. HeapOf(dheap, DEntries)
      BY DEF HeapsRight, HeapsTyped
    <3>2. /\ HeapOf(BagAdd(dheap, g), DEntries) /\ DOMAIN BagAdd(dheap, g) = DOMAIN dheap \cup {g}
          /\ BagAdd(dheap, g)[g] = IF g \in DOMAIN dheap THEN dheap[g] + 1 ELSE 1
          /\ \A f \in DOMAIN dheap : f # g => BagAdd(dheap, g)[f] = dheap[f]
      <4>1. g \in DEntries
        BY <2>2
      <4> QED
        BY <3>1, <4>1, AddIs
    <3> QED
      BY <2>1, <2>4, <3>2
  <2>6. \A j \in B : \E e \in DOMAIN d : e[4] = j /\ e[3] = at[j] /\ AtMost(e, DEntry(at, j))
    <3> SUFFICES ASSUME NEW j \in B
                 PROVE  \E e \in DOMAIN d : e[4] = j /\ e[3] = at[j] /\ AtMost(e, DEntry(at, j))
      OBVIOUS
    <3>1. CASE j = k
      BY <2>2, <2>5, <3>1
    <3>2. CASE j \in A
      BY <2>5, <3>2 DEF FiledOnce
    <3> QED
      BY <3>1, <3>2 DEF B
  <2>7. ASSUME NEW e \in DOMAIN d
        PROVE  /\ e[3] > 0 /\ e[3] < n
               /\ e[3] = at[e[4]] =>
                    /\ e[4] \in B /\ d[e] = 1
                    /\ \A f \in DOMAIN d : f[4] = e[4] /\ f[3] = e[3] => f = e
    <3>1. CASE e = g
      <4>1. at[k] \in Nat /\ e[3] > 0 /\ e[3] < n
        BY <2>2, <3>1
      <4>2. \A f \in DOMAIN d : f[4] = e[4] /\ f[3] = e[3] => f = e
        BY <2>2, <2>3, <2>5, <3>1
      <4> QED
        BY <2>2, <2>5, <3>1, <4>1, <4>2 DEF B
    <3>2. CASE e \in DOMAIN dheap
      <4>1. /\ e[3] > 0 /\ e[3] < n
            /\ e[3] = at[e[4]] =>
                 /\ e[4] \in A /\ dheap[e] = 1
                 /\ \A f \in DOMAIN dheap : f[4] = e[4] /\ f[3] = e[3] => f = e
        BY <3>2 DEF FiledOnce
      <4> QED
        BY <2>2, <2>3, <2>5, <3>2, <4>1 DEF B
    <3> QED
      BY <2>5, <3>1, <3>2
  <2> QED
    BY <2>5, <2>6, <2>7 DEF FiledOnce, B, d
<1> QED
  BY <1>4, <1>5

\* The list of a loop, without its head.
LEMMA ListTail ==
  ASSUME HeapsRight, loop \in {"resurrect", "reclaim"}
  PROVE  /\ Head(list) \in Keys /\ Tail(list) \in Seq(Keys) /\ IsInjective(Tail(list))
         /\ ToSet(list) = {Head(list)} \cup ToSet(Tail(list))
         /\ Head(list) \notin ToSet(Tail(list))
<1>1. list \in Seq(Keys) /\ list # <<>> /\ IsInjective(list)
  BY DEF HeapsRight, HeapsTyped, LoopRight
<1> DEFINE r == Tail(list)
<1>2. /\ Head(list) \in Keys /\ r \in Seq(Keys) /\ ToSet(list) = {Head(list)} \cup ToSet(r)
  BY <1>1, TailIs
<1>3. Head(list) = list[1] /\ Len(list) \in Nat \ {0} /\ DOMAIN list = 1 .. Len(list)
  BY <1>1, EmptySeq, LenProperties
<1>4. Len(r) = Len(list) - 1 /\ \A i \in 1 .. Len(r) : r[i] = list[i + 1]
  BY <1>1, HeadTailProperties
<1>5. DOMAIN r = 1 .. Len(list) - 1
  BY <1>2, <1>4, LenProperties
<1> HIDE DEF r
<1>6. IsInjective(r)
  <2> SUFFICES ASSUME NEW i \in DOMAIN r, NEW j \in DOMAIN r, r[i] = r[j]
               PROVE  i = j
    BY DEF IsInjective
  <2>1. i + 1 \in DOMAIN list /\ j + 1 \in DOMAIN list /\ list[i + 1] = list[j + 1]
    BY <1>3, <1>4, <1>5
  <2>2. i + 1 = j + 1
    BY <1>1, <2>1 DEF IsInjective
  <2> QED
    BY <1>3, <1>5, <2>2
<1>7. list[1] \notin ToSet(r)
  <2> SUFFICES ASSUME NEW i \in DOMAIN r, r[i] = list[1]
               PROVE  FALSE
    BY DEF ToSet
  <2>1. i + 1 \in DOMAIN list /\ 1 \in DOMAIN list /\ list[i + 1] = list[1]
    BY <1>3, <1>4, <1>5
  <2>2. i + 1 = 1
    BY <1>1, <2>1 DEF IsInjective
  <2> QED
    BY <1>3, <1>5, <2>2
<1> QED
  BY <1>2, <1>3, <1>6, <1>7 DEF r

\* A step that only turns a loop over keys leaves rows and ranks alone.
LEMMA TurnFrame ==
  ASSUME IInv, HeapsRight, UNCHANGED <<vars, ranks, publications, held>>,
         loop \in {"resurrect", "reclaim"}, list' = Tail(list),
         loop' = IF list' = <<>> THEN "none" ELSE loop,
         HeapOf(vheap', VEntries), HeapOf(dheap', DEntries)
  PROVE  HeapsTyped' /\ InOrder' /\ LoopRight' /\ ChosenFirst'
<1>1. /\ Tail(list) \in Seq(Keys) /\ IsInjective(Tail(list)) /\ ToSet(Tail(list)) \subseteq ToSet(list)
  BY ListTail
<1>2. UNCHANGED <<slotOf, reclaimable, seq, nextSeq, order, clock, freq, last, held>>
  BY DEF vars, tierVars, ranks, publications
<1>3. HeapsTyped'
  BY <1>1, <1>2 DEF HeapsRight, HeapsTyped
<1>4. InOrder'
  BY <1>2 DEF HeapsRight, InOrder, Resident
<1>5. held = EmptyBag /\ loop' \in {"none", loop}
  BY DEF HeapsRight, LoopRight
<1>6. /\ loop = "resurrect" => \A k \in ToSet(list) : Resident(k) /\ k \notin reclaimable
      /\ loop = "reclaim" => ToSet(list) \subseteq reclaimable
  BY DEF HeapsRight, LoopRight
<1>7. LoopRight'
  BY <1>1, <1>2, <1>5, <1>6 DEF LoopRight, Resident
<1>8. ChosenFirst'
  BY <1>5 DEF ChosenFirst
<1> QED
  BY <1>3, <1>4, <1>7, <1>8

LEMMA ResurrectNextKeeps ==
  ASSUME IInv, HeapsRight, ResurrectNext
  PROVE  HeapsRight'
<1> DEFINE k == Head(list)
           gone == ToSet(Tail(list))
<1>1. /\ loop = "resurrect" /\ dheap' = DPushed(ToSet(order), seq, Marked, k) /\ list' = Tail(list)
      /\ loop' = IF list' = <<>> THEN "none" ELSE loop
      /\ UNCHANGED <<vars, ranks, publications, vheap, held>>
  BY DEF ResurrectNext
<1>2. /\ k \in Keys /\ ToSet(list) = {k} \cup gone /\ k \notin gone /\ Tail(list) \in Seq(Keys)
      /\ (Tail(list) = <<>> <=> gone = {})
  BY <1>1, ListTail, HeldIs
<1>3. UNCHANGED <<slotOf, keyOf, reclaimable, seq, nextSeq, order, clock, freq, last, held, vheap>>
  BY <1>1 DEF vars, tierVars, ranks, publications
<1>4. Marked = reclaimable \cup gone
  BY <1>1 DEF Marked
<1> HIDE DEF k, gone
<1>5. \A j \in ToSet(list) : Resident(j) /\ j \notin reclaimable
  BY <1>1 DEF HeapsRight, LoopRight
<1>6. k \notin Active /\ Active' = Active \cup {k} /\ Active \in SUBSET Keys
  <2>1. Active = {j \in Keys : Resident(j) /\ j \notin reclaimable} \ ({k} \cup gone)
    BY <1>1, <1>2 DEF Active
  <2>2. Active' = {j \in Keys : Resident(j) /\ j \notin reclaimable} \ gone
    <3>1. Active' = {j \in Keys : Resident(j) /\ j \notin reclaimable}
                      \ (IF loop' \in {"resurrect", "demote"} THEN gone ELSE {})
      BY <1>1, <1>3 DEF Active, Resident, gone
    <3>2. loop' = "resurrect" \/ (loop' = "none" /\ gone = {})
      BY <1>1, <1>2
    <3> QED
      BY <3>1, <3>2
  <2> QED
    BY <1>2, <1>5, <2>1, <2>2
<1>7. ToSet(order) \ Marked = Active \cup {k}
  <2>1. ToSet(order) = {j \in Keys : Resident(j)}
    BY DEF HeapsRight, InOrder
  <2>2. Active = {j \in Keys : Resident(j) /\ j \notin reclaimable} \ ({k} \cup gone)
    BY <1>1, <1>2 DEF Active
  <2> QED
    BY <1>2, <1>4, <1>5, <2>1, <2>2
<1>8. seq \in [Keys -> Nat] /\ nextSeq \in Nat /\ \A j \in Active \cup {k} : 0 < seq[j] /\ seq[j] < nextSeq
  <2>1. \A j \in Active \cup {k} : j \in Keys /\ Resident(j)
    BY <1>2, <1>5 DEF Active
  <2> QED
    BY <2>1 DEF HeapsRight, HeapsTyped, InOrder
<1>9. /\ HeapOf(dheap', DEntries)
      /\ ProtectedRows < HotRows => FiledOnce(dheap', Active \cup {k}, seq, nextSeq)
  <2>1. CASE ProtectedRows < HotRows
    <3>1. FiledOnce(dheap, Active, seq, nextSeq)
      BY <1>1, <2>1 DEF HeapsRight, ActiveFiledOnce, Filed
    <3> QED
      BY <1>1, <1>2, <1>6, <1>7, <1>8, <2>1, <3>1, DemotionPushed
  <2>2. CASE ~(ProtectedRows < HotRows)
    <3>1. ProtectedRows >= HotRows
      BY <2>2, ColdTierAssumption
    <3>2. dheap' = dheap
      BY <1>1, <3>1 DEF DPushed
    <3> QED
      BY <2>2, <3>2 DEF HeapsRight, HeapsTyped
  <2> QED
    BY <2>1, <2>2
<1>10. HeapsTyped' /\ InOrder' /\ LoopRight' /\ ChosenFirst'
  <2>1. HeapOf(vheap', VEntries)
    BY <1>3 DEF HeapsRight, HeapsTyped
  <2> QED
    BY <1>1, <1>9, <2>1, TurnFrame
<1>11. EveryRowFiled'
  <2>1. Pushed = reclaimable /\ Pushed' = reclaimable /\ VictimEntries = DOMAIN vheap
        /\ VictimEntries' = DOMAIN vheap
    BY <1>1, <1>3 DEF Pushed, VictimEntries
  <2> QED
    BY <1>3, <2>1 DEF HeapsRight, EveryRowFiled, VEntry
<1>12. ActiveFiledOnce'
  <2>1. Filed' = dheap'
    BY <1>1 DEF Filed
  <2>2. FiledOnce(dheap', Active \cup {k}, seq, nextSeq) => FiledOnce(Filed, Active, seq, nextSeq)'
    BY <1>3, <1>6, <2>1 DEF FiledOnce, DEntry
  <2> QED
    BY <1>9, <2>2 DEF ActiveFiledOnce
<1> QED
  BY <1>10, <1>11, <1>12 DEF HeapsRight

LEMMA ReclaimNextKeeps ==
  ASSUME IInv, HeapsRight, ReclaimNext
  PROVE  HeapsRight'
<1> DEFINE k == Head(list)
           gone == ToSet(Tail(list))
           s == slotOf[k]
<1>1. /\ loop = "reclaim" /\ vheap' = VPushed(keyOf, Marked, s, k) /\ list' = Tail(list)
      /\ loop' = IF list' = <<>> THEN "none" ELSE loop
      /\ UNCHANGED <<vars, ranks, publications, dheap, held>>
  BY DEF ReclaimNext
<1>2. /\ k \in Keys /\ ToSet(list) = {k} \cup gone /\ k \notin gone /\ Tail(list) \in Seq(Keys)
      /\ (Tail(list) = <<>> <=> gone = {})
  BY <1>1, ListTail, HeldIs
<1>3. UNCHANGED <<slotOf, keyOf, reclaimable, seq, nextSeq, order, clock, freq, last, held, dheap>>
  BY <1>1 DEF vars, tierVars, ranks, publications
<1>4. Marked = reclaimable \ gone
  BY <1>1 DEF Marked
<1>5. Pushed = reclaimable \ ({k} \cup gone) /\ Pushed' = Marked
  <2>1. Pushed = reclaimable \ ({k} \cup gone)
    BY <1>1, <1>2 DEF Pushed
  <2>2. loop' = "reclaim" \/ (loop' = "none" /\ gone = {})
    BY <1>1, <1>2
  <2>3. Pushed' = reclaimable \ gone
    BY <1>1, <1>3, <2>2 DEF Pushed
  <2> QED
    BY <1>4, <2>1, <2>3
<1> HIDE DEF k, gone
<1>6. k \in reclaimable
  BY <1>1, <1>2 DEF HeapsRight, LoopRight
<1>7. s \in Slots /\ keyOf[s] = k /\ keyOf \in [Slots -> Keys \cup {NoKey}]
  BY <1>2, <1>6 DEF IInv, TypeOK, Soft, Resident, EverySlotInOnePlace
<1>8. \A u \in Slots : keyOf[u] # NoKey /\ u # s => keyOf[u] # k
  BY <1>2, <1>7 DEF IInv, EverySlotInOnePlace
<1> HIDE DEF s
<1>9. \A u \in Slots : u # s /\ keyOf[u] # NoKey => \E e \in DOMAIN vheap :
        e[4] = u /\ e[5] = keyOf[u] /\ AtMost(e, VEntry(Marked, u, keyOf[u]))
  <2> SUFFICES ASSUME NEW u \in Slots, u # s, keyOf[u] # NoKey
               PROVE  \E e \in DOMAIN vheap :
                        e[4] = u /\ e[5] = keyOf[u] /\ AtMost(e, VEntry(Marked, u, keyOf[u]))
    OBVIOUS
  <2>1. VEntry(Marked, u, keyOf[u]) = VEntry(Pushed, u, keyOf[u])
    BY <1>4, <1>5, <1>8 DEF VEntry
  <2>2. VictimEntries = DOMAIN vheap
    BY <1>1 DEF VictimEntries
  <2> QED
    BY <2>1, <2>2 DEF HeapsRight, EveryRowFiled
<1>10. /\ HeapOf(vheap', VEntries)
       /\ \A u \in Slots : keyOf[u] # NoKey => \E e \in DOMAIN vheap' :
            e[4] = u /\ e[5] = keyOf[u] /\ AtMost(e, VEntry(Marked, u, keyOf[u]))
  BY <1>1, <1>2, <1>7, <1>9, VictimPushed
<1>11. HeapsTyped' /\ InOrder' /\ LoopRight' /\ ChosenFirst'
  <2>1. HeapOf(dheap', DEntries)
    BY <1>3 DEF HeapsRight, HeapsTyped
  <2> QED
    BY <1>1, <1>10, <2>1, TurnFrame
<1>12. EveryRowFiled'
  <2>1. VictimEntries' = DOMAIN vheap'
    BY <1>1 DEF VictimEntries
  <2>2. \A u \in Slots : VEntry(Pushed, u, keyOf[u])' = VEntry(Marked, u, keyOf[u])
    BY <1>3, <1>5 DEF VEntry
  <2> QED
    BY <1>3, <1>10, <2>1, <2>2 DEF EveryRowFiled
<1>13. ActiveFiledOnce'
  <2>1. Filed' = dheap /\ Filed = dheap /\ Active' = Active
    BY <1>1, <1>3 DEF Filed, Active, Resident
  <2> QED
    BY <1>3, <2>1 DEF HeapsRight, ActiveFiledOnce, FiledOnce, DEntry
<1> QED
  BY <1>11, <1>12, <1>13 DEF HeapsRight

\* What a read that lands is for.
LEMMA LandIs ==
  ASSUME IInv, NEW t \in Threads, local[t].pc = "drain", NEW f \in local[t].flight
  PROVE  f.key \in Keys /\ f.slot \in Slots /\ ~Resident(f.key) /\ keyOf[f.slot] = NoKey
<1> USE DEF IInv
<1>1. f \in Batch(t)
  BY DEF InPhase, PhaseOf
<1>2. Batch(t) \in SUBSET Fills
  BY BatchIs
<1>3. f.key \in Keys /\ f.slot \in Slots
  BY <1>1, <1>2 DEF Fills
<1>4. ~Resident(f.key) /\ f.slot \in reserved
  <2> HIDE DEF Batch, Resident
  <2> QED
    BY <1>1 DEF Filling
<1> QED
  BY <1>3, <1>4 DEF EverySlotInOnePlace

LEMMA LandKeeps ==
  ASSUME IInv, HeapsRight, NEW t \in Threads, Land(t)
  PROVE  HeapsRight'
<1>1. PICK f \in local[t].flight :
        /\ PublishRow(t, f)
        /\ seq' = [seq EXCEPT ![f.key] = nextSeq] /\ order' = Append(order, f.key)
        /\ vheap' = VPushed(keyOf', reclaimable, f.slot, f.key)
        /\ dheap' = DPushed(ToSet(order'), seq', reclaimable, f.key)
  BY DEF Land
<1>2. loop = "none" /\ local[t].pc = "drain" /\ nextSeq' = nextSeq + 1 /\ UNCHANGED <<ranks, held, loop, list>>
  BY DEF Land, Resting
<1> DEFINE k == f.key
           s == f.slot
<1>3. k \in Keys /\ s \in Slots /\ ~Resident(k) /\ keyOf[s] = NoKey
  BY <1>2, LandIs
<1>4. /\ keyOf' = [keyOf EXCEPT ![s] = k] /\ slotOf' = [slotOf EXCEPT ![k] = s]
      /\ reclaimable' = reclaimable
  BY <1>1 DEF PublishRow
<1>5. /\ slotOf \in [Keys -> Slots \cup {NoSlot}] /\ keyOf \in [Slots -> Keys \cup {NoKey}]
      /\ reclaimable \in SUBSET Keys /\ k \notin reclaimable
  BY <1>3 DEF IInv, TypeOK, Soft
<1>6. keyOf' \in [Slots -> Keys \cup {NoKey}] /\ keyOf'[s] = k /\ \A u \in Slots : u # s => keyOf'[u] = keyOf[u]
  BY <1>3, <1>4, <1>5
<1>7. \A j \in Keys : Resident(j)' <=> Resident(j) \/ j = k
  <2>1. s # NoSlot
    BY <1>3, KeysAndSlots
  <2> QED
    BY <1>3, <1>4, <1>5, <2>1 DEF Resident
<1>8. /\ seq \in [Keys -> Nat] /\ nextSeq \in Nat /\ nextSeq > 0 /\ order \in Seq(Keys)
      /\ ToSet(order) = {j \in Keys : Resident(j)} /\ list \in Seq(Keys) /\ held = EmptyBag
      /\ \A j \in Keys : seq[j] < nextSeq /\ (Resident(j) <=> seq[j] > 0)
      /\ \A i, j \in DOMAIN order : i < j => seq[order[i]] < seq[order[j]]
  BY <1>2 DEF HeapsRight, HeapsTyped, InOrder, LoopRight
<1>9. /\ seq' \in [Keys -> Nat] /\ seq'[k] = nextSeq /\ nextSeq' \in Nat
      /\ \A j \in Keys : j # k => seq'[j] = seq[j]
  BY <1>1, <1>2, <1>3, <1>8
<1>10. UNCHANGED <<clock, freq, last>>
  BY <1>2 DEF ranks
<1> HIDE DEF k, s
<1>11. order' \in Seq(Keys) /\ ToSet(order') = ToSet(order) \cup {k}
  BY <1>1, <1>3, <1>8, AppendIs DEF k
<1>12. InOrder'
  <2>1. ToSet(order') = {j \in Keys : Resident(j)'}
    BY <1>3, <1>7, <1>8, <1>11
  <2>2. ASSUME NEW i \in DOMAIN order', NEW j \in DOMAIN order', i < j
        PROVE  seq'[order'[i]] < seq'[order'[j]]
    <3>1. /\ DOMAIN order = 1 .. Len(order) /\ Len(order) \in Nat
          /\ DOMAIN order' = 1 .. Len(order) + 1
          /\ \A n \in 1 .. Len(order) : order'[n] = order[n]
          /\ order'[Len(order) + 1] = k
      BY <1>1, <1>3, <1>8, AppendProperties, LenProperties DEF k
    <3>2. i \in DOMAIN order /\ order'[i] = order[i]
      BY <2>2, <3>1
    <3>3. \A n \in DOMAIN order : order[n] \in Keys /\ order[n] # k
      BY <1>3, <1>8 DEF ToSet
    <3>4. CASE j \in DOMAIN order
      BY <1>8, <1>9, <2>2, <3>1, <3>2, <3>3, <3>4
    <3>5. CASE j = Len(order) + 1
      BY <1>8, <1>9, <3>1, <3>2, <3>3, <3>5
    <3> QED
      BY <3>1, <3>4, <3>5
  <2>3. ASSUME NEW j \in Keys
        PROVE  seq'[j] < nextSeq' /\ (Resident(j)' <=> seq'[j] > 0)
    <3>1. CASE j = k
      BY <1>2, <1>7, <1>8, <1>9, <3>1
    <3>2. CASE j # k
      BY <1>2, <1>7, <1>8, <1>9, <3>2
    <3> QED
      BY <3>1, <3>2
  <2> QED
    BY <1>2, <1>8, <2>1, <2>2, <2>3 DEF InOrder
<1>13. /\ HeapOf(vheap', VEntries)
       /\ \A u \in Slots : keyOf'[u] # NoKey => \E e \in DOMAIN vheap' :
            e[4] = u /\ e[5] = keyOf'[u] /\ AtMost(e, VEntry(reclaimable, u, keyOf'[u]))
  <2>1. Pushed = reclaimable /\ VictimEntries = DOMAIN vheap
    BY <1>2 DEF Pushed, VictimEntries
  <2>2. ASSUME NEW u \in Slots, u # s, keyOf'[u] # NoKey
        PROVE  \E e \in DOMAIN vheap :
                 e[4] = u /\ e[5] = keyOf'[u] /\ AtMost(e, VEntry(reclaimable, u, keyOf'[u]))
    BY <1>6, <2>1, <2>2 DEF HeapsRight, EveryRowFiled
  <2>3. vheap' = VPushed(keyOf', reclaimable, s, k)
    BY <1>1 DEF s, k
  <2> QED
    BY <1>3, <1>6, <2>2, <2>3, VictimPushed
<1>14. EveryRowFiled'
  <2>1. Pushed' = reclaimable /\ VictimEntries' = DOMAIN vheap'
    BY <1>2, <1>4 DEF Pushed, VictimEntries
  <2>2. \A u \in Slots : VEntry(Pushed, u, keyOf[u])' = VEntry(reclaimable, u, keyOf'[u])
    BY <1>10, <2>1 DEF VEntry
  <2> QED
    BY <1>13, <2>1, <2>2 DEF EveryRowFiled
<1>15. Active \in SUBSET Keys /\ k \notin Active /\ Active' = Active \cup {k}
  <2>1. Active = {j \in Keys : Resident(j) /\ j \notin reclaimable}
    BY <1>2 DEF Active
  <2>2. Active' = {j \in Keys : Resident(j)' /\ j \notin reclaimable}
    BY <1>2, <1>4 DEF Active
  <2> QED
    BY <1>3, <1>5, <1>7, <2>1, <2>2
<1>16. /\ HeapOf(dheap', DEntries)
       /\ ProtectedRows < HotRows => FiledOnce(dheap', Active \cup {k}, seq', nextSeq')
  <2>1. dheap' = DPushed(ToSet(order'), seq', reclaimable, k)
    BY <1>1 DEF k
  <2>2. CASE ProtectedRows < HotRows
    <3>1. FiledOnce(dheap, Active, seq, nextSeq)
      BY <1>2, <2>2 DEF HeapsRight, ActiveFiledOnce, Filed
    <3>2. FiledOnce(dheap, Active, seq', nextSeq')
      <4>1. \A e \in DOMAIN dheap : e[4] \in Keys /\ e[3] \in Nat
        <5>1. HeapOf(dheap, DEntries)
          BY DEF HeapsRight, HeapsTyped
        <5> QED
          BY <5>1, DEntriesAre DEF HeapOf
      <4>2. \A j \in Active : j \in Keys /\ seq'[j] = seq[j] /\ DEntry(seq', j) = DEntry(seq, j)
        BY <1>9, <1>15 DEF DEntry
      <4>3. \A e \in DOMAIN dheap : e[3] > 0 /\ e[3] < nextSeq /\ e[3] < nextSeq'
        BY <1>2, <1>8, <3>1, <4>1 DEF FiledOnce
      <4>4. \A e \in DOMAIN dheap : e[3] = seq'[e[4]] => e[3] = seq[e[4]]
        BY <1>8, <1>9, <4>1, <4>3
      <4> QED
        BY <3>1, <4>2, <4>3, <4>4 DEF FiledOnce
    <3>3. ToSet(order') \ reclaimable = Active \cup {k}
      <4>1. Active = {j \in Keys : Resident(j) /\ j \notin reclaimable}
        BY <1>2 DEF Active
      <4> QED
        BY <1>3, <1>5, <1>8, <1>11, <4>1
    <3>4. \A j \in Active \cup {k} : 0 < seq'[j] /\ seq'[j] < nextSeq'
      <4>1. \A j \in Active : Resident(j) /\ j # k /\ j \in Keys
        BY <1>15 DEF Active
      <4>2. \A j \in Active : 0 < seq'[j] /\ seq'[j] < nextSeq'
        BY <1>2, <1>8, <1>9, <4>1
      <4> QED
        BY <1>2, <1>8, <1>9, <4>2
    <3> QED
      BY <1>3, <1>9, <1>15, <2>1, <2>2, <3>2, <3>3, <3>4, DemotionPushed
  <2>3. CASE ~(ProtectedRows < HotRows)
    <3>1. ProtectedRows >= HotRows
      BY <2>3, ColdTierAssumption
    <3>2. dheap' = dheap
      BY <2>1, <3>1 DEF DPushed
    <3> QED
      BY <2>3, <3>2 DEF HeapsRight, HeapsTyped
  <2> QED
    BY <2>2, <2>3
<1>17. ActiveFiledOnce'
  <2>1. Filed' = dheap'
    BY <1>2 DEF Filed
  <2>2. FiledOnce(dheap', Active \cup {k}, seq', nextSeq') => FiledOnce(Filed, Active, seq, nextSeq)'
    BY <1>10, <1>15, <2>1 DEF FiledOnce, DEntry
  <2> QED
    BY <1>16, <2>2 DEF ActiveFiledOnce
<1>18. HeapsTyped'
  BY <1>2, <1>8, <1>9, <1>10, <1>11, <1>13, <1>16 DEF HeapsRight, HeapsTyped
<1>19. LoopRight' /\ ChosenFirst'
  BY <1>2, <1>8 DEF LoopRight, ChosenFirst
<1> QED
  BY <1>12, <1>14, <1>17, <1>18, <1>19 DEF HeapsRight

-----------------------------------------------------------------------------
(* The demotion pass.                                                      *)
LEMMA ExcessIs ==
  ASSUME IInv, HeapsRight
  PROVE  /\ Excess \in Nat
         /\ Excess > 0 => ProtectedRows < HotRows
         /\ Excess <= Cardinality({k \in Keys : Resident(k)})
         /\ IsFiniteSet({k \in Keys : Resident(k)})
<1> DEFINE R == {k \in Keys : Resident(k)}
<1>1. order \in Seq(Keys) /\ R = ToSet(order)
  BY DEF HeapsRight, HeapsTyped, InOrder
<1> HIDE DEF R
<1>2. IsFiniteSet(R)
  BY <1>1, HeldFinite
<1>3. reclaimable \subseteq R
  BY DEF IInv, Soft, TypeOK, R
<1>4. Cardinality(R) \in Nat /\ Cardinality(reclaimable) \in Nat
  <2>1. IsFiniteSet(reclaimable)
    BY <1>2, <1>3, FS_Subset
  <2> QED
    BY <1>2, <2>1, FS_CardinalityType
<1>5. ProtectedRows \in Nat /\ HotRows \in Nat
  BY ColdTierAssumption
<1>6. Excess = LET over == Cardinality(R) - Cardinality(reclaimable) - ProtectedRows
               IN IF ProtectedRows >= HotRows \/ over < 0 THEN 0 ELSE over
  BY DEF Excess, R
<1> QED
  BY <1>2, <1>4, <1>5, <1>6 DEF R

\* Nothing kept aside changes nothing.
LEMMA SumEmpty ==
  ASSUME NEW E, NEW h, HeapOf(h, E)
  PROVE  h (+) EmptyBag = h
<1>1. HeapOf(EmptyBag, E) /\ DOMAIN EmptyBag = {}
  BY EmptyIs
<1>2. /\ HeapOf(h (+) EmptyBag, E) /\ DOMAIN (h (+) EmptyBag) = DOMAIN h
      /\ \A e \in DOMAIN h : (h (+) EmptyBag)[e] = h[e] + 0
  <2> DEFINE z == EmptyBag
  <2>1. HeapOf(z, E) /\ DOMAIN z = {}
    BY <1>1
  <2> HIDE DEF z
  <2>2. /\ HeapOf(h (+) z, E) /\ DOMAIN (h (+) z) = DOMAIN h \cup DOMAIN z
        /\ \A e \in DOMAIN h \cup DOMAIN z :
             (h (+) z)[e] = (IF e \in DOMAIN h THEN h[e] ELSE 0) + (IF e \in DOMAIN z THEN z[e] ELSE 0)
    BY <2>1, SumIs
  <2>3. \A e \in DOMAIN h : (h (+) z)[e] = h[e] + 0
    BY <2>1, <2>2
  <2> QED
    BY <2>1, <2>2, <2>3 DEF z
<1>3. \A e \in DOMAIN h : h[e] \in Nat
  BY DEF HeapOf
<1> DEFINE g == h (+) EmptyBag
<1>4. g \in [DOMAIN h -> Nat \ {0}] /\ h \in [DOMAIN h -> Nat \ {0}] /\ \A e \in DOMAIN h : g[e] = h[e]
  BY <1>2, <1>3 DEF HeapOf
<1> HIDE DEF g
<1>5. g = h
  BY <1>4
<1> QED
  BY <1>5 DEF g

LEMMA DemotionGoes ==
  ASSUME IInv, HeapsRight, loop \in {"none", "demote"}, loop' = "demote", Demoting(Demand),
         UNCHANGED <<vars, ranks, publications, vheap>>,
         HeapOf(dheap', DEntries), HeapOf(held', DEntries),
         \A e \in DOMAIN held' : Resident(e[4]) /\ slotOf[e[4]] \in window,
         list' \in Seq(Keys), Len(list') <= Excess, ToSet(list') \subseteq Demotable,
         \A i, j \in DOMAIN list' : i < j => Before(Rank(list'[i]), Rank(list'[j])),
         \A k \in ToSet(list'), u \in Demotable \ ToSet(list') : Before(Rank(k), Rank(u)),
         ProtectedRows < HotRows,
         FiledOnce(dheap' (+) held',
                   {k \in Keys : Resident(k) /\ k \notin reclaimable} \ ToSet(list'), seq, nextSeq)
  PROVE  HeapsRight'
<1>1. /\ UNCHANGED <<slotOf, keyOf, window, reclaimable, lock, local>>
      /\ UNCHANGED <<clock, freq, last, seq, nextSeq, order>>
  BY DEF vars, tierVars, ranks, publications
<1>2. HeapsTyped'
  BY <1>1 DEF HeapsRight, HeapsTyped
<1>3. InOrder'
  BY <1>1 DEF HeapsRight, InOrder, Resident
<1>4. LoopRight'
  BY <1>1 DEF LoopRight, Demoting, Resident
<1>5. EveryRowFiled'
  <2>1. Pushed = reclaimable /\ Pushed' = reclaimable /\ VictimEntries = DOMAIN vheap
        /\ VictimEntries' = DOMAIN vheap
    BY <1>1 DEF Pushed, VictimEntries
  <2> QED
    BY <1>1, <2>1 DEF HeapsRight, EveryRowFiled, VEntry
<1>6. ActiveFiledOnce'
  <2>1. Active' = {k \in Keys : Resident(k) /\ k \notin reclaimable} \ ToSet(list')
    BY <1>1 DEF Active, Resident
  <2>2. Filed' = dheap' (+) held'
    BY DEF Filed
  <2>3. FiledOnce(Filed', Active', seq, nextSeq)
    BY <2>1, <2>2
  <2> QED
    BY <1>1, <2>3 DEF ActiveFiledOnce, FiledOnce, DEntry
<1>7. ChosenFirst'
  <2>1. Demotable' = Demotable /\ Excess' = Excess
    BY <1>1 DEF Demotable, Excess, Resident
  <2>2. \A k : Rank(k)' = Rank(k)
    BY <1>1 DEF Rank
  <2> QED
    BY <2>1, <2>2 DEF ChosenFirst
<1> QED
  BY <1>2, <1>3, <1>4, <1>5, <1>6, <1>7 DEF HeapsRight

LEMMA StartDemotionKeeps ==
  ASSUME IInv, HeapsRight, NEW t \in Threads, StartDemotion(t)
  PROVE  HeapsRight'
<1>1. /\ loop = "none" /\ loop' = "demote" /\ list' = <<>> /\ Demoting(t) /\ Excess > 0
      /\ UNCHANGED <<vars, ranks, publications, vheap, dheap, held>>
  BY DEF StartDemotion, Resting, heaps
<1>2. Demoting(Demand)
  <2>1. t = Demand
    BY <1>1 DEF Demoting, IInv, InPhase, PhaseOf
  <2> QED
    BY <1>1, <2>1
<1>3. held = EmptyBag /\ HeapOf(dheap, DEntries)
  BY <1>1 DEF HeapsRight, LoopRight, HeapsTyped
<1>4. HeapOf(held', DEntries) /\ DOMAIN held' = {} /\ HeapOf(dheap', DEntries) /\ dheap' (+) held' = dheap
  BY <1>1, <1>3, EmptyIs, SumEmpty
<1>5. list' \in Seq(Keys) /\ ToSet(list') = {} /\ DOMAIN list' = {} /\ Len(list') = 0
  BY <1>1 DEF ToSet
<1>6. Len(list') <= Excess
  BY <1>1, <1>5, ExcessIs
<1>7. ProtectedRows < HotRows
  BY <1>1, ExcessIs
<1>8. FiledOnce(dheap, {k \in Keys : Resident(k) /\ k \notin reclaimable} \ ToSet(list'), seq, nextSeq)
  <2>1. Filed = dheap /\ Active = {k \in Keys : Resident(k) /\ k \notin reclaimable} \ ToSet(list')
    BY <1>1, <1>5 DEF Filed, Active
  <2> QED
    BY <1>7, <2>1 DEF HeapsRight, ActiveFiledOnce
<1> QED
  BY <1>1, <1>2, <1>4, <1>5, <1>6, <1>7, <1>8, DemotionGoes

\* Two rows are published one before the other.
LEMMA SeqsApart ==
  ASSUME HeapsRight, NEW k \in Keys, NEW u \in Keys, Resident(k), Resident(u), k # u
  PROVE  seq[k] # seq[u]
<1>1. k \in ToSet(order) /\ u \in ToSet(order) /\ seq \in [Keys -> Nat]
  BY DEF HeapsRight, HeapsTyped, InOrder
<1>2. PICK i \in DOMAIN order : order[i] = k
  BY <1>1 DEF ToSet
<1>3. PICK j \in DOMAIN order : order[j] = u
  BY <1>1 DEF ToSet
<1>4. i \in Nat /\ j \in Nat /\ i # j
  <2>1. order \in Seq(Keys)
    BY DEF HeapsRight, HeapsTyped
  <2>2. DOMAIN order = 1 .. Len(order)
    BY <2>1, LenProperties
  <2> QED
    BY <1>2, <1>3, <2>2
<1>5. i < j \/ j < i
  BY <1>4
<1>6. seq[k] < seq[u] \/ seq[u] < seq[k]
  BY <1>2, <1>3, <1>5 DEF HeapsRight, InOrder
<1> QED
  BY <1>1, <1>6

LEMMA RankIs ==
  ASSUME HeapsRight, NEW k \in Keys
  PROVE  /\ Rank(k) \in Int \X Int \X Int
         /\ Rank(k)[1] = freq[k] /\ Rank(k)[2] = last[k] /\ Rank(k)[3] = seq[k]
         /\ freq[k] \in Nat /\ last[k] \in Nat /\ seq[k] \in Nat
<1>1. freq[k] \in Nat /\ last[k] \in Nat /\ seq[k] \in Nat
  BY DEF HeapsRight, HeapsTyped
<1> QED
  BY <1>1 DEF Rank

\* Entries of two rows compare as their ranks do.
LEMMA RanksCompare ==
  ASSUME HeapsRight, NEW k \in Keys, NEW u \in Keys, seq[k] # seq[u],
         AtMost(DEntry(seq, k), DEntry(seq, u))
  PROVE  Before(Rank(k), Rank(u))
<1> DEFINE e == DEntry(seq, k)
           f == DEntry(seq, u)
<1>1. /\ freq[k] \in Nat /\ last[k] \in Nat /\ seq[k] \in Nat /\ k \in Nat
      /\ freq[u] \in Nat /\ last[u] \in Nat /\ seq[u] \in Nat /\ u \in Nat
  BY KeysAndSlots DEF HeapsRight, HeapsTyped
<1>2. e \in Int \X Int \X Int \X Int /\ f \in Int \X Int \X Int \X Int
  BY <1>1 DEF DEntry
<1>3. /\ e[1] = freq[k] /\ e[2] = last[k] /\ e[3] = seq[k] /\ e[4] = k
      /\ f[1] = freq[u] /\ f[2] = last[u] /\ f[3] = seq[u] /\ f[4] = u
  BY DEF DEntry
<1>4. ~Before(f, e)
  BY DEF AtMost
<1> HIDE DEF e, f
<1>5. \/ freq[k] < freq[u]
      \/ freq[k] = freq[u] /\ last[k] < last[u]
      \/ freq[k] = freq[u] /\ last[k] = last[u] /\ seq[k] < seq[u]
  BY <1>1, <1>2, <1>3, <1>4, BeforeFour
<1>6. /\ Rank(k) \in Int \X Int \X Int /\ Rank(k)[1] = freq[k] /\ Rank(k)[2] = last[k] /\ Rank(k)[3] = seq[k]
      /\ Rank(u) \in Int \X Int \X Int /\ Rank(u)[1] = freq[u] /\ Rank(u)[2] = last[u] /\ Rank(u)[3] = seq[u]
  BY RankIs
<1> QED
  BY <1>5, <1>6, BeforeThree

\* An entry that is dead is of no publication that counts.
LEMMA DeadIs ==
  ASSUME HeapsRight, ProtectedRows < HotRows, loop = "demote", NEW e \in DOMAIN Filed
  PROVE  /\ Dead(e) => e[3] # seq[e[4]]
         /\ ~Dead(e) => e[4] \in Active /\ Filed[e] = 1
                        /\ \A f \in DOMAIN Filed : f[4] = e[4] /\ f[3] = e[3] => f = e
<1>1. FiledOnce(Filed, Active, seq, nextSeq)
  BY DEF HeapsRight, ActiveFiledOnce
<1>2. e[3] = seq[e[4]] =>
        /\ e[4] \in Active /\ Filed[e] = 1
        /\ \A f \in DOMAIN Filed : f[4] = e[4] /\ f[3] = e[3] => f = e
  BY <1>1 DEF FiledOnce
<1>3. e[4] \in Active => Resident(e[4]) /\ e[4] \notin reclaimable
  BY DEF Active
<1> QED
  BY <1>2, <1>3 DEF Dead

(* The entries change: those that go and those that come are for the same  *)
(* row, or for none that counts.                                           *)
LEMMA FiledGoes ==
  ASSUME NEW h, NEW h1, NEW A, NEW B, NEW at, NEW n, NEW e \in DOMAIN h,
         FiledOnce(h, A, at, n),
         DOMAIN h1 \subseteq DOMAIN h, DOMAIN h \ {e} \subseteq DOMAIN h1,
         \A f \in DOMAIN h1 : f # e => h1[f] = h[f],
         B \subseteq A,
         \/ e[3] # at[e[4]] /\ B = A
         \/ e[4] \notin B /\ e \notin DOMAIN h1 /\ e[3] = at[e[4]] /\ A \subseteq B \cup {e[4]}
  PROVE  FiledOnce(h1, B, at, n)
<1>1. ASSUME NEW k \in B
      PROVE  \E f \in DOMAIN h1 : f[4] = k /\ f[3] = at[k] /\ AtMost(f, DEntry(at, k))
  <2>1. PICK f \in DOMAIN h : f[4] = k /\ f[3] = at[k] /\ AtMost(f, DEntry(at, k))
    BY <1>1 DEF FiledOnce
  <2>2. f # e
    BY <1>1, <2>1
  <2> QED
    BY <2>1, <2>2
<1>2. ASSUME NEW f \in DOMAIN h1
      PROVE  /\ f[3] > 0 /\ f[3] < n
             /\ f[3] = at[f[4]] =>
                  /\ f[4] \in B /\ h1[f] = 1
                  /\ \A g \in DOMAIN h1 : g[4] = f[4] /\ g[3] = f[3] => g = f
  <2>1. /\ f[3] > 0 /\ f[3] < n
        /\ f[3] = at[f[4]] =>
             /\ f[4] \in A /\ h[f] = 1
             /\ \A g \in DOMAIN h : g[4] = f[4] /\ g[3] = f[3] => g = f
    BY <1>2 DEF FiledOnce
  <2>2. ASSUME f[3] = at[f[4]]
        PROVE  f # e /\ f[4] \in B
    <3>1. f # e
      BY <1>2, <2>2
    <3>2. e[3] = at[e[4]] => f[4] # e[4]
      BY <2>1, <2>2, <3>1
    <3> QED
      BY <2>1, <2>2, <3>1, <3>2
  <2> QED
    BY <1>2, <2>1, <2>2
<1> QED
  BY <1>1, <1>2 DEF FiledOnce

\* The same rows are filed, one of them by another entry.
LEMMA FiledAnew ==
  ASSUME NEW h, NEW h1, NEW A, NEW at, NEW n, NEW e \in DOMAIN h, NEW g,
         FiledOnce(h, A, at, n), e[3] = at[e[4]],
         g[3] = e[3], g[4] = e[4], AtMost(g, DEntry(at, e[4])),
         DOMAIN h1 = (DOMAIN h \ {e}) \cup {g}, h1[g] = 1,
         \A f \in DOMAIN h \ {e} : h1[f] = h[f]
  PROVE  FiledOnce(h1, A, at, n)
<1>1. /\ e[3] > 0 /\ e[3] < n /\ e[4] \in A
      /\ \A f \in DOMAIN h : f[4] = e[4] /\ f[3] = e[3] => f = e
  BY DEF FiledOnce
<1>2. ASSUME NEW k \in A
      PROVE  \E f \in DOMAIN h1 : f[4] = k /\ f[3] = at[k] /\ AtMost(f, DEntry(at, k))
  <2>1. PICK f \in DOMAIN h : f[4] = k /\ f[3] = at[k] /\ AtMost(f, DEntry(at, k))
    BY <1>2 DEF FiledOnce
  <2> QED
    BY <2>1
<1>3. ASSUME NEW f \in DOMAIN h1
      PROVE  /\ f[3] > 0 /\ f[3] < n
             /\ f[3] = at[f[4]] =>
                  /\ f[4] \in A /\ h1[f] = 1
                  /\ \A d \in DOMAIN h1 : d[4] = f[4] /\ d[3] = f[3] => d = f
  <2>1. CASE f = g
    <3>1. \A d \in DOMAIN h1 : d[4] = e[4] /\ d[3] = e[3] => d = g
      BY <1>1
    <3> QED
      BY <1>1, <2>1, <3>1
  <2>2. CASE f # g
    <3>1. f \in DOMAIN h \ {e}
      BY <1>3, <2>2
    <3>2. /\ f[3] > 0 /\ f[3] < n
          /\ f[3] = at[f[4]] =>
               /\ f[4] \in A /\ h[f] = 1
               /\ \A d \in DOMAIN h : d[4] = f[4] /\ d[3] = f[3] => d = f
      BY <3>1 DEF FiledOnce
    <3>3. ~(g[4] = f[4] /\ g[3] = f[3])
      BY <1>1, <3>1
    <3> QED
      BY <3>1, <3>2, <3>3
  <2> QED
    BY <2>1, <2>2
<1> QED
  BY <1>2, <1>3 DEF FiledOnce

\* An entry is taken off a heap, beside another heap.
LEMMA RemoveSum ==
  ASSUME NEW E, NEW d, NEW c, HeapOf(d, E), HeapOf(c, E), NEW e \in DOMAIN d
  PROVE  /\ HeapOf(BagRemove(d, e), E)
         /\ e \in DOMAIN (d (+) c)
         /\ DOMAIN (BagRemove(d, e) (+) c) \subseteq DOMAIN (d (+) c)
         /\ DOMAIN (d (+) c) \ {e} \subseteq DOMAIN (BagRemove(d, e) (+) c)
         /\ DOMAIN (BagRemove(d, e) (+) c) = DOMAIN BagRemove(d, e) \cup DOMAIN c
         /\ \A f \in DOMAIN (BagRemove(d, e) (+) c) :
              f # e => (BagRemove(d, e) (+) c)[f] = (d (+) c)[f]
         /\ (d (+) c)[e] = 1 => e \notin DOMAIN (BagRemove(d, e) (+) c)
<1> DEFINE r == BagRemove(d, e)
           h == d (+) c
           h1 == r (+) c
<1>1. /\ HeapOf(r, E)
      /\ DOMAIN r = IF d[e] = 1 THEN DOMAIN d \ {e} ELSE DOMAIN d
      /\ \A f \in DOMAIN d : f # e => r[f] = d[f]
  BY RemoveIs
<1> HIDE DEF r
<1>2. /\ DOMAIN h = DOMAIN d \cup DOMAIN c
      /\ \A f \in DOMAIN d \cup DOMAIN c :
           h[f] = (IF f \in DOMAIN d THEN d[f] ELSE 0) + (IF f \in DOMAIN c THEN c[f] ELSE 0)
  BY SumIs
<1>3. /\ DOMAIN h1 = DOMAIN r \cup DOMAIN c
      /\ \A f \in DOMAIN r \cup DOMAIN c :
           h1[f] = (IF f \in DOMAIN r THEN r[f] ELSE 0) + (IF f \in DOMAIN c THEN c[f] ELSE 0)
  BY <1>1, SumIs
<1>4. d[e] \in Nat \ {0} /\ \A f \in DOMAIN c : c[f] \in Nat \ {0}
  BY DEF HeapOf
<1> HIDE DEF h, h1
<1>5. DOMAIN h1 \subseteq DOMAIN h /\ DOMAIN h \ {e} \subseteq DOMAIN h1 /\ e \in DOMAIN h
  BY <1>1, <1>2, <1>3
<1>6. ASSUME NEW f \in DOMAIN h1, f # e
      PROVE  h1[f] = h[f]
  BY <1>1, <1>2, <1>3, <1>6
<1>7. ASSUME h[e] = 1
      PROVE  e \notin DOMAIN h1
  <2>1. d[e] = 1 /\ e \notin DOMAIN c
    BY <1>2, <1>4, <1>7
  <2> QED
    BY <1>1, <1>3, <2>1
<1> QED
  BY <1>1, <1>3, <1>5, <1>6, <1>7 DEF r, h, h1

(* The row that is chosen ranks before every row that is still to choose   *)
(* from: the entry of such a row is in the heap, and not below the top.    *)
LEMMA TopIsFirst ==
  ASSUME IInv, HeapsRight, loop = "demote", ProtectedRows < HotRows, NEW k \in Active,
         DEntry(seq, k) \in Tops(dheap), NEW u \in Demotable \ ToSet(list), u # k
  PROVE  Before(Rank(k), Rank(u))
<1> DEFINE e == DEntry(seq, k)
<1>1. /\ HeapOf(dheap, DEntries) /\ HeapOf(held, DEntries)
      /\ \A f \in DOMAIN held : slotOf[f[4]] \in window
  BY DEF HeapsRight, HeapsTyped, LoopRight
<1>2. /\ u \in Active /\ slotOf[u] \notin window /\ u \in Keys /\ k \in Keys
      /\ Resident(u) /\ Resident(k)
  BY DEF Demotable, Active
<1>3. PICK f \in DOMAIN Filed : f[4] = u /\ AtMost(f, DEntry(seq, u))
  BY <1>2 DEF HeapsRight, ActiveFiledOnce, FiledOnce
<1>4. f \in DOMAIN dheap
  <2>1. DOMAIN Filed = DOMAIN dheap \cup DOMAIN held
    BY <1>1, SumIs DEF Filed
  <2> QED
    BY <1>1, <1>2, <1>3, <2>1
<1>5. AtMost(e, f)
  BY <1>4 DEF Tops, BagToSet, AtMost
<1>6. e \in DEntries /\ f \in DEntries /\ DEntry(seq, u) \in DEntries
  BY <1>1, <1>2, <1>4 DEF HeapOf, DEntry, DEntries, HeapsRight, HeapsTyped
<1> HIDE DEF e
<1>7. AtMost(e, DEntry(seq, u))
  BY <1>3, <1>5, <1>6, DemotionOrder
<1>8. seq[k] # seq[u]
  BY <1>2, SeqsApart
<1> QED
  BY <1>2, <1>7, <1>8, RanksCompare DEF e

LEMMA DemoteOnKeeps ==
  ASSUME IInv, HeapsRight, DemoteOn
  PROVE  HeapsRight'
<1>1. /\ loop = "demote" /\ loop' = "demote" /\ Len(list) < Excess
      /\ UNCHANGED <<vars, ranks, publications, vheap>>
  BY DEF DemoteOn
<1>2. /\ HeapOf(dheap, DEntries) /\ HeapOf(held, DEntries) /\ list \in Seq(Keys) /\ Demoting(Demand)
      /\ \A e \in DOMAIN held : Resident(e[4]) /\ slotOf[e[4]] \in window
  BY <1>1 DEF HeapsRight, HeapsTyped, LoopRight
<1>3. ProtectedRows < HotRows
  <2>1. Len(list) \in Nat
    BY <1>2, LenProperties
  <2> QED
    BY <1>1, <2>1, ExcessIs
<1>4. /\ Filed = dheap (+) held /\ FiledOnce(Filed, Active, seq, nextSeq)
      /\ Active = {k \in Keys : Resident(k) /\ k \notin reclaimable} \ ToSet(list)
  BY <1>1, <1>3 DEF Filed, Active, HeapsRight, ActiveFiledOnce
<1>5. PICK e \in Tops(dheap) :
       \/ /\ Dead(e)
          /\ dheap' = BagRemove(dheap, e)
          /\ UNCHANGED <<held, list>>
       \/ /\ ~Dead(e) /\ e # DEntry(seq, e[4])
          /\ dheap' = BagAdd(BagRemove(dheap, e), DEntry(seq, e[4]))
          /\ UNCHANGED <<held, list>>
       \/ /\ ~Dead(e) /\ e = DEntry(seq, e[4]) /\ slotOf[e[4]] \in window
          /\ dheap' = BagRemove(dheap, e)
          /\ held' = BagAdd(held, e)
          /\ UNCHANGED list
       \/ /\ ~Dead(e) /\ e = DEntry(seq, e[4]) /\ slotOf[e[4]] \notin window
          /\ dheap' = BagRemove(dheap, e)
          /\ list' = Append(list, e[4])
          /\ UNCHANGED held
  BY DEF DemoteOn
<1> DEFINE r == BagRemove(dheap, e)
           k == e[4]
<1>6. e \in DOMAIN dheap /\ e \in DEntries
  BY <1>2, <1>5 DEF Tops, BagToSet, HeapOf
<1>7. /\ HeapOf(r, DEntries) /\ e \in DOMAIN Filed
      /\ DOMAIN (r (+) held) \subseteq DOMAIN Filed
      /\ DOMAIN Filed \ {e} \subseteq DOMAIN (r (+) held)
      /\ DOMAIN (r (+) held) = DOMAIN r \cup DOMAIN held
      /\ \A f \in DOMAIN (r (+) held) : f # e => (r (+) held)[f] = Filed[f]
      /\ Filed[e] = 1 => e \notin DOMAIN (r (+) held)
  <2>1. HeapOf(dheap, DEntries) /\ HeapOf(held, DEntries) /\ e \in DOMAIN dheap
    BY <1>2, <1>6
  <2>2. /\ HeapOf(BagRemove(dheap, e), DEntries)
        /\ e \in DOMAIN (dheap (+) held)
        /\ DOMAIN (BagRemove(dheap, e) (+) held) \subseteq DOMAIN (dheap (+) held)
        /\ DOMAIN (dheap (+) held) \ {e} \subseteq DOMAIN (BagRemove(dheap, e) (+) held)
        /\ DOMAIN (BagRemove(dheap, e) (+) held) = DOMAIN BagRemove(dheap, e) \cup DOMAIN held
        /\ \A f \in DOMAIN (BagRemove(dheap, e) (+) held) :
             f # e => (BagRemove(dheap, e) (+) held)[f] = (dheap (+) held)[f]
        /\ (dheap (+) held)[e] = 1 => e \notin DOMAIN (BagRemove(dheap, e) (+) held)
    BY <2>1, RemoveSum
  <2> QED
    BY <1>4, <2>2
<1>8. /\ Dead(e) => e[3] # seq[k]
      /\ ~Dead(e) => k \in Active /\ Filed[e] = 1
                     /\ \A f \in DOMAIN Filed : f[4] = k /\ f[3] = e[3] => f = e
  BY <1>1, <1>3, <1>7, DeadIs
<1>9. ~Dead(e) => e[3] = seq[k] /\ Resident(k) /\ k \notin reclaimable
  BY DEF Dead
<1>10. k \in Keys
  BY <1>6, DEntriesAre
<1>11. ChosenFirst
  BY DEF HeapsRight
<1> HIDE DEF r, k
<1>12. CASE UNCHANGED list /\ HeapOf(dheap', DEntries) /\ HeapOf(held', DEntries)
            /\ (\A f \in DOMAIN held' : Resident(f[4]) /\ slotOf[f[4]] \in window)
            /\ FiledOnce(dheap' (+) held', Active, seq, nextSeq)
  <2>1. /\ list' \in Seq(Keys) /\ Len(list') <= Excess /\ ToSet(list') \subseteq Demotable
        /\ \A i, j \in DOMAIN list' : i < j => Before(Rank(list'[i]), Rank(list'[j]))
        /\ \A j \in ToSet(list'), u \in Demotable \ ToSet(list') : Before(Rank(j), Rank(u))
    BY <1>1, <1>2, <1>11, <1>12 DEF ChosenFirst
  <2>2. FiledOnce(dheap' (+) held', {j \in Keys : Resident(j) /\ j \notin reclaimable} \ ToSet(list'),
                  seq, nextSeq)
    BY <1>4, <1>12
  <2> QED
    BY <1>1, <1>2, <1>3, <1>12, <2>1, <2>2, DemotionGoes
<1>13. CASE Dead(e) /\ dheap' = r /\ UNCHANGED <<held, list>>
  <2> DEFINE h1 == r (+) held
  <2>1. FiledOnce(h1, Active, seq, nextSeq)
    <3> HIDE DEF h1
    <3>1. /\ DOMAIN h1 \subseteq DOMAIN Filed /\ DOMAIN Filed \ {e} \subseteq DOMAIN h1
          /\ \A f \in DOMAIN h1 : f # e => h1[f] = Filed[f]
          /\ e \in DOMAIN Filed /\ e[3] # seq[e[4]]
      BY <1>7, <1>8, <1>13 DEF h1, k
    <3> QED
      BY <1>4, <3>1, FiledGoes
  <2> QED
    BY <1>2, <1>7, <1>12, <1>13, <2>1
<1>14. CASE ~Dead(e) /\ e # DEntry(seq, k) /\ dheap' = BagAdd(r, DEntry(seq, k)) /\ UNCHANGED <<held, list>>
  <2> DEFINE g == DEntry(seq, k)
  <2>1. /\ g \in DEntries /\ g[3] = e[3] /\ g[4] = k /\ AtMost(g, g)
    <3>1. g \in DEntries
      BY <1>10 DEF DEntry, DEntries, HeapsRight, HeapsTyped
    <3> QED
      BY <1>9, <1>14, <3>1, DemotionOrder DEF DEntry
  <2> HIDE DEF g
  <2>2. g \notin DOMAIN Filed
    BY <1>8, <1>14, <2>1 DEF g
  <2>3. e \notin DOMAIN (r (+) held) /\ g \notin DOMAIN (r (+) held)
    BY <1>7, <1>8, <1>14, <2>2
  <2>4. /\ HeapOf(BagAdd(r, g), DEntries) /\ DOMAIN BagAdd(r, g) = DOMAIN r \cup {g}
        /\ BagAdd(r, g)[g] = 1
        /\ \A f \in DOMAIN r : BagAdd(r, g)[f] = r[f]
    <3>1. HeapOf(r, DEntries) /\ g \in DEntries /\ g \notin DOMAIN r
      BY <1>7, <2>1, <2>3
    <3>2. /\ HeapOf(BagAdd(r, g), DEntries) /\ DOMAIN BagAdd(r, g) = DOMAIN r \cup {g}
          /\ BagAdd(r, g)[g] = IF g \in DOMAIN r THEN r[g] + 1 ELSE 1
          /\ \A f \in DOMAIN r : f # g => BagAdd(r, g)[f] = r[f]
      BY <3>1, AddIs
    <3> QED
      BY <3>1, <3>2
  <2> DEFINE d == BagAdd(r, g)
             h1 == d (+) held
  <2>5. /\ HeapOf(d, DEntries) /\ DOMAIN d = DOMAIN r \cup {g} /\ d[g] = 1
         /\ \A f \in DOMAIN r : d[f] = r[f]
    BY <2>4
  <2> HIDE DEF d
  <2>6. /\ DOMAIN h1 = DOMAIN d \cup DOMAIN held
        /\ \A f \in DOMAIN d \cup DOMAIN held :
             h1[f] = (IF f \in DOMAIN d THEN d[f] ELSE 0) + (IF f \in DOMAIN held THEN held[f] ELSE 0)
    BY <1>2, <2>5, SumIs
  <2>7. \A f \in DOMAIN r \cup DOMAIN held :
          (r (+) held)[f] = (IF f \in DOMAIN r THEN r[f] ELSE 0) + (IF f \in DOMAIN held THEN held[f] ELSE 0)
    BY <1>2, <1>7, SumIs
  <2> HIDE DEF h1
  <2>8. DOMAIN h1 = (DOMAIN Filed \ {e}) \cup {g}
    BY <1>7, <2>3, <2>5, <2>6
  <2>9. h1[g] = 1
    BY <1>7, <2>3, <2>5, <2>6
  <2>10. ASSUME NEW f \in DOMAIN Filed \ {e}
        PROVE  h1[f] = Filed[f]
    <3>1. f \in DOMAIN r \cup DOMAIN held /\ f # g /\ (r (+) held)[f] = Filed[f]
      BY <1>7, <2>2, <2>10
    <3> QED
      BY <2>5, <2>6, <2>7, <3>1
  <2>11. FiledOnce(h1, Active, seq, nextSeq)
    <3>1. e \in DOMAIN Filed /\ e[3] = seq[e[4]] /\ g[3] = e[3] /\ g[4] = e[4] /\ AtMost(g, DEntry(seq, e[4]))
      BY <1>7, <1>9, <1>14, <2>1 DEF k, g
    <3> QED
      BY <1>4, <2>8, <2>9, <2>10, <3>1, FiledAnew
  <2>12. dheap' = d /\ dheap' (+) held' = h1
    BY <1>14 DEF d, g, h1
  <2> QED
    BY <1>2, <1>12, <1>14, <2>5, <2>11, <2>12
<1>15. CASE ~Dead(e) /\ e = DEntry(seq, k) /\ slotOf[k] \in window /\ dheap' = r
            /\ held' = BagAdd(held, e) /\ UNCHANGED list
  <2> DEFINE d == BagAdd(held, e)
             h1 == r (+) d
  <2>1. e \notin DOMAIN r /\ e \notin DOMAIN held
    BY <1>7, <1>8, <1>15
  <2>2. /\ HeapOf(d, DEntries) /\ DOMAIN d = DOMAIN held \cup {e} /\ d[e] = 1
        /\ \A f \in DOMAIN held : d[f] = held[f]
    <3>1. /\ HeapOf(BagAdd(held, e), DEntries) /\ DOMAIN BagAdd(held, e) = DOMAIN held \cup {e}
          /\ BagAdd(held, e)[e] = IF e \in DOMAIN held THEN held[e] + 1 ELSE 1
          /\ \A f \in DOMAIN held : f # e => BagAdd(held, e)[f] = held[f]
      <4>1. HeapOf(held, DEntries) /\ e \in DEntries
        BY <1>2, <1>6
      <4> QED
        BY <4>1, AddIs
    <3> QED
      BY <2>1, <3>1
  <2> HIDE DEF d
  <2>3. /\ DOMAIN h1 = DOMAIN r \cup DOMAIN d
        /\ \A f \in DOMAIN r \cup DOMAIN d :
             h1[f] = (IF f \in DOMAIN r THEN r[f] ELSE 0) + (IF f \in DOMAIN d THEN d[f] ELSE 0)
    BY <1>7, <2>2, SumIs
  <2>4. \A f \in DOMAIN r \cup DOMAIN held :
          (r (+) held)[f] = (IF f \in DOMAIN r THEN r[f] ELSE 0) + (IF f \in DOMAIN held THEN held[f] ELSE 0)
    BY <1>2, <1>7, SumIs
  <2> HIDE DEF h1
  <2>5. DOMAIN h1 = (DOMAIN Filed \ {e}) \cup {e} /\ h1[e] = 1
    BY <1>7, <2>1, <2>2, <2>3
  <2>6. ASSUME NEW f \in DOMAIN Filed \ {e}
        PROVE  h1[f] = Filed[f]
    <3>1. f \in DOMAIN r \cup DOMAIN held /\ f # e /\ (r (+) held)[f] = Filed[f]
      BY <1>7, <2>6
    <3> QED
      BY <2>2, <2>3, <2>4, <3>1
  <2>7. FiledOnce(h1, Active, seq, nextSeq)
    <3>1. AtMost(e, e)
      BY <1>6, DemotionOrder
    <3>2. e \in DOMAIN Filed /\ e[3] = seq[e[4]] /\ AtMost(e, DEntry(seq, e[4]))
      BY <1>7, <1>9, <1>15, <3>1 DEF k
    <3> QED
      BY <1>4, <2>5, <2>6, <3>2, FiledAnew
  <2>8. held' = d /\ dheap' (+) held' = h1
    BY <1>15 DEF d, h1
  <2>9. \A f \in DOMAIN held' : Resident(f[4]) /\ slotOf[f[4]] \in window
    BY <1>2, <1>9, <1>15, <2>2, <2>8 DEF k
  <2> QED
    BY <1>7, <1>12, <1>15, <2>2, <2>7, <2>8, <2>9
<1>16. CASE ~Dead(e) /\ e = DEntry(seq, k) /\ slotOf[k] \notin window /\ dheap' = r
            /\ list' = Append(list, k) /\ UNCHANGED held
  <2> DEFINE h1 == r (+) held
             B == Active \ {k}
  <2>1. FiledOnce(h1, B, seq, nextSeq)
    <3> HIDE DEF h1
    <3>1. /\ DOMAIN h1 \subseteq DOMAIN Filed /\ DOMAIN Filed \ {e} \subseteq DOMAIN h1
          /\ \A f \in DOMAIN h1 : f # e => h1[f] = Filed[f]
          /\ e \in DOMAIN Filed /\ e[3] = seq[e[4]] /\ e \notin DOMAIN h1
          /\ B \subseteq Active /\ e[4] \notin B /\ Active \subseteq B \cup {e[4]}
      BY <1>7, <1>8, <1>9, <1>16 DEF h1, k
    <3> HIDE DEF B
    <3> QED
      BY <1>4, <3>1, FiledGoes
  <2>2. k \in Active /\ k \in Demotable /\ k \notin ToSet(list)
    BY <1>4, <1>8, <1>9, <1>10, <1>16 DEF Demotable
  <2>3. /\ list' \in Seq(Keys) /\ ToSet(list') = ToSet(list) \cup {k} /\ Len(list') = Len(list) + 1
        /\ DOMAIN list = 1 .. Len(list) /\ DOMAIN list' = 1 .. Len(list) + 1 /\ Len(list) \in Nat
        /\ \A i \in 1 .. Len(list) : list'[i] = list[i] /\ list[i] \in ToSet(list)
        /\ list'[Len(list) + 1] = k
    <3>1. list' \in Seq(Keys) /\ ToSet(list') = ToSet(list) \cup {k}
      BY <1>2, <1>10, <1>16, AppendIs
    <3>2. /\ Len(list') = Len(list) + 1 /\ list'[Len(list) + 1] = k
          /\ \A i \in 1 .. Len(list) : list'[i] = list[i]
      BY <1>2, <1>10, <1>16, AppendProperties
    <3>3. /\ DOMAIN list = 1 .. Len(list) /\ DOMAIN list' = 1 .. Len(list') /\ Len(list) \in Nat
          /\ \A i \in 1 .. Len(list) : list[i] \in ToSet(list)
      BY <1>2, <3>1, HeldIs
    <3> QED
      BY <3>1, <3>2, <3>3
  <2>4. Len(list') <= Excess
    BY <1>1, <2>3, ExcessIs
  <2>5. ToSet(list') \subseteq Demotable
    BY <1>1, <1>11, <2>2, <2>3 DEF ChosenFirst
  <2>6. ASSUME NEW i \in DOMAIN list', NEW j \in DOMAIN list', i < j
        PROVE  Before(Rank(list'[i]), Rank(list'[j]))
    <3>1. i \in 1 .. Len(list) /\ list'[i] = list[i] /\ list[i] \in ToSet(list)
      BY <2>3, <2>6
    <3>2. CASE j \in 1 .. Len(list)
      BY <1>1, <1>11, <2>3, <2>6, <3>1, <3>2 DEF ChosenFirst
    <3>3. CASE j = Len(list) + 1
      BY <1>1, <1>11, <2>2, <2>3, <3>1, <3>3 DEF ChosenFirst
    <3> QED
      BY <2>3, <3>2, <3>3
  <2>7. ASSUME NEW j \in ToSet(list'), NEW u \in Demotable \ ToSet(list')
        PROVE  Before(Rank(j), Rank(u))
    <3>1. u \in Demotable \ ToSet(list) /\ u # k
      BY <2>3, <2>7
    <3>2. CASE j \in ToSet(list)
      BY <1>1, <1>11, <3>1, <3>2 DEF ChosenFirst
    <3>3. CASE j = k
      BY <1>1, <1>3, <1>16, <2>2, <3>1, <3>3, TopIsFirst
    <3> QED
      BY <2>3, <3>2, <3>3
  <2>8. FiledOnce(dheap' (+) held', {j \in Keys : Resident(j) /\ j \notin reclaimable} \ ToSet(list'),
                  seq, nextSeq)
    <3>1. {j \in Keys : Resident(j) /\ j \notin reclaimable} \ ToSet(list') = B
      BY <1>4, <2>3
    <3> QED
      BY <1>16, <2>1, <3>1
  <2>9. /\ HeapOf(dheap', DEntries) /\ HeapOf(held', DEntries)
        /\ \A f \in DOMAIN held' : Resident(f[4]) /\ slotOf[f[4]] \in window
    BY <1>2, <1>7, <1>16
  <2> HIDE DEF h1, B
  <2> QED
    BY <1>1, <1>2, <1>3, <2>3, <2>4, <2>5, <2>6, <2>7, <2>8, <2>9, DemotionGoes
<1> QED
  BY <1>5, <1>13, <1>14, <1>15, <1>16 DEF r, k

\* The victims are distinct, for each ranks before the next.
LEMMA ChosenDistinct ==
  ASSUME HeapsRight, loop = "demote"
  PROVE  list \in Seq(Keys) /\ IsInjective(list) /\ ToSet(list) \subseteq Demotable
<1>1. /\ list \in Seq(Keys) /\ ToSet(list) \subseteq Demotable
      /\ \A i, j \in DOMAIN list : i < j => Before(Rank(list[i]), Rank(list[j]))
  BY DEF HeapsRight, HeapsTyped, ChosenFirst
<1>2. ASSUME NEW i \in DOMAIN list, NEW j \in DOMAIN list, i < j
      PROVE  list[i] # list[j]
  <2>1. list[i] \in Keys /\ Before(Rank(list[i]), Rank(list[j]))
    BY <1>1, <1>2
  <2>2. /\ Rank(list[i]) \in Int \X Int \X Int
        /\ Rank(list[i])[1] \in Nat /\ Rank(list[i])[2] \in Nat /\ Rank(list[i])[3] \in Nat
    BY <2>1, RankIs
  <2>3. ~Before(Rank(list[i]), Rank(list[i]))
    BY <2>2, BeforeThree
  <2> QED
    BY <2>1, <2>3
<1>3. \A i \in DOMAIN list : i \in Int
  BY <1>1
<1>4. IsInjective(list)
  BY <1>2, <1>3 DEF IsInjective
<1> QED
  BY <1>1, <1>4

LEMMA EndDemotionKeeps ==
  ASSUME IInv, HeapsRight, NEW t \in Threads, EndDemotion(t)
  PROVE  HeapsRight'
<1> DEFINE L == ToSet(list)
<1>1. /\ loop = "demote" /\ Reclassify(t, L) /\ dheap' = dheap (+) held /\ held' = EmptyBag
      /\ loop' = IF list = <<>> THEN "none" ELSE "reclaim"
      /\ UNCHANGED <<ranks, publications, vheap, list>>
  BY DEF EndDemotion
<1>2. UNCHANGED <<slotOf, keyOf>> /\ reclaimable' = reclaimable \cup L
  BY <1>1 DEF Reclassify
<1>3. list \in Seq(Keys) /\ IsInjective(list) /\ L \subseteq Demotable
  BY <1>1, ChosenDistinct
<1>4. HeapOf(dheap, DEntries) /\ HeapOf(held, DEntries)
  BY <1>1 DEF HeapsRight, HeapsTyped, LoopRight
<1>5. list = <<>> => L = {}
  BY DEF ToSet
<1>6. L \cap reclaimable = {}
  BY <1>3 DEF Demotable
<1> HIDE DEF L
<1>7. HeapsTyped'
  <2>1. HeapOf(dheap', DEntries)
    BY <1>1, <1>4, SumIs
  <2>2. /\ clock' \in Nat /\ freq' \in [Keys -> Nat] /\ last' \in [Keys -> Nat]
        /\ seq' \in [Keys -> Nat] /\ nextSeq' \in Nat /\ order' \in Seq(Keys)
        /\ HeapOf(vheap', VEntries) /\ list' \in Seq(Keys)
    BY <1>1 DEF HeapsRight, HeapsTyped, ranks, publications
  <2> QED
    BY <1>1, <2>1, <2>2 DEF HeapsTyped
<1>8. InOrder'
  BY <1>1, <1>2 DEF HeapsRight, InOrder, publications, Resident
<1>9. LoopRight'
  BY <1>1, <1>2, <1>3 DEF LoopRight, L
<1>10. EveryRowFiled'
  <2>1. VictimEntries' = VictimEntries
    BY <1>1 DEF VictimEntries
  <2>2. Pushed' = Pushed
    BY <1>1, <1>2, <1>5, <1>6 DEF Pushed, L
  <2>3. \A s : \A k : VEntry(Pushed, s, k)' = VEntry(Pushed, s, k)
    BY <1>1, <2>2 DEF VEntry, ranks
  <2>4. EveryRowFiled
    BY DEF HeapsRight
  <2> QED
    BY <1>2, <2>1, <2>2, <2>3, <2>4 DEF EveryRowFiled, VEntry, ranks
<1>11. ActiveFiledOnce'
  <2>1. Filed' = Filed
    BY <1>1 DEF Filed
  <2>2. Active' = Active
    BY <1>1, <1>2 DEF Active, Resident, L
  <2>3. UNCHANGED <<seq, nextSeq, freq, last>>
    BY <1>1 DEF ranks, publications
  <2>4. ProtectedRows < HotRows => FiledOnce(Filed, Active, seq, nextSeq)
    BY DEF HeapsRight, ActiveFiledOnce
  <2> QED
    BY <2>1, <2>2, <2>3, <2>4 DEF ActiveFiledOnce, FiledOnce, DEntry
<1>12. ChosenFirst'
  BY <1>1 DEF ChosenFirst
<1> QED
  BY <1>7, <1>8, <1>9, <1>10, <1>11, <1>12 DEF HeapsRight

LEMMA HeapsStart ==
  ASSUME HeapInit
  PROVE  HeapsRight
<1>1. /\ slotOf = Nowhere /\ keyOf = [s \in Slots |-> NoKey] /\ reclaimable = {}
  BY DEF HeapInit, Init
<1>2. \A k \in Keys : ~Resident(k)
  BY <1>1 DEF Resident, Nowhere
<1>3. /\ clock = 0 /\ freq = [k \in Keys |-> 0] /\ last = [k \in Keys |-> 0]
      /\ seq = [k \in Keys |-> 0] /\ nextSeq = 1 /\ order = <<>>
      /\ vheap = EmptyBag /\ dheap = EmptyBag /\ held = EmptyBag
      /\ loop = "none" /\ list = <<>>
  BY DEF HeapInit
<1>4. HeapsTyped
  BY <1>3, EmptyIs DEF HeapsTyped
<1>5. InOrder
  BY <1>2, <1>3 DEF InOrder, ToSet
<1>6. LoopRight /\ ChosenFirst
  BY <1>3 DEF LoopRight, ChosenFirst
<1>7. EveryRowFiled
  BY <1>1 DEF EveryRowFiled
<1>8. ActiveFiledOnce
  <2>1. Active = {} /\ DOMAIN Filed = {}
    <3>1. DOMAIN EmptyBag = {}
      BY EmptyIs
    <3> QED
      BY <1>2, <1>3, <3>1 DEF Active, Filed
  <2> QED
    BY <2>1 DEF ActiveFiledOnce, FiledOnce
<1> QED
  BY <1>4, <1>5, <1>6, <1>7, <1>8 DEF HeapsRight

LEMMA HeapsRest ==
  ASSUME HeapsRight, UNCHANGED allVars
  PROVE  HeapsRight'
<1>1. /\ UNCHANGED <<slotOf, keyOf, free, reserved, window, reclaimable, lock, local, pending>>
      /\ UNCHANGED <<clock, freq, last, seq, nextSeq, order, vheap, dheap, held, loop, list>>
  BY DEF allVars, vars, tierVars, heapVars, ranks, publications, heaps
<1>2. HeapsTyped' /\ InOrder'
  BY <1>1 DEF HeapsRight, HeapsTyped, InOrder, Resident
<1>3. LoopRight'
  BY <1>1 DEF HeapsRight, LoopRight, Resident, Claiming, Planning, Pending, Evictable, Own, Demoting
<1>4. EveryRowFiled'
  BY <1>1 DEF HeapsRight, EveryRowFiled, VictimEntries, Pushed, VEntry
<1>5. ActiveFiledOnce'
  BY <1>1 DEF HeapsRight, ActiveFiledOnce, FiledOnce, Filed, Active, DEntry, Resident
<1>6. ChosenFirst'
  BY <1>1 DEF HeapsRight, ChosenFirst, Demotable, Excess, Rank, Resident
<1> QED
  BY <1>2, <1>3, <1>4, <1>5, <1>6 DEF HeapsRight

-----------------------------------------------------------------------------
(* What the heaps choose.                                                  *)
LEMMA InjectiveCard ==
  ASSUME NEW A, NEW s \in Seq(A), IsInjective(s)
  PROVE  IsFiniteSet(ToSet(s)) /\ Cardinality(ToSet(s)) = Len(s)
<1>1. DOMAIN s = 1 .. Len(s) /\ Len(s) \in Nat
  BY LenProperties
<1>2. s \in Surjection(1 .. Len(s), ToSet(s)) /\ s \in Injection(1 .. Len(s), ToSet(s))
  <2>1. s \in [1 .. Len(s) -> ToSet(s)]
    BY HeldIs, LenProperties
  <2> QED
    BY <1>1, <2>1 DEF ToSet, Surjection, Injection, IsInjective
<1>3. IsFiniteSet(1 .. Len(s)) /\ Cardinality(1 .. Len(s)) = Len(s)
  <2>1. 1 \in Int /\ Len(s) \in Int
    BY <1>1
  <2>2. /\ IsFiniteSet(1 .. Len(s))
        /\ Cardinality(1 .. Len(s)) = IF 1 > Len(s) THEN 0 ELSE Len(s) - 1 + 1
    BY <2>1, FS_Interval
  <2> QED
    BY <1>1, <2>2
<1> QED
  BY <1>2, <1>3, FS_Surjection

\* How the scan ranks two slots that a search may take.
LEMMA ScanRankIs ==
  ASSUME HeapsTyped, NEW s \in Slots, keyOf[s] \in Keys
  PROVE  /\ ScanRank(s) \in Int \X Int \X Int \X Int
         /\ ScanRank(s)[1] = VEntry(reclaimable, s, keyOf[s])[1]
         /\ ScanRank(s)[2] = VEntry(reclaimable, s, keyOf[s])[2]
         /\ ScanRank(s)[3] = VEntry(reclaimable, s, keyOf[s])[3]
         /\ ScanRank(s)[4] = s /\ VEntry(reclaimable, s, keyOf[s])[4] = s
         /\ ScanRank(s)[1] = (IF keyOf[s] \in reclaimable THEN 0 ELSE 1)
<1> DEFINE k == keyOf[s]
           p == IF k \in reclaimable THEN 0 ELSE 1
<1>1. freq[k] \in Nat /\ last[k] \in Nat /\ s \in Nat /\ p \in Int
  <2>1. freq \in [Keys -> Nat] /\ last \in [Keys -> Nat] /\ k \in Keys
    BY DEF HeapsTyped
  <2>2. s \in Nat
    BY KeysAndSlots
  <2>3. p \in Int
    OBVIOUS
  <2> HIDE DEF k, p
  <2> QED
    BY <2>1, <2>2, <2>3
<1>2. ScanRank(s) = <<p, freq[k], last[k], s>> /\ VEntry(reclaimable, s, k) = <<p, freq[k], last[k], s, k>>
  BY DEF ScanRank, VEntry
<1>3. p = IF keyOf[s] \in reclaimable THEN 0 ELSE 1
  OBVIOUS
<1> HIDE DEF p
<1> QED
  BY <1>1, <1>2, <1>3

\* A slot whose entry is not below another's does not come after it in the scan.
LEMMA ScanAgrees ==
  ASSUME HeapsTyped, NEW s \in Slots, keyOf[s] \in Keys, NEW u \in Slots, keyOf[u] \in Keys,
         AtMost(VEntry(reclaimable, s, keyOf[s]), VEntry(reclaimable, u, keyOf[u]))
  PROVE  s # u => Before(ScanRank(s), ScanRank(u))
<1> DEFINE a == ScanRank(s)
           b == ScanRank(u)
           e == VEntry(reclaimable, s, keyOf[s])
           f == VEntry(reclaimable, u, keyOf[u])
<1>1. e \in VEntries /\ f \in VEntries
  BY EntriesAre
<1>2. /\ e \in Int \X Int \X Int \X Int \X Int /\ f \in Int \X Int \X Int \X Int \X Int
  BY <1>1, VEntriesAre
<1>3. a \in Int \X Int \X Int \X Int /\ b \in Int \X Int \X Int \X Int
  BY ScanRankIs
<1>4. /\ a[1] = e[1] /\ a[2] = e[2] /\ a[3] = e[3] /\ a[4] = s /\ e[4] = s
      /\ b[1] = f[1] /\ b[2] = f[2] /\ b[3] = f[3] /\ b[4] = u /\ f[4] = u
  BY ScanRankIs
<1>5. ~Before(f, e)
  BY DEF AtMost
<1> HIDE DEF a, b, e, f
<1>6. ~(\/ f[1] < e[1]
        \/ f[1] = e[1] /\ f[2] < e[2]
        \/ f[1] = e[1] /\ f[2] = e[2] /\ f[3] < e[3]
        \/ f[1] = e[1] /\ f[2] = e[2] /\ f[3] = e[3] /\ f[4] < e[4])
  BY <1>2, <1>5, BeforeFive
<1>7. /\ a[1] \in Int /\ a[2] \in Int /\ a[3] \in Int /\ b[1] \in Int /\ b[2] \in Int /\ b[3] \in Int
      /\ s \in Nat /\ u \in Nat
  BY <1>3, KeysAndSlots
<1>8. ASSUME s # u
      PROVE  \/ a[1] < b[1]
             \/ a[1] = b[1] /\ a[2] < b[2]
             \/ a[1] = b[1] /\ a[2] = b[2] /\ a[3] < b[3]
             \/ a[1] = b[1] /\ a[2] = b[2] /\ a[3] = b[3] /\ a[4] < b[4]
  BY <1>4, <1>6, <1>7, <1>8
<1>9. ASSUME s # u
      PROVE  Before(a, b)
  BY <1>3, <1>8, <1>9, BeforeFour
<1> QED
  BY <1>9 DEF a, b

\* Every slot that may be taken has an entry in the heap, not below its rank.
LEMMA EvictableFiled ==
  ASSUME IInv, HeapsRight, NEW t \in Threads, Searching(t), NEW u \in Evictable(t)
  PROVE  /\ u \in Slots /\ keyOf[u] \in Keys
         /\ \E f \in DOMAIN vheap : f[4] = u /\ AtMost(f, VEntry(reclaimable, u, keyOf[u]))
<1>1. u \in Slots /\ keyOf[u] # NoKey
  BY DEF Evictable
<1>2. keyOf[u] \in Keys
  BY <1>1 DEF IInv, TypeOK
<1>3. loop = "search"
  BY DEF Searching
<1>4. PICK f \in VictimEntries : f[4] = u /\ AtMost(f, VEntry(reclaimable, u, keyOf[u]))
  BY <1>1, <1>3 DEF HeapsRight, EveryRowFiled, Pushed
<1>5. f \in DOMAIN vheap
  BY <1>3, <1>4, SearchIs DEF VictimEntries
<1> QED
  BY <1>1, <1>2, <1>4, <1>5

\* The current entry at the top is that of the slot the scan puts first.
LEMMA TopIsScanned ==
  ASSUME IInv, HeapsRight, NEW t \in Threads, Searching(t),
         NEW e \in Tops(vheap), Current(e), e[4] \in Evictable(t)
  PROVE  \A u \in Evictable(t) : u # e[4] => Before(ScanRank(e[4]), ScanRank(u))
<1> DEFINE s == e[4]
<1>1. HeapsTyped
  BY DEF HeapsRight
<1>2. s \in Slots /\ keyOf[s] \in Keys
  BY EvictableFiled
<1>3. e = VEntry(reclaimable, s, keyOf[s])
  BY DEF Current, SlotMoved
<1>4. ASSUME NEW u \in Evictable(t), u # s
      PROVE  Before(ScanRank(s), ScanRank(u))
  <2>1. u \in Slots /\ keyOf[u] \in Keys
    BY EvictableFiled
  <2>2. PICK f \in DOMAIN vheap : AtMost(f, VEntry(reclaimable, u, keyOf[u]))
    BY EvictableFiled
  <2>3. AtMost(e, f)
    BY <2>2 DEF Tops, BagToSet, AtMost
  <2>4. e \in VEntries /\ f \in VEntries /\ VEntry(reclaimable, u, keyOf[u]) \in VEntries
    <3>1. VEntry(reclaimable, u, keyOf[u]) \in VEntries /\ VEntry(reclaimable, s, keyOf[s]) \in VEntries
      BY <1>1, <1>2, <2>1, EntriesAre
    <3>2. DOMAIN vheap \subseteq VEntries
      BY <1>1 DEF HeapsTyped, HeapOf
    <3> QED
      BY <1>3, <3>1, <3>2
  <2>5. AtMost(e, VEntry(reclaimable, u, keyOf[u]))
    BY <2>2, <2>3, <2>4, VictimOrder
  <2> HIDE DEF s
  <2> QED
    BY <1>1, <1>2, <1>3, <1>4, <2>1, <2>5, ScanAgrees
<1> QED
  BY <1>4

LEMMA ScanRanksApart ==
  ASSUME HeapsTyped, NEW s \in Slots, keyOf[s] \in Keys, NEW u \in Slots, keyOf[u] \in Keys,
         Before(ScanRank(s), ScanRank(u))
  PROVE  ~Before(ScanRank(u), ScanRank(s))
<1> DEFINE a == ScanRank(s)
           b == ScanRank(u)
<1>1. a \in Int \X Int \X Int \X Int /\ b \in Int \X Int \X Int \X Int
  BY ScanRankIs
<1>2. Before(a, b)
  OBVIOUS
<1> HIDE DEF a, b
<1>3. /\ a[1] \in Int /\ a[2] \in Int /\ a[3] \in Int /\ a[4] \in Int
      /\ b[1] \in Int /\ b[2] \in Int /\ b[3] \in Int /\ b[4] \in Int
  BY <1>1
<1>4. ~Before(b, a)
  BY <1>1, <1>2, <1>3, BeforeFour
<1> QED
  BY <1>4 DEF a, b

LEMMA VictimChosen ==
  ASSUME IInv, HeapsRight
  PROVE  VictimAsScanned
<1> SUFFICES ASSUME NEW t \in Threads, Searching(t)
             PROVE  /\ \A e \in Tops(vheap) :
                         Current(e) /\ e[4] \in Evictable(t) => e[4] = VictimScan(t)
                    /\ vheap = EmptyBag => Evictable(t) = {}
  BY DEF VictimAsScanned
<1>1. ASSUME NEW e \in Tops(vheap), Current(e), e[4] \in Evictable(t)
      PROVE  e[4] = VictimScan(t)
  <2> DEFINE s == e[4]
             First(u) == \A v \in Evictable(t) : ~Before(ScanRank(v), ScanRank(u))
  <2>1. HeapsTyped
    BY DEF HeapsRight
  <2>2. \A u \in Evictable(t) : u \in Slots /\ keyOf[u] \in Keys
    BY EvictableFiled
  <2>3. \A u \in Evictable(t) : u # s => Before(ScanRank(s), ScanRank(u))
    BY <1>1, TopIsScanned
  <2>4. s \in Evictable(t)
    BY <1>1
  <2> HIDE DEF s
  <2>5. First(s)
    <3> SUFFICES ASSUME NEW v \in Evictable(t)
                 PROVE  ~Before(ScanRank(v), ScanRank(s))
      OBVIOUS
    <3>1. CASE v # s
      BY <2>1, <2>2, <2>3, <2>4, <3>1, ScanRanksApart
    <3>2. CASE v = s
      BY <2>1, <2>2, <2>4, <3>2, ScanRanksApart
    <3> QED
      BY <3>1, <3>2
  <2>6. \A u \in Evictable(t) : First(u) => u = s
    BY <2>3, <2>4
  <2>7. VictimScan(t) = CHOOSE u \in Evictable(t) : First(u)
    BY DEF VictimScan
  <2> HIDE DEF First
  <2> QED
    BY <2>4, <2>5, <2>6, <2>7 DEF s
<1>2. ASSUME vheap = EmptyBag
      PROVE  Evictable(t) = {}
  <2>1. DOMAIN vheap = {}
    BY <1>2, EmptyIs
  <2> QED
    BY <2>1, EvictableFiled
<1> QED
  BY <1>1, <1>2

LEMMA DemotionRanksCompare ==
  ASSUME HeapsRight, NEW k \in Keys, NEW u \in Keys, Resident(k), Resident(u),
         Before(Rank(k), Rank(u))
  PROVE  Before(DemotionRank(k), DemotionRank(u))
<1> DEFINE i == CHOOSE n \in DOMAIN order : order[n] = k
           j == CHOOSE n \in DOMAIN order : order[n] = u
           a == DemotionRank(k)
           b == DemotionRank(u)
<1>1. k \in ToSet(order) /\ u \in ToSet(order) /\ order \in Seq(Keys)
  BY DEF HeapsRight, HeapsTyped, InOrder
<1>2. i \in DOMAIN order /\ order[i] = k /\ j \in DOMAIN order /\ order[j] = u
  BY <1>1 DEF ToSet
<1>3. /\ a = <<freq[k], last[k], i>> /\ b = <<freq[u], last[u], j>>
  BY DEF DemotionRank
<1> HIDE DEF i, j, a, b
<1>4. i \in Nat /\ j \in Nat
  <2>1. DOMAIN order = 1 .. Len(order)
    BY <1>1, LenProperties
  <2> QED
    BY <1>2, <2>1
<1>5. seq[k] < seq[u] => i < j
  <2>1. j < i => seq[u] < seq[k]
    BY <1>2 DEF HeapsRight, InOrder
  <2>2. seq[k] \in Nat /\ seq[u] \in Nat
    BY RankIs
  <2>3. i = j => seq[k] = seq[u]
    BY <1>2
  <2> QED
    BY <1>4, <2>1, <2>2, <2>3
<1>6. \/ freq[k] < freq[u]
      \/ freq[k] = freq[u] /\ last[k] < last[u]
      \/ freq[k] = freq[u] /\ last[k] = last[u] /\ seq[k] < seq[u]
  BY RankIs, BeforeThree
<1>7. /\ freq[k] \in Nat /\ last[k] \in Nat /\ freq[u] \in Nat /\ last[u] \in Nat
  BY RankIs
<1>8. a \in Int \X Int \X Int /\ b \in Int \X Int \X Int
  BY <1>3, <1>4, <1>7
<1>9. /\ a[1] = freq[k] /\ a[2] = last[k] /\ a[3] = i
      /\ b[1] = freq[u] /\ b[2] = last[u] /\ b[3] = j
  BY <1>3
<1>10. Before(a, b)
  BY <1>5, <1>6, <1>8, <1>9, BeforeThree
<1> QED
  BY <1>10 DEF a, b

\* An empty heap has no row left to demote.
LEMMA NoneLeft ==
  ASSUME IInv, HeapsRight, loop = "demote", dheap = EmptyBag
  PROVE  Demotable \subseteq ToSet(list)
<1> SUFFICES ASSUME NEW u \in Demotable, u \notin ToSet(list)
             PROVE  FALSE
  OBVIOUS
<1>1. /\ HeapOf(dheap, DEntries) /\ HeapOf(held, DEntries) /\ ProtectedRows < HotRows
      /\ \A f \in DOMAIN held : slotOf[f[4]] \in window
  BY DEF HeapsRight, HeapsTyped, LoopRight
<1>2. u \in Active /\ slotOf[u] \notin window
  BY DEF Demotable, Active
<1>3. PICK f \in DOMAIN Filed : f[4] = u
  BY <1>1, <1>2 DEF HeapsRight, ActiveFiledOnce, FiledOnce
<1>4. DOMAIN Filed = DOMAIN dheap \cup DOMAIN held
  BY <1>1, SumIs DEF Filed
<1>5. DOMAIN dheap = {}
  BY EmptyIs
<1> QED
  BY <1>1, <1>2, <1>3, <1>4, <1>5

LEMMA VictimsInOrder ==
  ASSUME IInv, HeapsRight
  PROVE  DemotionAsScanned
<1> SUFFICES ASSUME loop = "demote"
             PROVE  /\ ToSet(list) \subseteq Demotable
                    /\ \A i, j \in DOMAIN list :
                         i < j => Before(DemotionRank(list[i]), DemotionRank(list[j]))
                    /\ \A k \in ToSet(list), u \in Demotable \ ToSet(list) :
                         Before(DemotionRank(k), DemotionRank(u))
                    /\ dheap = EmptyBag => Demotable \subseteq ToSet(list)
  BY DEF DemotionAsScanned
<1>1. /\ list \in Seq(Keys) /\ ToSet(list) \subseteq Demotable
      /\ \A i, j \in DOMAIN list : i < j => Before(Rank(list[i]), Rank(list[j]))
      /\ \A k \in ToSet(list), u \in Demotable \ ToSet(list) : Before(Rank(k), Rank(u))
  BY DEF HeapsRight, HeapsTyped, ChosenFirst
<1>2. \A k \in Demotable : k \in Keys /\ Resident(k)
  BY DEF Demotable
<1>3. \A i \in DOMAIN list : list[i] \in ToSet(list)
  BY DEF ToSet
<1>4. ASSUME NEW i \in DOMAIN list, NEW j \in DOMAIN list, i < j
      PROVE  Before(DemotionRank(list[i]), DemotionRank(list[j]))
  <2>1. /\ list[i] \in Keys /\ list[j] \in Keys /\ Resident(list[i]) /\ Resident(list[j])
        /\ Before(Rank(list[i]), Rank(list[j]))
    BY <1>1, <1>2, <1>3, <1>4
  <2> QED
    BY <2>1, DemotionRanksCompare
<1>5. ASSUME NEW k \in ToSet(list), NEW u \in Demotable \ ToSet(list)
      PROVE  Before(DemotionRank(k), DemotionRank(u))
  BY <1>1, <1>2, <1>5, DemotionRanksCompare
<1> QED
  BY <1>1, <1>4, <1>5, NoneLeft

-----------------------------------------------------------------------------
(* The heaps make the choices that ColdTier leaves open.                   *)
LEMMA MinOf ==
  ASSUME NEW i \in Nat, NEW j \in Nat, i <= j
  PROVE  Min({i, j}) = i /\ Min({j, i}) = i
<1>1. \A x \in {i, j} : (\A y \in {i, j} : x <= y) <=> x = i
  OBVIOUS
<1>2. Min({i, j}) = i
  BY <1>1 DEF Min
<1> QED
  BY <1>2

LEMMA TakeVictimIsClaim ==
  ASSUME IInv, HeapsRight, NEW t \in Threads, TakeVictim(t)
  PROVE  ClaimVictim(t)
<1>1. PICK e \in Tops(vheap) : Current(e) /\ e[4] \in Evictable(t) /\ Evict(t, e[4])
  BY DEF TakeVictim
<1>2. Searching(t)
  BY DEF TakeVictim
<1>3. Claiming(t) /\ free = <<>>
  BY <1>2, SearchIs
<1>4. HeapsTyped
  BY DEF HeapsRight
<1> DEFINE s == e[4]
           soft == {v \in Evictable(t) : keyOf[v] \in reclaimable}
<1>5. \A u \in Evictable(t) : u \in Slots /\ keyOf[u] \in Keys
  BY <1>2, EvictableFiled
<1>6. ASSUME NEW u \in soft, s \notin soft
      PROVE  FALSE
  <2>1. s \in Slots /\ keyOf[s] \in Keys /\ u \in Slots /\ keyOf[u] \in Keys /\ u # s
    BY <1>1, <1>5, <1>6
  <2>2. Before(ScanRank(s), ScanRank(u))
    BY <1>1, <1>2, <2>1, TopIsScanned
  <2>3. keyOf[s] \notin reclaimable /\ keyOf[u] \in reclaimable
    BY <1>1, <1>6
  <2> HIDE DEF s
  <2>4. ScanRank(s)[1] = 1 /\ ScanRank(u)[1] = 0
    BY <1>4, <2>1, <2>3, ScanRankIs
  <2>5. ScanRank(s) \in Int \X Int \X Int \X Int /\ ScanRank(u) \in Int \X Int \X Int \X Int
    BY <1>4, <2>1, ScanRankIs
  <2> QED
    BY <2>2, <2>4, <2>5, BeforeFour
<1>7. s \in Victims(t)
  BY <1>1, <1>6 DEF Victims
<1> QED
  BY <1>1, <1>3, <1>7 DEF ClaimVictim

LEMMA FindNoneIsNoVictim ==
  ASSUME IInv, HeapsRight, NEW t \in Threads, FindNone(t)
  PROVE  NoVictim(t)
<1>1. Searching(t) /\ vheap = EmptyBag /\ GiveUp(t)
  BY DEF FindNone
<1>2. Claiming(t) /\ free = <<>>
  BY <1>1, SearchIs
<1>3. Evictable(t) = {}
  BY <1>1, VictimChosen DEF VictimAsScanned
<1>4. Victims(t) = {}
  BY <1>3 DEF Victims
<1> QED
  BY <1>1, <1>2, <1>4 DEF NoVictim

LEMMA DemotableIs ==
  ASSUME IInv, HeapsRight
  PROVE  IsFiniteSet(Demotable) /\ Cardinality(Demotable) \in Nat
<1>1. Demotable \subseteq {k \in Keys : Resident(k)}
  BY DEF Demotable
<1>2. IsFiniteSet(Demotable)
  BY <1>1, ExcessIs, FS_Subset
<1> QED
  BY <1>2, FS_CardinalityType

LEMMA NothingIsDemote ==
  ASSUME IInv, HeapsRight, NEW t \in Threads, NothingToDemote(t)
  PROVE  Demote(t)
<1>1. Demoting(t) /\ Excess = 0 /\ Reclassify(t, {})
  BY DEF NothingToDemote
<1>2. Cardinality({}) = 0 /\ {} \in SUBSET Demotable
  BY FS_EmptySet
<1>3. Min({Excess, Cardinality(Demotable)}) = 0
  <2> DEFINE n == Cardinality(Demotable)
  <2>1. n \in Nat
    BY DemotableIs
  <2> HIDE DEF n
  <2>2. Min({0, n}) = 0
    BY <2>1, MinOf
  <2> QED
    BY <1>1, <2>2 DEF n
<1> QED
  BY <1>1, <1>2, <1>3 DEF Demote

LEMMA EndDemotionIsDemote ==
  ASSUME IInv, HeapsRight, NEW t \in Threads, EndDemotion(t)
  PROVE  Demote(t)
<1> DEFINE L == ToSet(list)
           n == Cardinality(Demotable)
<1>1. /\ loop = "demote" /\ Demoting(t) /\ Reclassify(t, L)
      /\ dheap = EmptyBag \/ Len(list) >= Excess
  BY DEF EndDemotion
<1>2. list \in Seq(Keys) /\ IsInjective(list) /\ L \subseteq Demotable
  BY <1>1, ChosenDistinct
<1>3. Cardinality(L) = Len(list) /\ Len(list) \in Nat
  BY <1>2, InjectiveCard, LenProperties
<1>4. n \in Nat /\ Cardinality(L) <= n
  BY <1>2, DemotableIs, FS_Subset
<1>5. Len(list) <= Excess /\ Excess \in Nat
  BY <1>1, ExcessIs DEF HeapsRight, ChosenFirst
<1>6. dheap = EmptyBag => L = Demotable
  BY <1>1, <1>2, NoneLeft
<1>7. dheap = EmptyBag => Len(list) = n
  BY <1>3, <1>6
<1> DEFINE x == Excess
<1>8. x \in Nat /\ Len(list) <= x /\ (x = Len(list) \/ n = Len(list)) /\ Len(list) <= n
  BY <1>1, <1>3, <1>4, <1>5, <1>7
<1> HIDE DEF n, x, L
<1>9. Min({x, n}) = Len(list)
  BY <1>3, <1>4, <1>8, MinOf
<1>10. Cardinality(L) = Min({Excess, Cardinality(Demotable)}) /\ L \in SUBSET Demotable
  BY <1>2, <1>3, <1>9 DEF x, n
<1> QED
  BY <1>1, <1>10 DEF Demote

\* A step with the heaps is a step of ColdTier, or leaves its variables alone.
LEMMA HeapStep ==
  ASSUME IInv, HeapsRight, HeapNext
  PROVE  [Next]_vars
<1>1. CASE \E t \in Threads : \E q \in Requests[t] : Ask(t, q)
  BY <1>1 DEF Ask, Next
<1>2. ASSUME NEW t \in Threads,
             \/ MeetRow(t) \/ TakeFree(t) \/ StartSearch(t) \/ SearchOn(t) \/ TakeVictim(t)
             \/ FindNone(t) \/ Land(t) \/ Look(t) \/ AskAgain(t)
             \/ NothingToDemote(t) \/ StartDemotion(t) \/ EndDemotion(t)
      PROVE  [Next]_vars
  <2>1. CASE MeetRow(t)
    BY <2>1 DEF MeetRow, Next, Call
  <2>2. CASE TakeFree(t)
    BY <2>2 DEF TakeFree, Next, Call
  <2>3. CASE StartSearch(t)
    BY <2>3 DEF StartSearch
  <2>4. CASE SearchOn(t)
    BY <2>4 DEF SearchOn
  <2>5. CASE TakeVictim(t)
    BY <2>5, TakeVictimIsClaim DEF Next, Call
  <2>6. CASE FindNone(t)
    BY <2>6, FindNoneIsNoVictim DEF Next, Call
  <2>7. CASE Land(t)
    <3>1. Publish(t)
      BY <2>7 DEF Land, Publish
    <3> QED
      BY <3>1 DEF Next
  <2>8. CASE Look(t)
    BY <2>8 DEF Look, Next, Call
  <2>9. CASE AskAgain(t)
    BY <2>9 DEF AskAgain, Next, Call
  <2>10. CASE NothingToDemote(t)
    BY <2>10, NothingIsDemote DEF Next, Call
  <2>11. CASE StartDemotion(t)
    BY <2>11 DEF StartDemotion
  <2>12. CASE EndDemotion(t)
    BY <2>12, EndDemotionIsDemote DEF Next, Call
  <2> QED
    BY <1>2, <2>1, <2>2, <2>3, <2>4, <2>5, <2>6, <2>7, <2>8, <2>9, <2>10, <2>11, <2>12
<1>3. CASE ResurrectNext \/ DemoteOn \/ ReclaimNext
  BY <1>3 DEF ResurrectNext, DemoteOn, ReclaimNext
<1>4. CASE Quiet
  BY <1>4 DEF Quiet, Next, Call
<1>5. CASE \E k \in Keys : Drop(k)
  BY <1>5 DEF Drop, Next
<1> QED
  BY <1>1, <1>2, <1>3, <1>4, <1>5 DEF HeapNext

LEMMA HeapsKept ==
  ASSUME IInv, HeapsRight, HeapNext
  PROVE  HeapsRight'
<1>1. CASE \E t \in Threads : \E q \in Requests[t] : Ask(t, q)
  BY <1>1, AskKeeps
<1>2. ASSUME NEW t \in Threads,
             \/ MeetRow(t) \/ TakeFree(t) \/ StartSearch(t) \/ SearchOn(t) \/ TakeVictim(t)
             \/ FindNone(t) \/ Land(t) \/ Look(t) \/ AskAgain(t)
             \/ NothingToDemote(t) \/ StartDemotion(t) \/ EndDemotion(t)
      PROVE  HeapsRight'
  BY <1>2, MeetRowKeeps, TakeFreeKeeps, StartSearchKeeps, SearchOnKeeps, TakeVictimKeeps,
     FindNoneKeeps, LandKeeps, LookKeeps, AskAgainKeeps, NothingToDemoteKeeps,
     StartDemotionKeeps, EndDemotionKeeps
<1>3. CASE ResurrectNext \/ DemoteOn \/ ReclaimNext
  BY <1>3, ResurrectNextKeeps, DemoteOnKeeps, ReclaimNextKeeps
<1>4. CASE Quiet
  BY <1>4, QuietKeeps
<1>5. CASE \E k \in Keys : Drop(k)
  BY <1>5, DropKeeps
<1> QED
  BY <1>1, <1>2, <1>3, <1>4, <1>5 DEF HeapNext

THEOREM HeapInvariance == HeapSpec => [](IInv /\ HeapsRight)
<1>1. HeapInit => IInv /\ HeapsRight
  BY InitHolds, HeapsStart DEF HeapInit
<1>2. IInv /\ HeapsRight /\ [HeapNext]_allVars => (IInv /\ HeapsRight)'
  <2> SUFFICES ASSUME IInv, HeapsRight, [HeapNext]_allVars
               PROVE  IInv' /\ HeapsRight'
    OBVIOUS
  <2>1. CASE HeapNext
    BY <2>1, HeapStep, NextKeeps, HeapsKept
  <2>2. CASE UNCHANGED allVars
    <3>1. [Next]_vars
      BY <2>2 DEF allVars
    <3> QED
      BY <2>2, <3>1, NextKeeps, HeapsRest
  <2> QED
    BY <2>1, <2>2
<1> QED
  BY <1>1, <1>2, PTL DEF HeapSpec

(* A search of the victim heap takes the slot that the scan it replaced    *)
(* would take, and finds none only when there is none.                     *)
THEOREM VictimIsScanned == HeapSpec => []VictimAsScanned
<1>1. IInv /\ HeapsRight => VictimAsScanned
  BY VictimChosen
<1> QED
  BY <1>1, HeapInvariance, PTL

(* The demotion heap yields the rows of the scan it replaced, in its order. *)
THEOREM DemotionIsScanned == HeapSpec => []DemotionAsScanned
<1>1. IInv /\ HeapsRight => DemotionAsScanned
  BY VictimsInOrder
<1> QED
  BY <1>1, HeapInvariance, PTL

(* The heaps settle choices that ColdTier leaves open, and do nothing else: *)
(* whatever ColdTier's theorems say holds with the heaps too.              *)
THEOREM HeapsImplementTier == HeapSpec => Spec
<1>1. HeapInit => Init
  BY DEF HeapInit
<1>2. IInv /\ HeapsRight /\ [HeapNext]_allVars => [Next]_vars
  BY HeapStep DEF allVars
<1> QED
  BY <1>1, <1>2, HeapInvariance, PTL DEF HeapSpec, Spec
=============================================================================
