------------------------- MODULE SegmentedPoolProofs -------------------------
(***************************************************************************)
(* The safety properties of SegmentedPool, for every number of segments,   *)
(* slots, keys and tags.  They rest on three invariants, each on the ones  *)
(* before it and on one hypothesis more:                                   *)
(*                                                                         *)
(*   PlaceInv  none: the map of keys to segments and the arenas agree;     *)
(*   RoomInv   segments are large enough for two requests of the size they *)
(*             were made for: what one stalls on will be recorded, and is  *)
(*             enough;                                                     *)
(*   ReadInv   and the device is synchronised before a shrink: a row in    *)
(*             flight keeps its buffer, its expert and its bytes.          *)
(*                                                                         *)
(* What an arena does is SlotArenaProofs'.                                 *)
(***************************************************************************)
EXTENDS SegmentedPool, SlotArenaProofs, SequenceTheorems

(* The rule that the residency engine checks for the cache it attaches     *)
(* (mxfp4_residency.py:548-568), and the caller's promise on routed.       *)
Fits ==
  /\ 2 * RoutedSize <= NSlots
  /\ \A q \in Requests : Len(q) <= RoutedSize

Calls == [seg : Nat, keys : Routed, turn : Nat]

Typed ==
  /\ segs \in Seq(Caches \cup {Gone})
  /\ where \in [Experts -> Nat]
  /\ rr \in Nat
  /\ pc \in {"idle", "ask", "stall", "commit"}
  /\ step \in 0 .. MaxClock
  /\ calls \in Seq(Calls)
  /\ placed \subseteq [key : Experts, seg : Nat, slot : Slots]
  /\ need \subseteq Experts
  /\ recorded \in [Tags -> Nat \cup {-1}]
  /\ issued \in Nat
  /\ completed \in 0 .. issued
  /\ reads \subseteq [at : Nat, seg : Nat, slot : Slots, key : Experts]

Arena(i) == segs[i].arena

SoundArenas == \A i \in Alive : Sound(Arena(i))

(* The requests still to be made of the segments share no key, and a key   *)
(* that is in some segment is asked of that one.                           *)
CallsApart ==
  /\ \A n \in DOMAIN calls : calls[n].seg \in Alive
  /\ \A n \in DOMAIN calls : \A k \in DOMAIN calls[n].keys :
       where[calls[n].keys[k]] \in Alive => where[calls[n].keys[k]] = calls[n].seg
  /\ \A m, n \in DOMAIN calls : \A j \in DOMAIN calls[m].keys, k \in DOMAIN calls[n].keys :
       calls[m].keys[j] = calls[n].keys[k] => m = n
  /\ pc = "stall" => calls # <<>>
  /\ pc \in {"idle", "commit"} => calls = <<>>
  /\ pc # "idle" => step \in Tags

PlaceInv == Typed /\ SoundArenas /\ WhereCoversResidents /\ CallsApart

-----------------------------------------------------------------------------
(* A finite set of numbers can be listed in ascending order: there is no   *)
(* least size at which it cannot.                                          *)
LEMMA AscendingIs ==
  ASSUME NEW S, S \subseteq Nat, IsFiniteSet(S)
  PROVE  /\ Ascending(S) \in [1 .. Cardinality(S) -> S]
         /\ \A i, j \in 1 .. Cardinality(S) : Ascending(S)[i] = Ascending(S)[j] => i = j
<1> DEFINE Lists(f, T) == /\ f \in [1 .. Cardinality(T) -> T]
                          /\ \A i, j \in DOMAIN f : i < j => f[i] < f[j]
           Fails(T) == IsFiniteSet(T) /\ ~\E f : Lists(f, T)
           Bad == {n \in Nat : \E T \in SUBSET Nat : Fails(T) /\ Cardinality(T) = n}
<1>1. Bad = {}
  <2>1. SUFFICES ASSUME Bad # {}
                 PROVE  FALSE
    OBVIOUS
  <2>2. PICK n \in Bad : \A k \in Bad : n <= k
    <3>1. Bad \subseteq Nat
      OBVIOUS
    <3> HIDE DEF Bad
    <3> QED
      BY <2>1, <3>1, LowestIs
  <2>3. PICK T \in SUBSET Nat : Fails(T) /\ Cardinality(T) = n
    BY <2>2
  <2>4. n \in Nat /\ IsFiniteSet(T)
    BY <2>2, <2>3
  <2>5. T # {}
    <3> SUFFICES ASSUME T = {}
                 PROVE  FALSE
      OBVIOUS
    <3>1. Cardinality(T) = 0
      BY FS_EmptySet
    <3>2. Lists([i \in 1 .. Cardinality(T) |-> 0], T)
      BY <3>1
    <3> QED
      BY <2>3, <3>2
  <2>6. n > 0
    BY <2>3, <2>4, <2>5, FS_EmptySet
  <2> DEFINE g == Lowest(T)
  <2>7. g \in T /\ \A x \in T : g <= x
    BY <2>5, LowestIs
  <2> HIDE DEF g
  <2>8. /\ IsFiniteSet(T \ {g}) /\ Cardinality(T \ {g}) = n - 1
        /\ T \ {g} \in SUBSET Nat
    BY <2>3, <2>4, <2>7, FS_RemoveElement
  <2>9. PICK f : Lists(f, T \ {g})
    <3>1. n - 1 \notin Bad
      BY <2>2, <2>4
    <3>2. ~Fails(T \ {g})
      <4>1. n - 1 \in Nat
        BY <2>4, <2>6
      <4> HIDE DEF Fails
      <4> QED
        BY <2>8, <3>1, <4>1
    <3> QED
      BY <2>8, <3>2
  <2> DEFINE h == [i \in 1 .. n |-> IF i = 1 THEN g ELSE f[i - 1]]
  <2>10. Lists(h, T)
    <3>1. f \in [1 .. n - 1 -> T \ {g}]
      BY <2>8, <2>9
    <3>2. \A i \in 1 .. n : i # 1 => h[i] = f[i - 1] /\ i - 1 \in 1 .. n - 1 /\ h[i] \in T /\ g < h[i]
      <4> TAKE i \in 1 .. n
      <4> HAVE i # 1
      <4>1. i - 1 \in 1 .. n - 1
        BY <2>4
      <4>2. f[i - 1] \in T /\ f[i - 1] # g
        BY <3>1, <4>1
      <4>3. g < f[i - 1]
        <5>1. g \in Nat /\ f[i - 1] \in Nat /\ g <= f[i - 1]
          BY <2>7, <4>2
        <5> QED
          BY <4>2, <5>1
      <4>4. h[i] = f[i - 1]
        OBVIOUS
      <4> HIDE DEF h
      <4> QED
        BY <4>1, <4>2, <4>3, <4>4
    <3>3. h[1] = g /\ DOMAIN h = 1 .. n
      BY <2>4, <2>6
    <3> HIDE DEF h
    <3>4. h \in [1 .. Cardinality(T) -> T]
      <4>1. \A i \in 1 .. n : h[i] \in T
        BY <2>7, <3>2, <3>3
      <4>2. h = [i \in 1 .. n |-> h[i]]
        BY DEF h
      <4> QED
        BY <2>3, <3>3, <4>1, <4>2
    <3>5. ASSUME NEW i \in 1 .. n, NEW j \in 1 .. n, i < j
          PROVE  h[i] < h[j]
      <4>1. j # 1 /\ i \in Nat /\ j \in Nat
        BY <2>4, <3>5
      <4>2. CASE i = 1
        BY <3>2, <3>3, <4>1, <4>2
      <4>3. CASE i # 1
        <5>1. i - 1 \in DOMAIN f /\ j - 1 \in DOMAIN f /\ i - 1 < j - 1
          BY <3>1, <3>2, <3>5, <4>1, <4>3
        <5>2. f[i - 1] < f[j - 1]
          BY <2>9, <5>1
        <5> QED
          BY <3>2, <4>1, <4>3, <5>2
      <4> QED
        BY <4>2, <4>3
    <3> QED
      BY <3>3, <3>4, <3>5
  <2> QED
    BY <2>3, <2>10
<1>2. ~Fails(S)
  <2>1. Cardinality(S) \in Nat
    BY FS_CardinalityType
  <2> HIDE DEF Fails
  <2> QED
    BY <1>1, <2>1
<1>3. Lists(Ascending(S), S)
  <2>1. \E f \in [1 .. Cardinality(S) -> S] : \A i, j \in DOMAIN f : i < j => f[i] < f[j]
    BY <1>2
  <2> QED
    BY <2>1 DEF Ascending
<1>4. Cardinality(S) \in Nat
  BY FS_CardinalityType
<1>5. ASSUME NEW i \in 1 .. Cardinality(S), NEW j \in 1 .. Cardinality(S),
             Ascending(S)[i] = Ascending(S)[j]
      PROVE  i = j
  <2>1. Ascending(S)[i] \in Nat /\ DOMAIN Ascending(S) = 1 .. Cardinality(S)
    BY <1>3
  <2>2. ~(i < j) /\ ~(j < i)
    BY <1>3, <1>5, <2>1
  <2> QED
    BY <1>4, <2>2
<1> QED
  BY <1>3, <1>5

(* A function on 1 .. n is a sequence of length n.                         *)
LEMMA ListIs ==
  ASSUME NEW n \in Nat, NEW S, NEW f \in [1 .. n -> S]
  PROVE  f \in Seq(S) /\ Len(f) = n
<1>1. f \in Seq(S)
  BY SeqDef
<1>2. Len(f) \in Nat /\ DOMAIN f = 1 .. Len(f)
  BY <1>1, LenProperties
<1>3. DOMAIN f = 1 .. n
  OBVIOUS
<1> QED
  BY <1>1, <1>2, <1>3

(* Part of a request is the request at those positions, each once.         *)
LEMMA PartIs ==
  ASSUME NEW q \in Routed, NEW at, at \subseteq DOMAIN q
  PROVE  LET p == Part(q, at)
         IN /\ Cardinality(at) \in Nat
            /\ DOMAIN p = 1 .. Cardinality(at)
            /\ \A n \in DOMAIN p : Ascending(at)[n] \in at /\ p[n] = q[Ascending(at)[n]]
            /\ \A m, n \in DOMAIN p : p[m] = p[n] => m = n
            /\ at # {} => p \in Routed
<1> DEFINE p == Part(q, at)
           f == Ascending(at)
<1>1. IsFiniteSet(at) /\ at \subseteq Nat /\ Cardinality(at) \in Nat
  BY RequestFinite
<1>2. /\ f \in [1 .. Cardinality(at) -> at]
      /\ \A i, j \in 1 .. Cardinality(at) : f[i] = f[j] => i = j
  BY <1>1, AscendingIs
<1>3. /\ at \subseteq 1 .. NSlots
      /\ \A i \in at : q[i] \in Experts
      /\ \A i, j \in at : q[i] = q[j] => i = j
  BY RequestType
<1>4. DOMAIN p = 1 .. Cardinality(at) /\ \A n \in 1 .. Cardinality(at) : p[n] = q[f[n]]
  BY DEF Part
<1> HIDE DEF p, f
<1>5. \A n \in 1 .. Cardinality(at) : f[n] \in at
  BY <1>2
<1>6. \A m, n \in 1 .. Cardinality(at) : p[m] = p[n] => m = n
  BY <1>2, <1>3, <1>4, <1>5
<1>7. ASSUME at # {}
      PROVE  p \in Routed
  <2>1. Cardinality(at) # 0
    BY <1>1, <1>7, FS_EmptySet
  <2>2. Cardinality(at) <= NSlots
    <3>1. IsFiniteSet(1 .. NSlots) /\ Cardinality(1 .. NSlots) = NSlots
      BY FS_Interval, SlotArenaAssumption
    <3> DEFINE I == 1 .. NSlots
    <3>2. at \in SUBSET I
      BY <1>3
    <3> HIDE DEF I
    <3>3. IsFiniteSet(I) => Cardinality(at) <= Cardinality(I)
      BY <3>2, FS_Subset
    <3> QED
      BY <3>1, <3>3 DEF I
  <2>3. Cardinality(at) \in 1 .. NSlots
    BY <1>1, <2>1, <2>2
  <2>4. p = [n \in 1 .. Cardinality(at) |-> q[f[n]]]
    BY DEF p, f, Part
  <2>5. p \in [1 .. Cardinality(at) -> Experts]
    BY <1>3, <1>5, <2>4
  <2> QED
    BY <1>4, <1>6, <2>3, <2>5 DEF Routed, RequestsOver
<1> QED
  BY <1>1, <1>4, <1>5, <1>6, <1>7 DEF p, f

\* A request of a segment made for q.
Serves(c, q) ==
  /\ c \in Calls
  /\ c.seg \in Alive
  /\ \A k \in DOMAIN c.keys : \E j \in DOMAIN q : c.keys[k] = q[j]

\* Two requests of segments have no key in common.
Apart(c, d) == \A j \in DOMAIN c.keys, k \in DOMAIN d.keys : c.keys[j] # d.keys[k]

(* A key that hits is asked of the segment that _where gives.              *)
LEMMA HitCallsAre ==
  ASSUME Typed, NEW q \in Routed
  PROVE  LET cs == HitCalls(q)
         IN /\ cs \in Seq(Calls)
            /\ \A n \in DOMAIN cs :
                 /\ Serves(cs[n], q)
                 /\ \A k \in DOMAIN cs[n].keys :
                      where[cs[n].keys[k]] \in Alive /\ where[cs[n].keys[k]] = cs[n].seg
            /\ \A m, n \in DOMAIN cs : m # n => Apart(cs[m], cs[n])
<1> DEFINE F == {k \in HitsAt(q) : k = Lowest(HitsIn(q, where[q[k]]))}
           f == Ascending(F)
           firsts == Part(q, F)
           cs == HitCalls(q)
<1>1. F \subseteq DOMAIN q
  BY DEF HitsAt
<1>2. /\ DOMAIN firsts = 1 .. Cardinality(F)
      /\ Cardinality(F) \in Nat
      /\ \A n \in DOMAIN firsts : f[n] \in F /\ firsts[n] = q[f[n]]
      /\ \A m, n \in DOMAIN firsts : firsts[m] = firsts[n] => m = n
  BY <1>1, PartIs
<1>3. cs = [n \in DOMAIN firsts |-> [seg |-> where[firsts[n]],
                                     keys |-> Part(q, HitsIn(q, where[firsts[n]])),
                                     turn |-> rr]]
  BY DEF HitCalls
<1>4. \A k \in F : /\ k \in DOMAIN q /\ where[q[k]] \in Alive
                   /\ k = Lowest(HitsIn(q, where[q[k]]))
                   /\ HitsIn(q, where[q[k]]) # {}
                   /\ HitsIn(q, where[q[k]]) \subseteq DOMAIN q
  BY DEF HitsAt, HitsIn, IsHit
<1>5. \A i : \A k \in HitsIn(q, i) : where[q[k]] = i
  BY DEF HitsIn
<1>6. \A i \in Alive : i \in Nat
  <2>1. DOMAIN segs = 1 .. Len(segs) /\ Len(segs) \in Nat
    BY LenProperties DEF Typed
  <2> QED
    BY <2>1 DEF Alive
<1>n. rr \in Nat
  BY DEF Typed
<1> HIDE DEF F, f, firsts, cs
<1>7. ASSUME NEW n \in DOMAIN firsts
      PROVE  /\ cs[n] \in Calls /\ cs[n].seg = where[q[f[n]]] /\ cs[n].seg \in Alive
             /\ \A k \in DOMAIN cs[n].keys :
                  /\ where[cs[n].keys[k]] = cs[n].seg
                  /\ \E j \in DOMAIN q : cs[n].keys[k] = q[j]
  <2> DEFINE i == where[q[f[n]]]
             p == Part(q, HitsIn(q, i))
  <2>1. f[n] \in F /\ i \in Alive /\ HitsIn(q, i) # {} /\ HitsIn(q, i) \subseteq DOMAIN q
    BY <1>2, <1>4
  <2>2. cs[n] = [seg |-> i, keys |-> p, turn |-> rr]
    BY <1>2, <1>3
  <2> HIDE DEF i
  <2>3. /\ p \in Routed
        /\ \A k \in DOMAIN p : Ascending(HitsIn(q, i))[k] \in HitsIn(q, i)
                                /\ p[k] = q[Ascending(HitsIn(q, i))[k]]
    BY <2>1, PartIs
  <2> HIDE DEF p
  <2>4. \A k \in DOMAIN p : where[p[k]] = i /\ \E j \in DOMAIN q : p[k] = q[j]
    BY <1>5, <2>1, <2>3
  <2> QED
    BY <1>6, <1>n, <2>1, <2>2, <2>3, <2>4 DEF i, Calls
<1>8. ASSUME NEW m \in DOMAIN firsts, NEW n \in DOMAIN firsts, m # n
      PROVE  Apart(cs[m], cs[n])
  <2>1. cs[m].seg # cs[n].seg
    <3> SUFFICES ASSUME cs[m].seg = cs[n].seg
                 PROVE  FALSE
      OBVIOUS
    <3>1. where[q[f[m]]] = where[q[f[n]]]
      BY <1>7
    <3>2. f[m] = f[n]
      BY <1>2, <1>4, <3>1
    <3> QED
      BY <1>2, <1>8, <3>2
  <2> QED
    BY <1>7, <2>1 DEF Apart
<1>9. DOMAIN cs = DOMAIN firsts
  BY <1>3
<1>10. cs \in [1 .. Cardinality(F) -> Calls]
  BY <1>2, <1>3, <1>7
<1>11. cs \in Seq(Calls)
  BY <1>2, <1>10, ListIs
<1> QED
  BY <1>7, <1>8, <1>9, <1>11 DEF Serves, cs

(* A key that misses is asked of some segment, one at a time.              *)
LEMMA MissCallsAre ==
  ASSUME Typed, NEW q \in Routed, NEW budget \in Nat
  PROVE  LET cs == MissCalls(q, budget)
         IN /\ cs \in Seq(Calls)
            /\ Admitted(q, budget) \in Nat
            /\ \A n \in DOMAIN cs :
                 /\ Serves(cs[n], q)
                 /\ \A k \in DOMAIN cs[n].keys : where[cs[n].keys[k]] \notin Alive
            /\ \A m, n \in DOMAIN cs : m # n => Apart(cs[m], cs[n])
<1> DEFINE M == MissesAt(q)
           p == Part(q, M)
           N == Admitted(q, budget)
           K == Cardinality(Alive)
           cs == MissCalls(q, budget)
           i(n) == Ascending(Alive)[((rr + n) % K) + 1]
<1>1. M \subseteq DOMAIN q
  BY DEF MissesAt
<1>2. /\ Cardinality(M) \in Nat
      /\ DOMAIN p = 1 .. Cardinality(M)
      /\ \A n \in DOMAIN p : Ascending(M)[n] \in M /\ p[n] = q[Ascending(M)[n]]
      /\ \A m, n \in DOMAIN p : p[m] = p[n] => m = n
  BY <1>1, PartIs
<1>3. N \in Nat /\ N <= Cardinality(M) /\ (N # 0 => Alive # {})
  BY <1>2 DEF Admitted
<1>4. cs = [n \in 1 .. N |-> [seg |-> i(n), keys |-> <<p[n]>>, turn |-> (rr + n) % Period]]
  BY DEF MissCalls
<1>5. Alive \subseteq Nat /\ IsFiniteSet(Alive) /\ K \in Nat
  <2>1. DOMAIN segs = 1 .. Len(segs) /\ Len(segs) \in Nat
    BY LenProperties DEF Typed
  <2>2. Alive \subseteq 1 .. Len(segs)
    BY <2>1 DEF Alive
  <2>3. IsFiniteSet(1 .. Len(segs))
    BY <2>1, FS_Interval
  <2>4. IsFiniteSet(Alive)
    BY <2>2, <2>3, FS_Subset
  <2> QED
    BY <2>2, <2>4, FS_CardinalityType
<1>6. \A k \in M : where[q[k]] \notin Alive
  <2>1. \A k \in DOMAIN q : where[q[k]] \in Nat
    BY RequestType DEF Typed
  <2>2. 0 \notin Alive
    <3>1. DOMAIN segs = 1 .. Len(segs)
      BY LenProperties DEF Typed
    <3> QED
      BY <3>1 DEF Alive
  <2> QED
    BY <2>1, <2>2 DEF MissesAt, HitsAt, IsHit
<1>7. ASSUME NEW n \in 1 .. N
      PROVE  i(n) \in Alive /\ i(n) \in Nat
  <2>1. K > 0
    BY <1>3, <1>5, <1>7, FS_EmptySet
  <2>2. rr + n \in Int
    BY <1>3 DEF Typed
  <2>3. (rr + n) % K \in 0 .. K - 1
    <3> DEFINE x == rr + n
    <3> HIDE DEF x
    <3>1. x \in Int
      BY <2>2 DEF x
    <3>2. x % K \in 0 .. K - 1
      BY <1>5, <2>1, <3>1
    <3> QED
      BY <3>2 DEF x
  <2>4. ((rr + n) % K) + 1 \in 1 .. K
    BY <1>5, <2>3
  <2>5. Ascending(Alive) \in [1 .. K -> Alive]
    BY <1>5, AscendingIs
  <2> QED
    BY <1>5, <2>4, <2>5
<1> HIDE DEF M, p, N, K, cs, i
<1>8. ASSUME NEW n \in 1 .. N
      PROVE  /\ cs[n] \in Calls /\ cs[n].seg \in Alive
             /\ DOMAIN cs[n].keys = {1} /\ cs[n].keys[1] = p[n] /\ n \in DOMAIN p
             /\ where[p[n]] \notin Alive
             /\ \E j \in DOMAIN q : p[n] = q[j]
  <2>1. n \in DOMAIN p
    BY <1>2, <1>3
  <2>2. PICK j \in M : p[n] = q[j]
    BY <1>2, <2>1
  <2>3. p[n] \in Experts
    BY <1>1, <2>2, RequestType
  <2>4. <<p[n]>> \in Routed
    <3>1. <<p[n]>> \in [1 .. 1 -> Experts]
      BY <2>3
    <3>2. 1 \in 1 .. NSlots
      BY SlotArenaAssumption
    <3>3. \A x, y \in DOMAIN <<p[n]>> : x = y
      OBVIOUS
    <3> QED
      BY <3>1, <3>2, <3>3 DEF Routed, RequestsOver
  <2> DEFINE x == rr + n
             t == x % Period
  <2>5. cs[n] = [seg |-> i(n), keys |-> <<p[n]>>, turn |-> t]
    BY <1>4
  <2>t. t \in Nat
    <3>1. x \in Int
      BY <1>3 DEF Typed
    <3> HIDE DEF x
    <3> QED
      BY <3>1, SegmentedPoolAssumption
  <2> HIDE DEF t
  <2>6. cs[n].keys = <<p[n]>> /\ cs[n].seg = i(n) /\ cs[n] \in Calls
    BY <1>7, <2>4, <2>5, <2>t DEF Calls
  <2> QED
    BY <1>1, <1>6, <1>7, <2>1, <2>2, <2>6
<1>9. DOMAIN cs = 1 .. N
  BY <1>4
<1>10. \A m, n \in 1 .. N : m # n => Apart(cs[m], cs[n])
  BY <1>2, <1>8 DEF Apart
<1>11. cs \in Seq(Calls)
  <2>1. cs \in [1 .. N -> Calls]
    BY <1>4, <1>8
  <2> QED
    BY <1>3, <2>1, ListIs
<1> QED
  BY <1>3, <1>8, <1>9, <1>10, <1>11 DEF Serves, N, cs

(* What want asks of the segments: each key of the request at most once,   *)
(* and of the segment that has it, if one has.                             *)
LEMMA WantedCallsAre ==
  ASSUME Typed, NEW q \in Routed, NEW budget \in Nat
  PROVE  LET cs == HitCalls(q) \o MissCalls(q, budget)
         IN /\ cs \in Seq(Calls)
            /\ \A n \in DOMAIN cs :
                 /\ Serves(cs[n], q)
                 /\ \A k \in DOMAIN cs[n].keys :
                      where[cs[n].keys[k]] \in Alive => where[cs[n].keys[k]] = cs[n].seg
            /\ \A m, n \in DOMAIN cs : m # n => Apart(cs[m], cs[n])
<1> DEFINE hs == HitCalls(q)
           ms == MissCalls(q, budget)
           cs == hs \o ms
<1>1. /\ hs \in Seq(Calls)
      /\ \A n \in DOMAIN hs :
           /\ Serves(hs[n], q)
           /\ \A k \in DOMAIN hs[n].keys :
                where[hs[n].keys[k]] \in Alive /\ where[hs[n].keys[k]] = hs[n].seg
      /\ \A m, n \in DOMAIN hs : m # n => Apart(hs[m], hs[n])
  BY HitCallsAre
<1>2. /\ ms \in Seq(Calls)
      /\ \A n \in DOMAIN ms :
           /\ Serves(ms[n], q)
           /\ \A k \in DOMAIN ms[n].keys : where[ms[n].keys[k]] \notin Alive
      /\ \A m, n \in DOMAIN ms : m # n => Apart(ms[m], ms[n])
  BY MissCallsAre
<1> HIDE DEF hs, ms
<1>3. /\ DOMAIN hs = 1 .. Len(hs) /\ Len(hs) \in Nat
      /\ DOMAIN ms = 1 .. Len(ms) /\ Len(ms) \in Nat
  BY <1>1, <1>2, LenProperties
<1>4. /\ cs \in Seq(Calls)
      /\ DOMAIN cs = 1 .. Len(hs) + Len(ms)
      /\ \A n \in DOMAIN cs : cs[n] = IF n <= Len(hs) THEN hs[n] ELSE ms[n - Len(hs)]
  <2>1. /\ cs \in Seq(Calls) /\ Len(cs) = Len(hs) + Len(ms)
        /\ \A n \in 1 .. Len(hs) + Len(ms) : cs[n] = IF n <= Len(hs) THEN hs[n] ELSE ms[n - Len(hs)]
    BY <1>1, <1>2, ConcatProperties
  <2>2. DOMAIN cs = 1 .. Len(cs)
    BY <2>1, LenProperties
  <2> QED
    BY <2>1, <2>2
<1> HIDE DEF cs
<1>5. \A n \in DOMAIN cs :
        \/ n \in DOMAIN hs /\ cs[n] = hs[n]
        \/ n \notin DOMAIN hs /\ n - Len(hs) \in DOMAIN ms /\ cs[n] = ms[n - Len(hs)]
  BY <1>3, <1>4
<1>6. ASSUME NEW n \in DOMAIN cs
      PROVE  /\ Serves(cs[n], q)
             /\ \A k \in DOMAIN cs[n].keys :
                  where[cs[n].keys[k]] \in Alive => where[cs[n].keys[k]] = cs[n].seg
  BY <1>1, <1>2, <1>5
<1>7. \A m \in DOMAIN hs, n \in DOMAIN ms : Apart(hs[m], ms[n]) /\ Apart(ms[n], hs[m])
  <2> TAKE m \in DOMAIN hs, n \in DOMAIN ms
  <2>1. \A j \in DOMAIN hs[m].keys : where[hs[m].keys[j]] \in Alive
    BY <1>1
  <2>2. \A k \in DOMAIN ms[n].keys : where[ms[n].keys[k]] \notin Alive
    BY <1>2
  <2> QED
    BY <2>1, <2>2 DEF Apart
<1>8. ASSUME NEW m \in DOMAIN cs, NEW n \in DOMAIN cs, m # n
      PROVE  Apart(cs[m], cs[n])
  <2>1. m - Len(hs) # n - Len(hs)
    BY <1>3, <1>4, <1>8
  <2> QED
    BY <1>1, <1>2, <1>5, <1>7, <1>8, <2>1
<1> QED
  BY <1>4, <1>6, <1>8 DEF cs, hs, ms

-----------------------------------------------------------------------------
(* A segment that is alive is a cache at some position of the list.        *)
LEMMA SegmentIs ==
  ASSUME Typed, NEW i \in Alive
  PROVE  /\ segs[i] \in Caches
         /\ i \in DOMAIN segs
         /\ DOMAIN segs = 1 .. Len(segs)
         /\ i \in Nat
<1>1. DOMAIN segs = 1 .. Len(segs) /\ Len(segs) \in Nat
  BY LenProperties DEF Typed
<1>2. i \in 1 .. Len(segs) /\ segs[i] # Gone
  BY <1>1 DEF Alive
<1>3. segs[i] \in Caches \cup {Gone}
  BY <1>2, ElementOfSeq DEF Typed
<1> QED
  BY <1>1, <1>2, <1>3

(* The call that is served next, and those behind it.                      *)
LEMMA NextCallIs ==
  ASSUME PlaceInv, calls # <<>>
  PROVE  LET c == Head(calls)
         IN /\ c.seg \in Alive
            /\ c.keys \in Routed
            /\ c.turn \in Nat
            /\ Sound(Arena(c.seg))
            /\ \A k \in DOMAIN c.keys : where[c.keys[k]] \in Alive => where[c.keys[k]] = c.seg
            /\ Tail(calls) \in Seq(Calls)
            /\ 1 \in DOMAIN calls /\ c = calls[1]
            /\ \A n \in DOMAIN Tail(calls) :
                 /\ n + 1 \in DOMAIN calls /\ Tail(calls)[n] = calls[n + 1] /\ n + 1 # 1
                 /\ n \in Nat
                 /\ \A j \in DOMAIN c.keys, k \in DOMAIN Tail(calls)[n].keys :
                      c.keys[j] # Tail(calls)[n].keys[k]
<1>1. calls \in Seq(Calls) /\ SoundArenas /\ CallsApart
  BY DEF PlaceInv, Typed
<1>2. DOMAIN calls = 1 .. Len(calls) /\ Len(calls) \in Nat \ {0}
  BY <1>1, LenProperties, EmptySeq
<1>3. /\ Tail(calls) \in Seq(Calls)
      /\ Len(Tail(calls)) = Len(calls) - 1
      /\ \A i \in 1 .. Len(Tail(calls)) : Tail(calls)[i] = calls[i + 1]
  BY <1>1, HeadTailProperties
<1>4. DOMAIN Tail(calls) = 1 .. Len(Tail(calls))
  BY <1>3, LenProperties
<1>5. Head(calls) = calls[1] /\ 1 \in DOMAIN calls /\ calls[1] \in Calls
  <2>1. Head(calls) = calls[1]
    BY <1>1
  <2> QED
    BY <1>1, <1>2, <2>1, ElementOfSeq
<1>6. /\ calls[1].seg \in Alive
      /\ \A k \in DOMAIN calls[1].keys :
           where[calls[1].keys[k]] \in Alive => where[calls[1].keys[k]] = calls[1].seg
  BY <1>1, <1>5 DEF CallsApart
<1>7. \A n \in DOMAIN Tail(calls) :
        n + 1 \in DOMAIN calls /\ Tail(calls)[n] = calls[n + 1] /\ n + 1 # 1 /\ n \in Nat
  BY <1>2, <1>3, <1>4
<1>8. \A n \in DOMAIN calls : n # 1 =>
        \A j \in DOMAIN calls[1].keys, k \in DOMAIN calls[n].keys : calls[1].keys[j] # calls[n].keys[k]
  BY <1>1, <1>5 DEF CallsApart
<1> QED
  BY <1>1, <1>3, <1>5, <1>6, <1>7, <1>8 DEF Calls, SoundArenas

(* What placing changes in the list of segments.                           *)
LEMMA PlaceIs ==
  ASSUME Typed, NEW i \in Alive, Head(calls).seg = i, NEW keys \in Routed, Head(calls).keys = keys,
         step \in Tags, NEW a, Sound(a), NEW c \in Claims(a, keys, step), Place(a, c)
  PROVE  /\ segs' \in Seq(Caches \cup {Gone})
         /\ Alive' = Alive
         /\ DOMAIN segs' = DOMAIN segs
         /\ \A j \in DOMAIN segs : j # i => segs'[j] = segs[j]
         /\ segs'[i] = [arena |-> Wanted(a, keys, step, c), last |-> step, bytes |-> segs[i].bytes]
<1> DEFINE w == Wanted(a, keys, step, c)
           s == [arena |-> w, last |-> step, bytes |-> segs[i].bytes]
<1>1. segs[i] \in Caches /\ i \in DOMAIN segs /\ DOMAIN segs = 1 .. Len(segs)
  BY SegmentIs
<1>2. w \in Arenas
  BY WantedIsSound DEF Sound
<1>3. segs' = [segs EXCEPT ![i].arena = w, ![i].last = step]
  BY DEF Place
<1> HIDE DEF w
<1>4. s \in Caches
  BY <1>1, <1>2 DEF Caches
<1>5. segs' = [segs EXCEPT ![i] = s]
  <2>1. segs' = [segs EXCEPT ![i] = [[@ EXCEPT !.arena = w] EXCEPT !.last = step]]
    BY <1>3
  <2>2. [[segs[i] EXCEPT !.arena = w] EXCEPT !.last = step] = s
    <3> DEFINE r == segs[i]
    <3>1. r \in [arena : Arenas, last : Tags \cup {NoTag}, bytes : [Slots -> Experts \cup {NoExpert}]]
      BY <1>1 DEF Caches
    <3> HIDE DEF r
    <3> DEFINE x == [r EXCEPT !.arena = w]
    <3>2. x = [arena |-> w, last |-> r.last, bytes |-> r.bytes]
      BY <3>1
    <3> HIDE DEF x
    <3>3. [x EXCEPT !.last = step] = [arena |-> w, last |-> step, bytes |-> r.bytes]
      BY <3>2
    <3> QED
      BY <3>3 DEF r, x
  <2> HIDE DEF s
  <2> QED
    BY <2>1, <2>2
<1> HIDE DEF s
<1>6. segs' \in Seq(Caches \cup {Gone})
  BY <1>1, <1>4, <1>5, ExceptSeq DEF Typed
<1>7. DOMAIN segs' = DOMAIN segs /\ segs'[i] = s /\ \A j \in DOMAIN segs : j # i => segs'[j] = segs[j]
  BY <1>1, <1>5
<1>8. s # Gone
  BY <1>4, SegmentedPoolAssumption
<1>9. Alive' = Alive
  BY <1>1, <1>7, <1>8 DEF Alive
<1> QED
  BY <1>6, <1>7, <1>9 DEF s, w

(* A segment serves its request: nobody's row is lost to _where.           *)
LEMMA PlacingKeepsPlaceInv ==
  ASSUME PlaceInv, pc \in {"ask", "stall"}, calls # <<>>,
         NEW a, Sound(a), a.holds = Arena(Head(calls).seg).holds,
         NEW c \in Claims(a, Head(calls).keys, step), Place(a, c),
         recorded' \in [Tags -> Nat \cup {-1}],
         UNCHANGED <<issued, completed, reads>>
  PROVE  PlaceInv'
<1> DEFINE i == Head(calls).seg
           keys == Head(calls).keys
           cs == Tail(calls)
           w == Wanted(a, keys, step, c)
           at == Assigned(a, keys, c)
           Named(key) == \E k \in DOMAIN keys : keys[k] = key
<1>1. Typed /\ SoundArenas /\ WhereCoversResidents /\ CallsApart
  BY DEF PlaceInv
<1>2. /\ i \in Alive /\ i \in Nat /\ keys \in Routed /\ Sound(Arena(i)) /\ step \in Tags
      /\ c \in Claims(a, keys, step)
  BY <1>1, NextCallIs, SegmentIs DEF CallsApart
<1>3. /\ cs \in Seq(Calls)
      /\ \A k \in DOMAIN keys : where[keys[k]] \in Alive => where[keys[k]] = i
      /\ \A n \in DOMAIN cs :
           /\ n + 1 \in DOMAIN calls /\ cs[n] = calls[n + 1] /\ n \in Nat
           /\ \A j \in DOMAIN keys, k \in DOMAIN cs[n].keys : keys[j] # cs[n].keys[k]
  BY NextCallIs
<1>4. /\ segs' \in Seq(Caches \cup {Gone})
      /\ Alive' = Alive
      /\ \A j \in Alive : j # i => segs'[j] = segs[j]
      /\ segs'[i] = [arena |-> w, last |-> step, bytes |-> segs[i].bytes]
  BY <1>1, <1>2, PlaceIs DEF Alive
<1>5. /\ placed' = placed \cup {[key |-> keys[k], seg |-> i, slot |-> at[k]] : k \in DOMAIN keys}
      /\ need' = need \cup ToFill(keys, c)
      /\ where' = [key \in Experts |-> IF Named(key) THEN i ELSE where[key]]
      /\ calls' = cs
      /\ pc' = "ask"
      /\ step' = step
      /\ rr' \in Nat
  BY NextCallIs DEF Place
<1>6. /\ Sound(w)
      /\ \A k \in DOMAIN keys : at[k] \in Slots
      /\ \A s \in Slots : w.holds[s] # NoExpert =>
           w.holds[s] = a.holds[s] \/ Named(w.holds[s])
  <2>1. /\ Sound(w)
        /\ \A k \in DOMAIN keys : at[k] \in Slots
        /\ \A s \in Slots : w.state[s] # "absent" =>
             \/ w.holds[s] = a.holds[s] /\ a.state[s] # "absent"
             \/ \E k \in Misses(a, keys) : w.holds[s] = keys[k]
    BY <1>2, WantIs
  <2>2. \A s \in Slots : w.holds[s] # NoExpert => w.state[s] # "absent"
    BY <2>1 DEF Sound, Agree
  <2>3. Misses(a, keys) \subseteq DOMAIN keys
    BY DEF Misses
  <2> QED
    BY <2>1, <2>2, <2>3
<1>7. \A k \in DOMAIN keys : keys[k] \in Experts
  BY <1>2, RequestType
<1>8. DOMAIN c \subseteq DOMAIN keys
  BY <1>2 DEF Claims, Misses
<1> HIDE DEF i, keys, cs, w, at
<1>9. Typed'
  <2>1. {[key |-> keys[k], seg |-> i, slot |-> at[k]] : k \in DOMAIN keys}
          \subseteq [key : Experts, seg : Nat, slot : Slots]
    BY <1>2, <1>6, <1>7
  <2>2. ToFill(keys, c) \subseteq Experts
    BY <1>7, <1>8 DEF ToFill
  <2>3. where' \in [Experts -> Nat]
    BY <1>1, <1>2, <1>5 DEF Typed
  <2>4. placed' \subseteq [key : Experts, seg : Nat, slot : Slots] /\ need' \subseteq Experts
    BY <1>1, <1>5, <2>1, <2>2 DEF Typed
  <2> QED
    BY <1>1, <1>3, <1>4, <1>5, <2>3, <2>4 DEF Typed
<1>10. SoundArenas'
  <2> SUFFICES ASSUME NEW j \in Alive
               PROVE  Sound(segs'[j].arena)
    BY <1>4 DEF SoundArenas, Arena
  <2>1. CASE j = i
    BY <1>4, <1>6, <2>1
  <2>2. CASE j # i
    BY <1>1, <1>4, <2>2 DEF SoundArenas, Arena
  <2> QED
    BY <2>1, <2>2
<1>11. \A j \in Alive, s \in Slots : Arena(j).holds[s] # NoExpert =>
         Arena(j).holds[s] \in Experts /\ where[Arena(j).holds[s]] = j
  BY <1>1 DEF WhereCoversResidents, SoundArenas, Sound, Arenas, Arena
<1>12. WhereCoversResidents'
  <2> SUFFICES ASSUME NEW j \in Alive, NEW s \in Slots, segs'[j].arena.holds[s] # NoExpert
               PROVE  where'[segs'[j].arena.holds[s]] = j
    BY <1>4 DEF WhereCoversResidents
  <2> DEFINE e == segs'[j].arena.holds[s]
  <2>1. CASE j = i
    <3>1. e = w.holds[s]
      BY <1>4, <2>1
    <3>2. e = a.holds[s] \/ Named(e)
      BY <1>6, <3>1
    <3>3. CASE Named(e)
      BY <1>5, <1>7, <2>1, <3>3
    <3>4. CASE e = a.holds[s] /\ ~Named(e)
      <4>1. e = Arena(i).holds[s]
        BY <3>4 DEF i
      <4>2. e \in Experts /\ where[e] = i
        BY <1>2, <1>11, <4>1
      <4> QED
        BY <1>5, <2>1, <3>4, <4>2
    <3> QED
      BY <3>2, <3>3, <3>4
  <2>2. CASE j # i
    <3>1. e = Arena(j).holds[s]
      BY <1>4, <2>2 DEF Arena
    <3>2. e \in Experts /\ where[e] = j
      BY <1>11, <3>1
    <3> HIDE DEF e
    <3>3. ~Named(e)
      BY <1>3, <2>2, <3>2
    <3> QED
      BY <1>5, <3>2, <3>3 DEF e
  <2> QED
    BY <2>1, <2>2
<1>13. CallsApart'
  <2>1. \A n \in DOMAIN cs : cs[n].seg \in Alive
    BY <1>1, <1>3 DEF CallsApart
  <2>2. \A n \in DOMAIN cs : \A k \in DOMAIN cs[n].keys :
          where'[cs[n].keys[k]] \in Alive => where'[cs[n].keys[k]] = cs[n].seg
    <3> SUFFICES ASSUME NEW n \in DOMAIN cs, NEW k \in DOMAIN cs[n].keys
                 PROVE  where'[cs[n].keys[k]] \in Alive => where'[cs[n].keys[k]] = cs[n].seg
      OBVIOUS
    <3>1. ~Named(cs[n].keys[k])
      BY <1>3
    <3>2. cs[n].keys[k] \in Experts
      <4>1. cs[n] \in Calls
        BY <1>3, LenProperties, ElementOfSeq
      <4> QED
        BY <4>1, RequestType DEF Calls
    <3>3. where'[cs[n].keys[k]] = where[cs[n].keys[k]]
      BY <1>5, <3>1, <3>2
    <3>4. \A m \in DOMAIN calls : \A j \in DOMAIN calls[m].keys :
            where[calls[m].keys[j]] \in Alive => where[calls[m].keys[j]] = calls[m].seg
      BY <1>1 DEF CallsApart
    <3>5. n + 1 \in DOMAIN calls /\ cs[n] = calls[n + 1]
      BY <1>3
    <3> QED
      BY <3>3, <3>4, <3>5
  <2>3. \A m, n \in DOMAIN cs : \A j \in DOMAIN cs[m].keys, k \in DOMAIN cs[n].keys :
          cs[m].keys[j] = cs[n].keys[k] => m = n
    <3> SUFFICES ASSUME NEW m \in DOMAIN cs, NEW n \in DOMAIN cs,
                        NEW j \in DOMAIN cs[m].keys, NEW k \in DOMAIN cs[n].keys,
                        cs[m].keys[j] = cs[n].keys[k]
                 PROVE  m = n
      OBVIOUS
    <3>1. m + 1 = n + 1
      BY <1>1, <1>3 DEF CallsApart
    <3> QED
      BY <1>3, <3>1
  <2>4. Alive' = Alive /\ calls' = cs /\ pc' = "ask" /\ step' \in Tags
    BY <1>2, <1>4, <1>5
  <2> QED
    BY <2>1, <2>2, <2>3, <2>4 DEF CallsApart
<1> QED
  BY <1>9, <1>10, <1>12, <1>13 DEF PlaceInv

(* What the caller learns of tags: recorded, or left alone.                *)
LEMMA RecordIs ==
  ASSUME Typed, NEW rec \in [Tags -> Nat \cup {-1}], NEW t \in Tags
  PROVE  /\ Record(rec, t) \in [Tags -> Nat \cup {-1}]
         /\ \A u \in Tags : Record(rec, t)[u] = IF u = t /\ rec[u] = -1 THEN issued ELSE rec[u]
<1>1. issued \in Nat
  BY DEF Typed
<1> QED
  BY <1>1 DEF Record

(* The arena a segment is asked with: some of what was retiring under tags *)
(* that are done has been released, and nothing else has changed.          *)
Frees(a, b, done) ==
  /\ Sound(b)
  /\ b.holds = a.holds
  /\ b.active = a.active
  /\ \A s \in Slots :
       /\ a.state[s] = "active" <=> b.state[s] = "active"
       /\ b.state[s] = "absent" <=> a.state[s] = "absent"
       /\ a.state[s] = "retiring" /\ a.pending[s] \notin done =>
            b.state[s] = "retiring" /\ b.pending[s] = a.pending[s]
       /\ b.state[s] = "retiring" => a.state[s] = "retiring" /\ b.pending[s] = a.pending[s]

LEMMA SettledFrees ==
  ASSUME NEW a, Sound(a), NEW done \in SUBSET Tags
  PROVE  /\ Frees(a, Settled(a, done), done)
         /\ \A s \in Slots : Settled(a, done).state[s] = "retiring" => a.pending[s] \notin done
<1> DEFINE b == Settled(a, done)
<1>1. Sound(b) /\ b.holds = a.holds
  BY SettledIsSound
<1>2. b.active = a.active
  <2> DEFINE fired == {s \in Slots : a.pending[s] # NoTag /\ a.pending[s] \in done}
             freed == {s \in fired : a.state[s] = "retiring"}
  <2>1. a.active \in [Slots -> Nat] /\ a \in Arenas
    BY DEF Sound, Arenas
  <2>2. b.active = [s \in Slots |-> IF s \in freed THEN 0 ELSE a.active[s]]
    BY <2>1 DEF Settled, Arenas
  <2>3. \A s \in freed : s \in Slots /\ a.active[s] = 0
    BY <2>1 DEF Sound, Agree
  <2> HIDE DEF freed
  <2> QED
    BY <2>1, <2>2, <2>3
<1> QED
  BY <1>1, <1>2, SettleIs DEF Frees

LEMMA ReleasedFrees ==
  ASSUME Typed, NEW i \in Alive, Sound(Arena(i)), NEW rec \in [Tags -> Nat \cup {-1}]
  PROVE  Frees(Arena(i), Released(i, rec), Done(rec))
<1>1. Done(rec) \in SUBSET Tags
  BY DEF Done
<1>2. CASE segs[i].last = NoTag
  BY <1>2 DEF Released, Frees, Arena
<1>3. CASE segs[i].last # NoTag
  BY <1>1, <1>3, SettledFrees DEF Released, Arena
<1> QED
  BY <1>2, <1>3

(* The last tag of a segment is recorded before it is asked.               *)
LEMMA RecordedIs ==
  ASSUME Typed, NEW i \in Alive
  PROVE  LET rec == Recorded(i)
         IN /\ rec \in [Tags -> Nat \cup {-1}]
            /\ segs[i].last # NoTag => rec[segs[i].last] # -1
            /\ \A t \in Tags : \/ rec[t] = recorded[t]
                               \/ t = segs[i].last /\ recorded[t] = -1 /\ rec[t] = issued
<1>1. segs[i].last \in Tags \cup {NoTag}
  BY SegmentIs DEF Caches
<1>2. recorded \in [Tags -> Nat \cup {-1}] /\ issued \in Nat
  BY DEF Typed
<1>3. CASE segs[i].last = NoTag
  BY <1>2, <1>3 DEF Recorded
<1>4. CASE segs[i].last # NoTag
  <2>1. /\ Recorded(i) \in [Tags -> Nat \cup {-1}]
        /\ \A u \in Tags : Recorded(i)[u] =
             IF u = segs[i].last /\ recorded[u] = -1 THEN issued ELSE recorded[u]
    BY <1>1, <1>2, <1>4, RecordIs DEF Recorded
  <2> QED
    BY <1>1, <1>2, <1>4, <2>1
<1> QED
  BY <1>3, <1>4

(* What is left of a segment whose request stalls: its rows, released.     *)
LEMMA StalledIs ==
  ASSUME Typed, NEW i \in Alive, NEW a, Sound(a), segs' = [segs EXCEPT ![i].arena = a]
  PROVE  /\ segs' \in Seq(Caches \cup {Gone})
         /\ Alive' = Alive
         /\ \A j \in Alive : j # i => segs'[j] = segs[j]
         /\ segs'[i] = [arena |-> a, last |-> segs[i].last, bytes |-> segs[i].bytes]
<1> DEFINE s == [arena |-> a, last |-> segs[i].last, bytes |-> segs[i].bytes]
<1>1. segs[i] \in Caches /\ i \in DOMAIN segs /\ DOMAIN segs = 1 .. Len(segs)
  BY SegmentIs
<1>2. a \in Arenas
  BY DEF Sound
<1>3. s \in Caches
  BY <1>1, <1>2 DEF Caches
<1>4. segs' = [segs EXCEPT ![i] = s]
  <2> DEFINE r == segs[i]
  <2>1. r \in [arena : Arenas, last : Tags \cup {NoTag}, bytes : [Slots -> Experts \cup {NoExpert}]]
    BY <1>1 DEF Caches
  <2>2. segs' = [segs EXCEPT ![i] = [r EXCEPT !.arena = a]]
    BY <1>1
  <2> HIDE DEF r
  <2>3. [r EXCEPT !.arena = a] = [arena |-> a, last |-> r.last, bytes |-> r.bytes]
    BY <2>1
  <2> QED
    BY <2>2, <2>3 DEF r
<1> HIDE DEF s
<1>5. segs' \in Seq(Caches \cup {Gone})
  <2>1. [segs EXCEPT ![i] = s] \in Seq(Caches \cup {Gone})
    BY <1>1, <1>3, ExceptSeq DEF Typed
  <2> QED
    BY <1>4, <2>1
<1>6. DOMAIN segs' = DOMAIN segs /\ segs'[i] = s /\ \A j \in DOMAIN segs : j # i => segs'[j] = segs[j]
  BY <1>1, <1>4
<1>7. s # Gone
  BY <1>3, SegmentedPoolAssumption
<1>8. Alive' = Alive
  BY <1>1, <1>6, <1>7 DEF Alive
<1> QED
  BY <1>5, <1>6, <1>8 DEF s, Alive

\* The request is not served: it waits, or it raises.
Unserved ==
  \/ pc' = "stall" /\ UNCHANGED <<calls, placed, need, rr>>
  \/ pc' = "idle" /\ calls' = <<>> /\ placed' = {} /\ need' = {} /\ rr' = Head(calls).turn

LEMMA UnservedKeepsPlaceInv ==
  ASSUME PlaceInv, pc \in {"ask", "stall"}, calls # <<>>,
         NEW a, Sound(a), a.holds = Arena(Head(calls).seg).holds,
         segs' = [segs EXCEPT ![Head(calls).seg].arena = a],
         Unserved,
         recorded' \in [Tags -> Nat \cup {-1}],
         UNCHANGED <<where, step, issued, completed, reads>>
  PROVE  PlaceInv'
<1> DEFINE i == Head(calls).seg
<1>1. Typed /\ SoundArenas /\ WhereCoversResidents /\ CallsApart
  BY DEF PlaceInv
<1>2. i \in Alive
  BY <1>1, NextCallIs
<1>3. /\ segs' \in Seq(Caches \cup {Gone})
      /\ Alive' = Alive
      /\ \A j \in Alive : j # i => segs'[j] = segs[j]
      /\ segs'[i] = [arena |-> a, last |-> segs[i].last, bytes |-> segs[i].bytes]
  BY <1>1, <1>2, StalledIs
<1>4. a.holds = Arena(i).holds
  OBVIOUS
<1> HIDE DEF i
<1>5. Typed'
  <2>1. rr' \in Nat
    BY <1>1, NextCallIs DEF Typed, Unserved
  <2>2. /\ pc' \in {"idle", "ask", "stall", "commit"}
        /\ calls' \in Seq(Calls)
        /\ placed' \subseteq [key : Experts, seg : Nat, slot : Slots]
        /\ need' \subseteq Experts
    BY <1>1, EmptySeq DEF Typed, Unserved
  <2> QED
    BY <1>1, <1>3, <2>1, <2>2 DEF Typed
<1>6. \A j \in Alive : Sound(segs'[j].arena) /\ segs'[j].arena.holds = segs[j].arena.holds
  <2> TAKE j \in Alive
  <2>1. CASE j = i
    BY <1>3, <1>4, <2>1 DEF Arena
  <2>2. CASE j # i
    BY <1>1, <1>3, <2>2 DEF SoundArenas, Arena
  <2> QED
    BY <2>1, <2>2
<1>7. SoundArenas'
  BY <1>3, <1>6 DEF SoundArenas, Arena
<1>8. WhereCoversResidents'
  BY <1>1, <1>3, <1>6 DEF WhereCoversResidents
<1>9. CallsApart'
  <2>1. CASE pc' = "stall" /\ UNCHANGED calls
    BY <1>1, <1>3, <2>1 DEF CallsApart
  <2>2. CASE pc' = "idle" /\ calls' = <<>>
    BY <2>2 DEF CallsApart
  <2> QED
    BY <2>1, <2>2 DEF Unserved
<1> QED
  BY <1>5, <1>7, <1>8, <1>9 DEF PlaceInv

LEMMA AskKeepsPlaceInv == PlaceInv /\ Ask => PlaceInv'
<1> SUFFICES ASSUME PlaceInv, Ask
             PROVE  PlaceInv'
  OBVIOUS
<1> DEFINE i == Head(calls).seg
           a == Released(i, Recorded(i))
<1>1. /\ pc = "ask" /\ calls # <<>>
      /\ recorded' = Recorded(i)
      /\ \/ \E c \in Claims(a, Head(calls).keys, step) : Place(a, c)
         \/ /\ Claims(a, Head(calls).keys, step) = {}
            /\ segs' = [segs EXCEPT ![i].arena = a]
            /\ Unserved
            /\ UNCHANGED <<where, step>>
      /\ UNCHANGED <<issued, completed, reads>>
  BY DEF Ask, streamVars, Unserved
<1>2. Typed /\ i \in Alive /\ Sound(Arena(i))
  BY <1>1, NextCallIs DEF PlaceInv
<1>3. Recorded(i) \in [Tags -> Nat \cup {-1}]
  BY <1>2, RecordedIs
<1>4. Sound(a) /\ a.holds = Arena(i).holds
  BY <1>2, <1>3, ReleasedFrees DEF Frees
<1> HIDE DEF a
<1>5. CASE \E c \in Claims(a, Head(calls).keys, step) : Place(a, c)
  BY <1>1, <1>3, <1>4, <1>5, PlacingKeepsPlaceInv
<1>6. CASE segs' = [segs EXCEPT ![i].arena = a] /\ Unserved /\ UNCHANGED <<where, step>>
  BY <1>1, <1>3, <1>4, <1>6, UnservedKeepsPlaceInv
<1> QED
  BY <1>1, <1>5, <1>6

LEMMA StallKeepsPlaceInv == PlaceInv /\ Stall => PlaceInv'
<1> SUFFICES ASSUME PlaceInv, Stall
             PROVE  PlaceInv'
  OBVIOUS
<1> DEFINE i == Head(calls).seg
           a == Settled(Arena(i), Done(recorded))
<1>1. /\ pc = "stall"
      /\ \/ \E c \in Claims(a, Head(calls).keys, step) : Place(a, c)
         \/ /\ segs' = [segs EXCEPT ![i].arena = a]
            /\ Unserved
            /\ UNCHANGED <<where, step>>
      /\ UNCHANGED <<recorded, issued, completed, reads>>
  BY DEF Stall, streamVars, Arena, Raise, Leave, Unserved
<1>2. calls # <<>> /\ recorded \in [Tags -> Nat \cup {-1}]
  BY <1>1 DEF PlaceInv, CallsApart, Typed
<1>3. Sound(Arena(i))
  BY <1>2, NextCallIs
<1>4. Done(recorded) \in SUBSET Tags
  BY DEF Done
<1>5. Sound(a) /\ a.holds = Arena(i).holds
  BY <1>3, <1>4, SettledFrees DEF Frees
<1> HIDE DEF a
<1>6. CASE \E c \in Claims(a, Head(calls).keys, step) : Place(a, c)
  BY <1>1, <1>2, <1>5, <1>6, PlacingKeepsPlaceInv
<1>7. CASE segs' = [segs EXCEPT ![i].arena = a] /\ Unserved /\ UNCHANGED <<where, step>>
  BY <1>1, <1>2, <1>5, <1>7, UnservedKeepsPlaceInv
<1> QED
  BY <1>1, <1>6, <1>7

LEMMA WantKeepsPlaceInv ==
  ASSUME PlaceInv, NEW q \in Requests, NEW budget \in Budgets, Want(q, budget)
  PROVE  PlaceInv'
<1> DEFINE cs == HitCalls(q) \o MissCalls(q, budget)
<1>1. /\ pc = "idle" /\ step < MaxClock /\ step' = step + 1
      /\ calls' = cs /\ pc' = "ask"
      /\ UNCHANGED <<segs, where, rr, placed, need, recorded, issued, completed, reads>>
  BY DEF Want, poolVars, streamVars
<1>2. Typed /\ SoundArenas /\ WhereCoversResidents
  BY DEF PlaceInv
<1>3. q \in Routed /\ budget \in Nat
  BY SlotArenaAssumption, SegmentedPoolAssumption DEF Routed
<1>4. /\ cs \in Seq(Calls)
      /\ \A n \in DOMAIN cs :
           /\ Serves(cs[n], q)
           /\ \A k \in DOMAIN cs[n].keys :
                where[cs[n].keys[k]] \in Alive => where[cs[n].keys[k]] = cs[n].seg
      /\ \A m, n \in DOMAIN cs : m # n => Apart(cs[m], cs[n])
  BY <1>2, <1>3, WantedCallsAre
<1> HIDE DEF cs
<1>6. step' \in Tags /\ step' \in 0 .. MaxClock
  BY <1>1, <1>2, SlotArenaAssumption, SegmentedPoolAssumption DEF Typed
<1>8. Typed'
  BY <1>1, <1>2, <1>4, <1>6 DEF Typed
<1>9. Alive' = Alive
  BY <1>1 DEF Alive
<1>10. SoundArenas' /\ WhereCoversResidents'
  BY <1>1, <1>2, <1>9 DEF SoundArenas, WhereCoversResidents, Arena
<1>11. CallsApart'
  BY <1>1, <1>4, <1>6, <1>9 DEF CallsApart, Serves, Apart
<1> QED
  BY <1>8, <1>10, <1>11 DEF PlaceInv

(* The caller fills the rows it was told to, and nothing else.             *)
LEMMA GatherIs ==
  ASSUME Typed, Gather
  PROVE  /\ segs' \in Seq(Caches \cup {Gone})
         /\ Alive' = Alive
         /\ \A i \in Alive :
              segs'[i] = [arena |-> segs[i].arena, last |-> segs[i].last, bytes |-> Filled(i)]
<1> DEFINE Kind(i) == [arena |-> segs[i].arena, last |-> segs[i].last, bytes |-> Filled(i)]
<1>1. segs' = [i \in DOMAIN segs |-> IF i \in Alive THEN [segs[i] EXCEPT !.bytes = Filled(i)] ELSE Gone]
  BY DEF Gather
<1>2. \A i \in Alive : Filled(i) \in [Slots -> Experts \cup {NoExpert}]
  <2> SUFFICES ASSUME NEW i \in Alive, NEW s \in Slots
               PROVE  LET fresh == {p \in placed : p.seg = i /\ p.slot = s /\ p.key \in need}
                      IN (IF fresh = {} THEN segs[i].bytes[s] ELSE (CHOOSE p \in fresh : TRUE).key)
                           \in Experts \cup {NoExpert}
    BY DEF Filled
  <2> DEFINE fresh == {p \in placed : p.seg = i /\ p.slot = s /\ p.key \in need}
  <2>1. segs[i].bytes[s] \in Experts \cup {NoExpert}
    BY SegmentIs DEF Caches
  <2>2. fresh # {} => (CHOOSE p \in fresh : TRUE) \in fresh
    OBVIOUS
  <2>3. \A p \in fresh : p.key \in Experts
    BY DEF Typed
  <2> HIDE DEF fresh
  <2>4. (IF fresh = {} THEN segs[i].bytes[s] ELSE (CHOOSE p \in fresh : TRUE).key)
          \in Experts \cup {NoExpert}
    BY <2>1, <2>2, <2>3
  <2> QED
    BY <2>4 DEF fresh
<1>3. ASSUME NEW i \in Alive
      PROVE  segs'[i] = Kind(i) /\ Kind(i) \in Caches /\ i \in DOMAIN segs
  <2> DEFINE r == segs[i]
  <2>1. r \in [arena : Arenas, last : Tags \cup {NoTag}, bytes : [Slots -> Experts \cup {NoExpert}]]
    BY SegmentIs DEF Caches
  <2>2. i \in DOMAIN segs
    BY SegmentIs
  <2>3. segs'[i] = [r EXCEPT !.bytes = Filled(i)]
    BY <1>1, <2>2
  <2> HIDE DEF r
  <2>4. [r EXCEPT !.bytes = Filled(i)] = [arena |-> r.arena, last |-> r.last, bytes |-> Filled(i)]
    BY <2>1
  <2>5. [arena |-> r.arena, last |-> r.last, bytes |-> Filled(i)] \in Caches
    BY <1>2, <2>1 DEF Caches
  <2> QED
    BY <2>2, <2>3, <2>4, <2>5 DEF r
<1> HIDE DEF Kind
<1>4. DOMAIN segs' = DOMAIN segs /\ \A i \in DOMAIN segs : i \notin Alive => segs'[i] = Gone
  BY <1>1
<1>5. \A i \in DOMAIN segs : segs'[i] \in Caches \cup {Gone}
  BY <1>3, <1>4
<1>6. DOMAIN segs = 1 .. Len(segs) /\ Len(segs) \in Nat
  BY LenProperties DEF Typed
<1>7. segs' \in Seq(Caches \cup {Gone})
  <2>1. segs' = [i \in 1 .. Len(segs) |-> segs'[i]]
    BY <1>1, <1>4, <1>6
  <2>2. segs' \in [1 .. Len(segs) -> Caches \cup {Gone}]
    BY <1>5, <1>6, <2>1
  <2> QED
    BY <1>6, <2>2, ListIs
<1>8. \A i \in Alive : Kind(i) # Gone
  BY <1>3, SegmentedPoolAssumption
<1>9. Alive' = Alive
  BY <1>3, <1>4, <1>8 DEF Alive
<1> QED
  BY <1>3, <1>7, <1>9 DEF Kind

LEMMA GatherKeepsPlaceInv == PlaceInv /\ Gather => PlaceInv'
<1> SUFFICES ASSUME PlaceInv, Gather
             PROVE  PlaceInv'
  OBVIOUS
<1>1. Typed /\ SoundArenas /\ WhereCoversResidents /\ CallsApart
  BY DEF PlaceInv
<1>2. /\ segs' \in Seq(Caches \cup {Gone})
      /\ Alive' = Alive
      /\ \A i \in Alive : segs'[i].arena = segs[i].arena
  <2>1. /\ segs' \in Seq(Caches \cup {Gone})
        /\ Alive' = Alive
        /\ \A i \in Alive :
             segs'[i] = [arena |-> segs[i].arena, last |-> segs[i].last, bytes |-> Filled(i)]
    BY <1>1, GatherIs
  <2>2. ASSUME NEW i \in Alive
        PROVE  segs'[i].arena = segs[i].arena
    <3>1. segs'[i] = [arena |-> segs[i].arena, last |-> segs[i].last, bytes |-> Filled(i)]
      BY <2>1
    <3> QED
      BY <3>1
  <2> QED
    BY <2>1, <2>2
<1>3. /\ pc = "ask" /\ pc' = "commit" /\ calls = <<>> /\ calls' = <<>>
      /\ issued' = issued + 1
      /\ reads' = reads \cup {[at |-> issued + 1, seg |-> p.seg, slot |-> p.slot, key |-> p.key] :
                                p \in placed}
      /\ UNCHANGED <<where, rr, step, placed, need, recorded, completed>>
  BY DEF Gather
<1>4. Typed'
  <2>1. {[at |-> issued + 1, seg |-> p.seg, slot |-> p.slot, key |-> p.key] : p \in placed}
          \subseteq [at : Nat, seg : Nat, slot : Slots, key : Experts]
    BY <1>1 DEF Typed
  <2>2. issued' \in Nat /\ completed' \in 0 .. issued'
    BY <1>1, <1>3 DEF Typed
  <2> QED
    BY <1>1, <1>2, <1>3, <2>1, <2>2 DEF Typed
<1>5. SoundArenas' /\ WhereCoversResidents'
  BY <1>1, <1>2, <1>3 DEF SoundArenas, WhereCoversResidents, Arena
<1>6. CallsApart'
  <2>1. DOMAIN calls' = {}
    BY <1>3
  <2> QED
    BY <1>1, <1>3, <2>1 DEF CallsApart
<1> QED
  BY <1>4, <1>5, <1>6 DEF PlaceInv

\* Steps of the caller and the stream that leave the pool alone.
LEMMA ElsewhereKeepsPlaceInv ==
  ASSUME PlaceInv, Commit \/ Abandon \/ Execute
  PROVE  PlaceInv'
<1>1. Typed /\ SoundArenas /\ WhereCoversResidents /\ CallsApart
  BY DEF PlaceInv
<1>2. /\ segs' = segs /\ where' = where /\ rr' = rr /\ step' = step
      /\ recorded' \in [Tags -> Nat \cup {-1}]
      /\ \/ /\ pc' = "idle" /\ calls' = <<>> /\ placed' = {} /\ need' = {}
            /\ UNCHANGED <<issued, completed, reads>>
         \/ /\ UNCHANGED <<pc, calls, placed, need, issued>>
            /\ completed < issued /\ completed' = completed + 1
            /\ reads' = {r \in reads : r.at > completed + 1}
  <2>1. CASE Commit
    <3>1. step \in Tags
      BY <1>1, <2>1 DEF Commit, CallsApart
    <3>2. Record(recorded, step) \in [Tags -> Nat \cup {-1}]
      BY <1>1, <3>1, RecordIs DEF Typed
    <3> QED
      BY <2>1, <3>2 DEF Commit, Leave, poolVars, streamVars
  <2>2. CASE Abandon
    BY <1>1, <2>2 DEF Abandon, Leave, poolVars, streamVars, Typed
  <2>3. CASE Execute
    BY <1>1, <2>3 DEF Execute, poolVars, callVars, Typed
  <2> QED
    BY <2>1, <2>2, <2>3
<1>3. Alive' = Alive
  BY <1>2 DEF Alive
<1>4. SoundArenas' /\ WhereCoversResidents'
  BY <1>1, <1>2, <1>3 DEF SoundArenas, WhereCoversResidents, Arena
<1>5. CASE pc' = "idle" /\ calls' = <<>> /\ placed' = {} /\ need' = {}
            /\ UNCHANGED <<issued, completed, reads>>
  <2>1. Typed'
    BY <1>1, <1>2, <1>5, EmptySeq DEF Typed
  <2>2. CallsApart'
    BY <1>5 DEF CallsApart
  <2> QED
    BY <1>4, <2>1, <2>2 DEF PlaceInv
<1>6. CASE /\ UNCHANGED <<pc, calls, placed, need, issued>>
           /\ completed < issued /\ completed' = completed + 1
           /\ reads' = {r \in reads : r.at > completed + 1}
  <2>1. Typed'
    BY <1>1, <1>2, <1>6 DEF Typed
  <2>2. CallsApart'
    BY <1>1, <1>2, <1>3, <1>6 DEF CallsApart
  <2> QED
    BY <1>4, <2>1, <2>2 DEF PlaceInv
<1> QED
  BY <1>2, <1>5, <1>6

(* The doomed segments leave the list; the others stay as they are.        *)
LEMMA ShrinkIs ==
  ASSUME Typed, NEW n \in Nat, Shrink(n)
  PROVE  LET doomed == Emptiest(n)
         IN /\ segs' \in Seq(Caches \cup {Gone})
            /\ Alive' = Alive \ doomed
            /\ \A i \in Alive' : segs'[i] = segs[i]
            /\ where' = [key \in Experts |-> IF where[key] \in doomed THEN 0 ELSE where[key]]
            /\ recorded' \in [Tags -> Nat \cup {-1}]
            /\ \A t \in Tags :
                 \/ recorded'[t] = recorded[t]
                 \/ /\ recorded[t] = -1 /\ recorded'[t] = issued
                    /\ \E i \in Alive : t = segs[i].last
<1> DEFINE doomed == Emptiest(n)
           rec == [t \in Tags |-> IF t \in LastTags(doomed) THEN Record(recorded, t)[t]
                                                            ELSE recorded[t]]
<1>1. /\ recorded' = rec
      /\ segs' = [i \in DOMAIN segs |-> IF i \in doomed THEN Gone ELSE segs[i]]
      /\ where' = [key \in Experts |-> IF where[key] \in doomed THEN 0 ELSE where[key]]
  BY DEF Shrink
<1>2. doomed \subseteq Alive
  BY DEF Emptiest
<1>3. recorded \in [Tags -> Nat \cup {-1}] /\ issued \in Nat
  BY DEF Typed
<1>4. \A t \in Tags : /\ rec[t] \in Nat \cup {-1}
                      /\ \/ rec[t] = recorded[t]
                         \/ t \in LastTags(doomed) /\ recorded[t] = -1 /\ rec[t] = issued
  <2> TAKE t \in Tags
  <2>1. Record(recorded, t)[t] = IF recorded[t] = -1 THEN issued ELSE recorded[t]
    BY <1>3, RecordIs
  <2>2. rec[t] = IF t \in LastTags(doomed) THEN Record(recorded, t)[t] ELSE recorded[t]
    OBVIOUS
  <2> HIDE DEF rec
  <2> QED
    BY <1>3, <2>1, <2>2
<1>5. \A t \in LastTags(doomed) : \E i \in Alive : t = segs[i].last
  BY <1>2 DEF LastTags
<1>6. rec = [t \in Tags |-> rec[t]]
  OBVIOUS
<1> HIDE DEF doomed, rec
<1>7. recorded' \in [Tags -> Nat \cup {-1}]
  BY <1>1, <1>4, <1>6
<1>8. DOMAIN segs = 1 .. Len(segs) /\ Len(segs) \in Nat
  BY LenProperties DEF Typed
<1>9. \A i \in DOMAIN segs : segs[i] \in Caches \cup {Gone}
  BY <1>8, ElementOfSeq DEF Typed
<1>10. segs' \in Seq(Caches \cup {Gone})
  <2>1. segs' \in [1 .. Len(segs) -> Caches \cup {Gone}]
    BY <1>1, <1>8, <1>9
  <2> QED
    BY <1>8, <2>1, ListIs
<1>11. Alive' = Alive \ doomed /\ \A i \in Alive \ doomed : segs'[i] = segs[i]
  BY <1>1 DEF Alive
<1> QED
  BY <1>1, <1>4, <1>5, <1>7, <1>10, <1>11 DEF doomed

LEMMA ShrinkKeepsPlaceInv ==
  ASSUME PlaceInv, NEW n \in Nat, Shrink(n)
  PROVE  PlaceInv'
<1> DEFINE doomed == Emptiest(n)
<1>1. Typed /\ SoundArenas /\ WhereCoversResidents /\ CallsApart
  BY DEF PlaceInv
<1>2. /\ segs' \in Seq(Caches \cup {Gone})
      /\ Alive' = Alive \ doomed
      /\ \A i \in Alive' : segs'[i] = segs[i]
      /\ where' = [key \in Experts |-> IF where[key] \in doomed THEN 0 ELSE where[key]]
      /\ recorded' \in [Tags -> Nat \cup {-1}]
  BY <1>1, ShrinkIs
<1>3. /\ pc = "idle" /\ calls = <<>>
      /\ UNCHANGED <<rr, pc, step, calls, placed, need, issued, completed, reads>>
  BY <1>1 DEF Shrink, callVars, streamVars, CallsApart
<1> HIDE DEF doomed
<1>4. Typed'
  <2>1. where' \in [Experts -> Nat]
    BY <1>1, <1>2 DEF Typed
  <2> QED
    BY <1>1, <1>2, <1>3, <2>1 DEF Typed
<1>5. SoundArenas'
  BY <1>1, <1>2 DEF SoundArenas, Arena
<1>6. WhereCoversResidents'
  <2> SUFFICES ASSUME NEW i \in Alive', NEW s \in Slots, segs'[i].arena.holds[s] # NoExpert
               PROVE  where'[segs'[i].arena.holds[s]] = i
    BY DEF WhereCoversResidents
  <2> DEFINE e == segs[i].arena.holds[s]
  <2>1. i \in Alive /\ i \notin doomed /\ segs'[i].arena.holds[s] = e
    BY <1>2
  <2>2. where[e] = i
    BY <1>1, <2>1 DEF WhereCoversResidents
  <2>3. e \in Experts
    BY <1>1, <2>1 DEF SoundArenas, Sound, Arenas, Arena
  <2> HIDE DEF e
  <2> QED
    BY <1>2, <2>1, <2>2, <2>3
<1>7. CallsApart'
  BY <1>3 DEF CallsApart
<1> QED
  BY <1>4, <1>5, <1>6, <1>7 DEF PlaceInv

(* A finite set of numbers has a greatest one.                             *)
LEMMA GreatestIs ==
  ASSUME NEW S, S \subseteq Nat, IsFiniteSet(S), S # {}
  PROVE  \E g \in S : \A x \in S : x <= g
<1> DEFINE Above(i) == {j \in S : i < j}
           sizes == {Cardinality(Above(i)) : i \in S}
<1>1. \A i \in S : IsFiniteSet(Above(i)) /\ Cardinality(Above(i)) \in Nat
  <2> TAKE i \in S
  <2>1. Above(i) \in SUBSET S
    OBVIOUS
  <2> HIDE DEF Above
  <2>2. IsFiniteSet(Above(i))
    BY <2>1, FS_Subset
  <2> QED
    BY <2>2, FS_CardinalityType
<1>2. sizes \subseteq Nat /\ sizes # {}
  BY <1>1
<1>3. Lowest(sizes) \in sizes /\ \A m \in sizes : Lowest(sizes) <= m
  <2> HIDE DEF sizes
  <2> QED
    BY <1>2, LowestIs
<1>4. PICK g \in S : \A i \in S : Cardinality(Above(g)) <= Cardinality(Above(i))
  BY <1>3
<1>5. ASSUME NEW x \in S, ~(x <= g)
      PROVE  FALSE
  <2>1. x \in Above(g) /\ Above(x) \subseteq Above(g) \ {x}
    <3>1. x \in Nat /\ g \in Nat /\ g < x
      BY <1>5
    <3>2. \A j \in Above(x) : j \in S /\ g < j /\ j # x
      BY <3>1
    <3> QED
      BY <3>1, <3>2
  <2> HIDE DEF Above
  <2>2. /\ IsFiniteSet(Above(g) \ {x})
        /\ Cardinality(Above(g) \ {x}) = Cardinality(Above(g)) - 1
    BY <1>1, <2>1, FS_RemoveElement
  <2>3. Cardinality(Above(x)) <= Cardinality(Above(g) \ {x})
    BY <2>1, <2>2, FS_Subset
  <2>4. Cardinality(Above(g)) <= Cardinality(Above(x))
    BY <1>4
  <2> QED
    BY <1>1, <2>2, <2>3, <2>4
<1> QED
  BY <1>5

(* The first n of a set of numbers are at most n.                          *)
LEMMA FirstAreFew ==
  ASSUME NEW S, S \subseteq Nat, IsFiniteSet(S), NEW n \in Nat
  PROVE  LET first == {i \in S : Cardinality({j \in S : j < i}) < n}
         IN IsFiniteSet(first) /\ Cardinality(first) \in Nat /\ Cardinality(first) <= n
<1> DEFINE first == {i \in S : Cardinality({j \in S : j < i}) < n}
           k == Cardinality(first)
<1>1. IsFiniteSet(first) /\ first \subseteq S
  BY FS_Subset
<1>2. k \in Nat
  BY <1>1, FS_CardinalityType
<1>3. CASE first = {}
  <2>1. k = 0
    BY <1>3, FS_EmptySet
  <2> QED
    BY <1>1, <2>1
<1>4. CASE first # {}
  <2>1. PICK g \in first : \A i \in first : i <= g
    BY <1>1, <1>4, GreatestIs
  <2> DEFINE below == {j \in S : j < g}
  <2>2. Cardinality(below) < n
    BY <2>1
  <2>3. IsFiniteSet(below) /\ first \ {g} \in SUBSET below
    <3>1. \A i \in first : i \in S /\ i \in Nat
      BY <1>1
    <3>2. \A i \in first : i # g => i < g
      BY <2>1, <3>1
    <3> HIDE DEF first
    <3>3. first \ {g} \in SUBSET below /\ below \in SUBSET S
      BY <3>1, <3>2
    <3> QED
      BY <3>3, FS_Subset
  <2> HIDE DEF first, below
  <2>4. Cardinality(first \ {g}) = k - 1
    BY <1>1, <2>1, FS_RemoveElement
  <2>5. Cardinality(first \ {g}) <= Cardinality(below) /\ Cardinality(below) \in Nat
    BY <2>3, FS_Subset, FS_CardinalityType
  <2>6. k <= n
    BY <1>2, <2>2, <2>4, <2>5
  <2> QED
    BY <1>1, <1>2, <2>6 DEF first
<1> QED
  BY <1>3, <1>4

(* New segments come up empty; the others stay as they are.                *)
LEMMA GrowIs ==
  ASSUME Typed, NEW n \in Nat, Grow(n)
  PROVE  /\ segs' \in Seq(Caches \cup {Gone})
         /\ Alive \subseteq Alive'
         /\ \A i \in Alive : segs'[i] = segs[i]
         /\ \A i \in Alive' \ Alive : segs'[i] = NewSegment
<1> DEFINE gaps == DOMAIN segs \ Alive
           taken == {i \in gaps : Cardinality({j \in gaps : j < i}) < n}
           more == n - Cardinality(taken)
<1>1. segs' = [i \in 1 .. Len(segs) + more |->
                 IF i \in taken \/ i > Len(segs) THEN NewSegment ELSE segs[i]]
  BY DEF Grow
<1>2. DOMAIN segs = 1 .. Len(segs) /\ Len(segs) \in Nat
  BY LenProperties DEF Typed
<1>3. gaps \subseteq Nat /\ IsFiniteSet(gaps)
  <2>1. IsFiniteSet(1 .. Len(segs)) /\ gaps \in SUBSET (1 .. Len(segs))
    BY <1>2, FS_Interval
  <2>2. IsFiniteSet(gaps)
    BY <2>1, FS_Subset
  <2> QED
    BY <1>2, <2>2
<1>4. taken \subseteq gaps
  OBVIOUS
<1>5. more \in Nat
  <2> HIDE DEF gaps
  <2>1. Cardinality(taken) \in Nat /\ Cardinality(taken) <= n
    BY <1>3, FirstAreFew
  <2> HIDE DEF taken
  <2> QED
    BY <2>1
<1>6. gaps \cap Alive = {} /\ gaps \cup Alive = DOMAIN segs
  BY DEF Alive
<1> HIDE DEF taken, gaps, more
<1>7. NewSegment \in Caches
  <2>1. EmptyArena \in Arenas
    BY EmptyIsSound DEF Sound
  <2> QED
    BY <2>1 DEF NewSegment, Caches
<1>8. NewSegment # Gone
  BY <1>7, SegmentedPoolAssumption
<1> DEFINE m == Len(segs) + more
<1>9. m \in Nat /\ Len(segs) <= m
  BY <1>2, <1>5
<1> HIDE DEF m
<1>10. /\ DOMAIN segs' = 1 .. m
       /\ \A i \in 1 .. m : segs'[i] = IF i \in taken \/ i > Len(segs) THEN NewSegment ELSE segs[i]
  BY <1>1 DEF m
<1>11. \A i \in DOMAIN segs : segs[i] \in Caches \cup {Gone}
  BY <1>2, ElementOfSeq DEF Typed
<1>12. segs' \in Seq(Caches \cup {Gone})
  <2>1. \A i \in 1 .. m : segs'[i] \in Caches \cup {Gone}
    BY <1>2, <1>7, <1>9, <1>10, <1>11
  <2>2. segs' = [i \in 1 .. m |-> segs'[i]]
    BY <1>1 DEF m
  <2>3. segs' \in [1 .. m -> Caches \cup {Gone}]
    BY <2>1, <2>2
  <2> QED
    BY <1>9, <2>3, ListIs
<1>13. \A i \in Alive : i \in 1 .. m /\ i \notin taken /\ ~(i > Len(segs)) /\ segs[i] # Gone
  BY <1>2, <1>4, <1>6, <1>9 DEF Alive
<1>14. Alive \subseteq Alive' /\ \A i \in Alive : segs'[i] = segs[i]
  BY <1>10, <1>13 DEF Alive
<1>15. ASSUME NEW i \in Alive', i \notin Alive
       PROVE  segs'[i] = NewSegment
  <2>1. i \in 1 .. m /\ segs'[i] # Gone
    BY <1>10 DEF Alive
  <2>2. CASE i \in DOMAIN segs
    <3>1. segs[i] = Gone
      BY <1>15, <2>2 DEF Alive
    <3> QED
      BY <1>10, <2>1, <3>1
  <2>3. CASE i \notin DOMAIN segs
    BY <1>2, <1>9, <1>10, <2>1, <2>3
  <2> QED
    BY <2>2, <2>3
<1> QED
  BY <1>12, <1>14, <1>15

LEMMA GrowKeepsPlaceInv ==
  ASSUME PlaceInv, NEW n \in Nat, Grow(n)
  PROVE  PlaceInv'
<1>1. Typed /\ SoundArenas /\ WhereCoversResidents /\ CallsApart
  BY DEF PlaceInv
<1>2. /\ segs' \in Seq(Caches \cup {Gone})
      /\ Alive \subseteq Alive'
      /\ \A i \in Alive : segs'[i] = segs[i]
      /\ \A i \in Alive' \ Alive : segs'[i] = NewSegment
  BY <1>1, GrowIs
<1>3. /\ pc = "idle" /\ calls = <<>>
      /\ UNCHANGED <<where, rr, pc, step, calls, placed, need, recorded, issued, completed, reads>>
  BY <1>1 DEF Grow, callVars, streamVars, CallsApart
<1>4. Typed'
  BY <1>1, <1>2, <1>3 DEF Typed
<1>5. NewSegment.arena = EmptyArena /\ \A s \in Slots : EmptyArena.holds[s] = NoExpert
  BY DEF NewSegment, EmptyArena
<1>6. SoundArenas'
  <2> SUFFICES ASSUME NEW i \in Alive'
               PROVE  Sound(segs'[i].arena)
    BY DEF SoundArenas, Arena
  <2>1. CASE i \in Alive
    BY <1>1, <1>2, <2>1 DEF SoundArenas, Arena
  <2>2. CASE i \notin Alive
    BY <1>2, <1>5, <2>2, EmptyIsSound
  <2> QED
    BY <2>1, <2>2
<1>7. WhereCoversResidents'
  <2> SUFFICES ASSUME NEW i \in Alive', NEW s \in Slots, segs'[i].arena.holds[s] # NoExpert
               PROVE  where'[segs'[i].arena.holds[s]] = i
    BY DEF WhereCoversResidents
  <2>1. i \in Alive
    BY <1>2, <1>5
  <2> QED
    BY <1>1, <1>2, <1>3, <2>1 DEF WhereCoversResidents
<1>8. CallsApart'
  BY <1>3 DEF CallsApart
<1> QED
  BY <1>4, <1>6, <1>7, <1>8 DEF PlaceInv

LEMMA InitHasPlaceInv == Init => PlaceInv
<1> SUFFICES ASSUME Init
             PROVE  PlaceInv
  OBVIOUS
<1>1. /\ segs = [i \in 1 .. Segments |-> NewSegment]
      /\ where = [key \in Experts |-> 0] /\ rr = 0 /\ pc = "idle" /\ step = 0 /\ calls = <<>>
      /\ placed = {} /\ need = {} /\ recorded = [t \in Tags |-> -1]
      /\ issued = 0 /\ completed = 0 /\ reads = {}
  BY DEF Init
<1>2. NewSegment \in Caches
  BY EmptyIsSound DEF NewSegment, Caches, Sound
<1>3. segs \in Seq(Caches \cup {Gone})
  <2>1. segs \in [1 .. Segments -> Caches \cup {Gone}] /\ Segments \in Nat
    BY <1>1, <1>2, SegmentedPoolAssumption
  <2> QED
    BY <2>1, ListIs
<1>4. Typed
  BY <1>1, <1>3, EmptySeq, SlotArenaAssumption DEF Typed
<1>5. \A i \in Alive : Arena(i) = EmptyArena
  BY <1>1 DEF Alive, Arena, NewSegment
<1>6. SoundArenas
  BY <1>5, EmptyIsSound DEF SoundArenas
<1>7. WhereCoversResidents
  BY <1>5 DEF WhereCoversResidents, Arena, EmptyArena
<1>8. CallsApart
  BY <1>1 DEF CallsApart
<1> QED
  BY <1>4, <1>6, <1>7, <1>8 DEF PlaceInv

LEMMA NextKeepsPlaceInv == PlaceInv /\ [Next]_vars => PlaceInv'
<1> SUFFICES ASSUME PlaceInv, [Next]_vars
             PROVE  PlaceInv'
  OBVIOUS
<1>1. ASSUME NEW q \in Requests, NEW budget \in Budgets, Want(q, budget)
      PROVE  PlaceInv'
  BY <1>1, WantKeepsPlaceInv
<1>2. CASE Ask
  BY <1>2, AskKeepsPlaceInv
<1>3. CASE Stall
  BY <1>3, StallKeepsPlaceInv
<1>4. CASE Gather
  BY <1>4, GatherKeepsPlaceInv
<1>5. CASE Commit \/ Abandon \/ Execute
  BY <1>5, ElsewhereKeepsPlaceInv
<1>6. ASSUME NEW n \in 1 .. MaxSegments, Shrink(n) \/ Grow(n)
      PROVE  PlaceInv'
  BY <1>6, ShrinkKeepsPlaceInv, GrowKeepsPlaceInv
<1>7. CASE UNCHANGED vars
  BY <1>7 DEF vars, poolVars, callVars, streamVars, PlaceInv, Typed, SoundArenas, Arena, Alive,
              WhereCoversResidents, CallsApart
<1> QED
  BY <1>1, <1>2, <1>3, <1>4, <1>5, <1>6, <1>7 DEF Next

LEMMA PlaceInvariance == Spec => []PlaceInv
<1> QED
  BY InitHasPlaceInv, NextKeepsPlaceInv, PTL DEF Spec

(* Whatever is asked of the pool, in whatever order, shrinks and growths   *)
(* between: no key has rows in two segments, and _where knows the one.     *)
THEOREM OneSegmentPerKey == Spec => []WhereCoversResidents
<1>1. PlaceInv => WhereCoversResidents
  BY DEF PlaceInv
<1> QED
  BY <1>1, PlaceInvariance, PTL

-----------------------------------------------------------------------------
\* The keys of a request that the segments have been or will be asked for.
KeysOf(n) == {calls[n].keys[k] : k \in DOMAIN calls[n].keys}

Asked == {p.key : p \in placed} \cup UNION {KeysOf(n) : n \in DOMAIN calls}

RequestFits ==
  /\ pc = "idle" => placed = {} /\ need = {}
  /\ IsFiniteSet(Asked)
  /\ Cardinality(Asked) <= Protected
  /\ Cardinality(Asked) <= NSlots - Protected

WithinBudget == \A i \in Alive : Cardinality(ActiveSlots(Arena(i))) <= Protected

TagsInOrder ==
  /\ \A t \in Tags : t > step => recorded[t] = -1
  /\ \A t \in Tags : recorded[t] <= issued
  /\ \A i \in Alive : segs[i].last <= step
  /\ pc \in {"ask", "stall"} => recorded[step] \in {-1, issued}

(* What is retiring in a segment waits for a tag that has been recorded or *)
(* that will be before the segment is asked again.                         *)
TagWillBeRecorded ==
  /\ \A i \in Alive, s \in Slots :
       Arena(i).state[s] = "retiring" =>
         Arena(i).pending[s] = segs[i].last \/ recorded[Arena(i).pending[s]] # -1
  /\ pc = "stall" =>
       \A s \in Slots :
         Arena(Head(calls).seg).state[s] = "retiring" =>
           recorded[Arena(Head(calls).seg).pending[s]] # -1

RoomInv == RequestFits /\ WithinBudget /\ TagsInOrder /\ TagWillBeRecorded

\* A tag is recorded when it was not, with the gathers issued by then.
Remembers ==
  /\ recorded' \in [Tags -> Nat \cup {-1}]
  /\ \A t \in Tags : \/ recorded'[t] = recorded[t]
                     \/ t <= step /\ recorded[t] = -1 /\ recorded'[t] = issued

(* As many keys as a request has, it asks for.                             *)
LEMMA KeysCounted ==
  ASSUME NEW q \in Routed, NEW S, IsFiniteSet(S), \A k \in DOMAIN q : q[k] \in S
  PROVE  Cardinality(DOMAIN q) <= Cardinality(S)
<1> DEFINE E == {q[k] : k \in DOMAIN q}
           g == [e \in E |-> CHOOSE k \in DOMAIN q : q[k] = e]
<1>1. \A j, k \in DOMAIN q : q[j] = q[k] => j = k
  BY RequestType
<1>2. \A k \in DOMAIN q : q[k] \in E /\ g[q[k]] = k
  BY <1>1
<1>3. \A e \in E : g[e] \in DOMAIN q
  OBVIOUS
<1>4. DOMAIN g = E /\ E \subseteq S
  OBVIOUS
<1> HIDE DEF E, g
<1>5. DOMAIN q = {g[e] : e \in E}
  BY <1>2, <1>3
<1>6. IsFiniteSet(E) /\ Cardinality(E) <= Cardinality(S)
  BY <1>4, FS_Subset
<1>7. Cardinality({g[e] : e \in E}) <= Cardinality(E)
  BY <1>4, <1>6, ImageBound
<1>8. Cardinality(DOMAIN q) \in Nat /\ Cardinality(E) \in Nat /\ Cardinality(S) \in Nat
  BY <1>6, RequestFinite, FS_CardinalityType
<1> QED
  BY <1>5, <1>6, <1>7, <1>8

(* Once every row that was retiring in the segment has been released, the  *)
(* protected rows and the request have room beside each other.             *)
LEMMA ReleasedIsEnough ==
  ASSUME PlaceInv, RoomInv, calls # <<>>, NEW done \in SUBSET Tags,
         \A s \in Slots : Arena(Head(calls).seg).state[s] = "retiring" =>
           Arena(Head(calls).seg).pending[s] \in done
  PROVE  Claims(Settled(Arena(Head(calls).seg), done), Head(calls).keys, step) # {}
<1> DEFINE i == Head(calls).seg
           keys == Head(calls).keys
           a == Settled(Arena(i), done)
<1>1. RequestFits /\ WithinBudget
  BY DEF RoomInv
<1>2. /\ i \in Alive /\ keys \in Routed /\ Sound(Arena(i))
      /\ 1 \in DOMAIN calls /\ Head(calls) = calls[1]
  BY NextCallIs
<1>3. /\ Frees(Arena(i), a, done)
      /\ \A s \in Slots : a.state[s] = "retiring" => Arena(i).pending[s] \notin done
  BY <1>2, SettledFrees
<1>4. \A k \in DOMAIN keys : keys[k] \in Asked
  BY <1>2 DEF Asked, KeysOf
<1>5. Cardinality(DOMAIN keys) <= Cardinality(Asked)
  BY <1>1, <1>2, <1>4, KeysCounted DEF RequestFits
<1> HIDE DEF a, keys
<1>6. \A s \in Slots : a.state[s] # "retiring"
  BY <1>3 DEF Frees
<1> HIDE DEF i
<1>7. Cardinality(ActiveSlots(a)) <= Protected
  <2>1. ActiveSlots(a) = ActiveSlots(Arena(i))
    BY <1>3 DEF Frees, ActiveSlots
  <2> QED
    BY <1>1, <1>2, <2>1 DEF WithinBudget
<1>8. /\ Cardinality(ActiveSlots(a)) \in Nat /\ Cardinality(DOMAIN keys) \in Nat
      /\ Cardinality(Asked) \in Nat /\ Protected \in Nat /\ NSlots \in Nat
  BY <1>1, <1>2, SlotsCounted, RequestFinite, FS_CardinalityType, SlotArenaAssumption
     DEF ActiveSlots, RequestFits
<1>9. Cardinality(ActiveSlots(a)) + Cardinality(DOMAIN keys) <= NSlots
  BY <1>1, <1>5, <1>7, <1>8 DEF RequestFits
<1>10. Sound(a)
  BY <1>3 DEF Frees
<1> QED
  BY <1>2, <1>6, <1>9, <1>10, RoomIsEnough DEF a, i, keys

(* Both ways to ask a segment: of the rows that were retiring some are     *)
(* released, the others wait for a recorded tag; then the request is       *)
(* placed or stalls.  It does not raise.                                   *)
LEMMA ServeIs ==
  ASSUME PlaceInv, RoomInv, Ask \/ Stall
  PROVE  LET i == Head(calls).seg
         IN /\ pc \in {"ask", "stall"} /\ calls # <<>> /\ i \in Alive
            /\ Remembers
            /\ UNCHANGED <<step, issued, completed, reads>>
            /\ \E a : /\ Frees(Arena(i), a, Done(recorded'))
                      /\ \A s \in Slots : a.state[s] = "retiring" => recorded'[a.pending[s]] # -1
                      /\ \/ \E c \in Claims(a, Head(calls).keys, step) : Place(a, c)
                         \/ /\ pc = "ask" /\ pc' = "stall"
                            /\ segs' = [segs EXCEPT ![i].arena = a]
                            /\ UNCHANGED <<where, calls, placed, need>>
<1> DEFINE i == Head(calls).seg
<1>1. Typed /\ CallsApart /\ TagsInOrder /\ TagWillBeRecorded
  BY DEF PlaceInv, RoomInv
<1>2. calls # <<>>
  BY <1>1 DEF Ask, Stall, CallsApart
<1>3. i \in Alive /\ Sound(Arena(i))
  BY <1>2, NextCallIs
<1>4. /\ \A s \in Slots : Arena(i).pending[s] \in Tags \cup {NoTag}
      /\ \A s \in Slots : Arena(i).state[s] = "retiring" => Arena(i).pending[s] # NoTag
  BY <1>3 DEF Sound, Arenas, Agree
<1>5. segs[i].last \in Tags \cup {NoTag} /\ segs[i].last <= step
  BY <1>1, <1>3, SegmentIs DEF Caches, TagsInOrder
<1> HIDE DEF i
<1>6. CASE Ask
  <2> DEFINE a == Released(i, Recorded(i))
  <2>1. /\ Recorded(i) \in [Tags -> Nat \cup {-1}]
        /\ segs[i].last # NoTag => Recorded(i)[segs[i].last] # -1
        /\ \A t \in Tags : \/ Recorded(i)[t] = recorded[t]
                           \/ t = segs[i].last /\ recorded[t] = -1 /\ Recorded(i)[t] = issued
    BY <1>1, <1>3, RecordedIs
  <2>2. recorded' = Recorded(i)
    BY <1>6 DEF Ask, i
  <2>3. Remembers
    BY <1>5, <2>1, <2>2 DEF Remembers
  <2>4. Frees(Arena(i), a, Done(recorded'))
    <3>1. Frees(Arena(i), a, Done(Recorded(i)))
      BY <1>1, <1>3, <2>1, ReleasedFrees
    <3>2. Done(recorded') = Done(Recorded(i))
      BY <2>2 DEF Done
    <3> HIDE DEF a
    <3> QED
      BY <3>1, <3>2
  <2>5. /\ pc = "ask"
        /\ \/ \E c \in Claims(a, Head(calls).keys, step) : Place(a, c)
           \/ /\ segs' = [segs EXCEPT ![i].arena = a]
              /\ pc' = "stall"
              /\ UNCHANGED <<where, step, calls, placed, need>>
        /\ UNCHANGED <<issued, completed, reads>>
    BY <1>6 DEF Ask, i, streamVars
  <2> HIDE DEF a
  <2>6. ASSUME NEW s \in Slots, a.state[s] = "retiring"
        PROVE  recorded'[a.pending[s]] # -1
    <3> DEFINE t == Arena(i).pending[s]
    <3>1. Arena(i).state[s] = "retiring" /\ a.pending[s] = t
      BY <2>4, <2>6 DEF Frees
    <3>2. t \in Tags
      BY <1>4, <3>1
    <3>3. t = segs[i].last \/ recorded[t] # -1
      BY <1>1, <1>3, <3>1 DEF TagWillBeRecorded
    <3> HIDE DEF t
    <3>4. CASE t = segs[i].last
      BY <1>4, <2>1, <2>2, <3>1, <3>4 DEF t
    <3>5. CASE t # segs[i].last
      BY <2>1, <2>2, <3>1, <3>2, <3>3, <3>5
    <3> QED
      BY <3>4, <3>5
  <2>7. step' = step
    BY <2>5 DEF Place
  <2> QED
    BY <1>2, <1>3, <2>3, <2>4, <2>5, <2>6, <2>7 DEF i
<1>7. CASE Stall
  <2> DEFINE a == Settled(Arena(i), Done(recorded))
  <2>1. /\ pc = "stall" /\ recorded' = recorded
        /\ \/ \E c \in Claims(a, Head(calls).keys, step) : Place(a, c)
           \/ Claims(a, Head(calls).keys, step) = {}
        /\ \A s \in Slots : Arena(i).pending[s] # NoTag => recorded[Arena(i).pending[s]] <= completed
        /\ UNCHANGED <<issued, completed, reads>>
    BY <1>7 DEF Stall, i, streamVars, Arena, Raise
  <2>2. Remembers
    BY <1>1, <2>1 DEF Remembers, Typed
  <2>3. Frees(Arena(i), a, Done(recorded'))
    <3>1. Done(recorded) \in SUBSET Tags
      BY DEF Done
    <3>2. Done(recorded') = Done(recorded)
      BY <2>1 DEF Done
    <3>3. Frees(Arena(i), a, Done(recorded))
      BY <1>3, <3>1, SettledFrees
    <3> HIDE DEF a
    <3> QED
      BY <3>2, <3>3
  <2>4. Claims(a, Head(calls).keys, step) # {}
    <3>1. ASSUME NEW s \in Slots, Arena(i).state[s] = "retiring"
          PROVE  Arena(i).pending[s] \in Done(recorded)
      <4> DEFINE t == Arena(i).pending[s]
      <4>1. t \in Tags /\ recorded[t] # -1
        BY <1>1, <1>4, <2>1, <3>1 DEF TagWillBeRecorded, i
      <4>2. recorded[t] <= completed
        BY <1>4, <2>1, <3>1
      <4> HIDE DEF t
      <4>3. recorded[t] \in Nat \cup {-1} /\ completed \in Nat
        BY <1>1, <4>1 DEF Typed
      <4> QED
        BY <4>1, <4>2, <4>3 DEF Done, t
    <3>2. Done(recorded) \in SUBSET Tags
      BY DEF Done
    <3> QED
      BY <1>2, <3>1, <3>2, ReleasedIsEnough DEF i
  <2> HIDE DEF a
  <2>5. \A s \in Slots : a.state[s] = "retiring" => recorded'[a.pending[s]] # -1
    BY <1>1, <2>1, <2>3 DEF Frees, TagWillBeRecorded, i
  <2>6. \E c \in Claims(a, Head(calls).keys, step) : Place(a, c)
    BY <2>1, <2>4
  <2>7. step' = step
    BY <2>6 DEF Place
  <2> QED
    BY <1>2, <1>3, <2>1, <2>2, <2>3, <2>5, <2>6, <2>7 DEF i
<1> QED
  BY <1>6, <1>7

LEMMA AskedBound ==
  ASSUME NEW S, IsFiniteSet(S), Cardinality(S) <= Protected, Cardinality(S) <= NSlots - Protected,
         Asked' \subseteq S, pc' = "idle" => placed' = {} /\ need' = {}
  PROVE  RequestFits'
<1> DEFINE T == Asked'
<1>1. T \in SUBSET S
  OBVIOUS
<1> HIDE DEF T
<1>2. IsFiniteSet(T) /\ Cardinality(T) <= Cardinality(S)
  BY <1>1, FS_Subset
<1>3. Cardinality(T) \in Nat /\ Cardinality(S) \in Nat /\ Protected \in Nat /\ NSlots \in Nat
  BY <1>2, FS_CardinalityType, SlotArenaAssumption
<1>4. Cardinality(T) <= Protected /\ Cardinality(T) <= NSlots - Protected
  BY <1>2, <1>3
<1> QED
  BY <1>2, <1>4 DEF RequestFits, T

LEMMA ServeKeepsRoomInv ==
  ASSUME PlaceInv, RoomInv, Ask \/ Stall
  PROVE  RoomInv'
<1> DEFINE i == Head(calls).seg
           keys == Head(calls).keys
<1>1. /\ Typed /\ SoundArenas /\ CallsApart
      /\ RequestFits /\ WithinBudget /\ TagsInOrder /\ TagWillBeRecorded
  BY DEF PlaceInv, RoomInv
<1>2. /\ pc \in {"ask", "stall"} /\ calls # <<>> /\ i \in Alive
      /\ Remembers
      /\ UNCHANGED <<step, issued, completed, reads>>
  BY ServeIs
<1>3. PICK a : /\ Frees(Arena(i), a, Done(recorded'))
               /\ \A s \in Slots : a.state[s] = "retiring" => recorded'[a.pending[s]] # -1
               /\ \/ \E c \in Claims(a, keys, step) : Place(a, c)
                  \/ /\ pc = "ask" /\ pc' = "stall"
                     /\ segs' = [segs EXCEPT ![i].arena = a]
                     /\ UNCHANGED <<where, calls, placed, need>>
  BY ServeIs
<1>4. /\ keys \in Routed /\ 1 \in DOMAIN calls /\ Head(calls) = calls[1]
      /\ \A n \in DOMAIN Tail(calls) : n + 1 \in DOMAIN calls /\ Tail(calls)[n] = calls[n + 1]
  BY <1>2, NextCallIs
<1>5. step \in Tags /\ Sound(a)
  BY <1>1, <1>2, <1>3 DEF CallsApart, Frees
<1>6. Protected \in Nat /\ step \in Nat /\ issued \in Nat
  BY <1>1, SlotArenaAssumption DEF Typed
<1>7. \A t \in Tags : recorded[t] # -1 => recorded'[t] # -1
  BY <1>2 DEF Remembers
<1>8. \A j \in Alive, s \in Slots : Arena(j).state[s] = "retiring" => Arena(j).pending[s] \in Tags
  BY <1>1 DEF SoundArenas, Sound, Arenas, Agree
<1>9. /\ \A t \in Tags : (t > step => recorded'[t] = -1) /\ recorded'[t] <= issued
      /\ recorded'[step] \in {-1, issued}
  <2>1. ASSUME NEW t \in Tags
        PROVE  (t > step => recorded'[t] = -1) /\ recorded'[t] <= issued
    <3>1. t \in Nat
      BY SegmentedPoolAssumption, SlotArenaAssumption
    <3>2. recorded[t] <= issued /\ (t > step => recorded[t] = -1)
      BY <1>1 DEF TagsInOrder
    <3>3. \/ recorded'[t] = recorded[t]
          \/ t <= step /\ recorded'[t] = issued
      BY <1>2 DEF Remembers
    <3> QED
      BY <1>6, <3>1, <3>2, <3>3
  <2>2. recorded'[step] \in {-1, issued}
    BY <1>1, <1>2, <1>5 DEF TagsInOrder, Remembers
  <2> QED
    BY <2>1, <2>2
<1>10. CASE \E c \in Claims(a, keys, step) : Place(a, c)
  <2>1. PICK c \in Claims(a, keys, step) : Place(a, c)
    BY <1>10
  <2> DEFINE w == Wanted(a, keys, step, c)
             at == Assigned(a, keys, c)
  <2>2. /\ Alive' = Alive
        /\ \A j \in Alive : j # i => segs'[j] = segs[j]
        /\ segs'[i] = [arena |-> w, last |-> step, bytes |-> segs[i].bytes]
    BY <1>1, <1>2, <1>4, <1>5, <2>1, PlaceIs DEF Alive
  <2>3. /\ placed' = placed \cup {[key |-> keys[k], seg |-> i, slot |-> at[k]] : k \in DOMAIN keys}
        /\ calls' = Tail(calls)
        /\ pc' = "ask"
    BY <2>1 DEF Place
  <2>4. /\ \/ Cardinality(ActiveSlots(w)) <= Protected
           \/ Cardinality(ActiveSlots(w)) <= Cardinality(DOMAIN keys)
        /\ \A s \in Slots : w.state[s] = "retiring" =>
             \/ w.pending[s] = step
             \/ a.state[s] = "retiring" /\ w.pending[s] = a.pending[s]
        /\ Sound(w)
    BY <1>4, <1>5, WantIs
  <2> HIDE DEF w, at, i, keys
  <2>5. Asked' \subseteq Asked
    <3>1. \A k \in DOMAIN keys : keys[k] \in Asked
      BY <1>4 DEF Asked, KeysOf, keys
    <3>2. \A n \in DOMAIN Tail(calls) : {Tail(calls)[n].keys[k] : k \in DOMAIN Tail(calls)[n].keys} \subseteq Asked
      BY <1>4 DEF Asked, KeysOf
    <3>3. {p.key : p \in placed'} \subseteq Asked
      BY <2>3, <3>1 DEF Asked
    <3>4. UNION {KeysOf(n)' : n \in DOMAIN calls'} \subseteq Asked
      BY <2>3, <3>2 DEF KeysOf
    <3> QED
      BY <3>3, <3>4 DEF Asked
  <2>6. RequestFits'
    BY <1>1, <2>3, <2>5, AskedBound DEF RequestFits
  <2>7. Cardinality(DOMAIN keys) <= Protected
    <3>1. \A k \in DOMAIN keys : keys[k] \in Asked
      BY <1>4 DEF Asked, KeysOf, keys
    <3>2. Cardinality(DOMAIN keys) <= Cardinality(Asked)
      BY <1>1, <1>4, <3>1, KeysCounted DEF RequestFits, keys
    <3>3. Cardinality(DOMAIN keys) \in Nat /\ Cardinality(Asked) \in Nat
      BY <1>1, <1>4, RequestFinite, FS_CardinalityType DEF RequestFits, keys
    <3> QED
      BY <1>1, <1>6, <3>2, <3>3 DEF RequestFits
  <2>8. WithinBudget'
    <3> SUFFICES ASSUME NEW j \in Alive
                 PROVE  Cardinality(ActiveSlots(segs'[j].arena)) <= Protected
      BY <2>2 DEF WithinBudget, Arena
    <3>1. CASE j = i
      <4>1. Cardinality(ActiveSlots(w)) \in Nat
        BY SlotsCounted DEF ActiveSlots
      <4>2. Cardinality(DOMAIN keys) \in Nat
        BY <1>4, RequestFinite DEF keys
      <4>3. Cardinality(ActiveSlots(w)) <= Protected
        BY <1>6, <2>4, <2>7, <4>1, <4>2
      <4> QED
        BY <2>2, <3>1, <4>3
    <3>2. CASE j # i
      BY <1>1, <2>2, <3>2 DEF WithinBudget, Arena
    <3> QED
      BY <3>1, <3>2
  <2>9. TagsInOrder'
    <3>1. \A j \in Alive : segs'[j].last <= step
      BY <1>1, <1>6, <2>2 DEF TagsInOrder
    <3>2. step' = step /\ issued' = issued /\ Alive' = Alive
      BY <1>2, <2>2
    <3> QED
      BY <1>9, <3>1, <3>2 DEF TagsInOrder
  <2>10. TagWillBeRecorded'
    <3> SUFFICES ASSUME NEW j \in Alive, NEW s \in Slots, segs'[j].arena.state[s] = "retiring"
                 PROVE  \/ segs'[j].arena.pending[s] = segs'[j].last
                        \/ recorded'[segs'[j].arena.pending[s]] # -1
      BY <2>2, <2>3 DEF TagWillBeRecorded, Arena
    <3>1. CASE j = i
      BY <1>3, <2>2, <2>4, <3>1
    <3>2. CASE j # i
      BY <1>1, <1>7, <1>8, <2>2, <3>2 DEF TagWillBeRecorded, Arena
    <3> QED
      BY <3>1, <3>2
  <2> QED
    BY <2>6, <2>8, <2>9, <2>10 DEF RoomInv
<1>11. CASE /\ pc = "ask" /\ pc' = "stall"
            /\ segs' = [segs EXCEPT ![i].arena = a]
            /\ UNCHANGED <<where, calls, placed, need>>
  <2>1. /\ Alive' = Alive
        /\ \A j \in Alive : j # i => segs'[j] = segs[j]
        /\ segs'[i] = [arena |-> a, last |-> segs[i].last, bytes |-> segs[i].bytes]
    BY <1>1, <1>2, <1>5, <1>11, StalledIs
  <2>2. i' = i
    BY <1>11
  <2> HIDE DEF i, keys
  <2>3. RequestFits'
    <3>1. Asked' = Asked
      BY <1>11 DEF Asked, KeysOf
    <3> QED
      BY <1>1, <1>11, <3>1, AskedBound DEF RequestFits
  <2>4. ActiveSlots(a) = ActiveSlots(Arena(i))
    BY <1>3 DEF Frees, ActiveSlots
  <2>5. WithinBudget'
    <3> SUFFICES ASSUME NEW j \in Alive
                 PROVE  Cardinality(ActiveSlots(segs'[j].arena)) <= Protected
      BY <2>1 DEF WithinBudget, Arena
    <3>1. CASE j = i
      BY <1>1, <1>2, <2>1, <2>4, <3>1 DEF WithinBudget
    <3>2. CASE j # i
      BY <1>1, <2>1, <3>2 DEF WithinBudget, Arena
    <3> QED
      BY <3>1, <3>2
  <2>6. TagsInOrder'
    <3>1. \A j \in Alive : segs'[j].last <= step
      BY <1>1, <2>1 DEF TagsInOrder
    <3>2. step' = step /\ issued' = issued /\ Alive' = Alive
      BY <1>2, <2>1
    <3> QED
      BY <1>9, <3>1, <3>2 DEF TagsInOrder
  <2>7. ASSUME NEW j \in Alive, NEW s \in Slots, segs'[j].arena.state[s] = "retiring"
        PROVE  \/ segs'[j].arena.pending[s] = segs'[j].last
               \/ recorded'[segs'[j].arena.pending[s]] # -1
    <3>1. CASE j = i
      BY <1>3, <2>1, <2>7, <3>1
    <3>2. CASE j # i
      BY <1>1, <1>7, <1>8, <2>1, <2>7, <3>2 DEF TagWillBeRecorded, Arena
    <3> QED
      BY <3>1, <3>2
  <2>8. \A s \in Slots : segs'[i].arena.state[s] = "retiring" =>
          recorded'[segs'[i].arena.pending[s]] # -1
    BY <1>3, <2>1
  <2>9. TagWillBeRecorded'
    <3>1. Head(calls') = Head(calls) /\ i = Head(calls).seg
      BY <1>11 DEF i
    <3> QED
      BY <2>1, <2>7, <2>8, <3>1 DEF TagWillBeRecorded, Arena
  <2> QED
    BY <2>3, <2>5, <2>6, <2>9 DEF RoomInv
<1> QED
  BY <1>3, <1>10, <1>11

\* A request fits twice: among the protected rows and beside them.
LEMMA FitsIs ==
  ASSUME Fits, NEW q \in Requests, Len(q) \in Nat
  PROVE  Len(q) <= Protected /\ Len(q) <= NSlots - Protected
<1>1. NSlots \in Nat /\ RoutedSize \in Nat \ {0} /\ NSlots > RoutedSize
  BY SlotArenaAssumption, SegmentedPoolAssumption DEF Fits
<1>2. Protected = NSlots - RoutedSize
  BY <1>1, SegmentedPoolAssumption
<1> QED
  BY <1>1, <1>2 DEF Fits

LEMMA WantKeepsRoomInv ==
  ASSUME Fits, PlaceInv, RoomInv, NEW q \in Requests, NEW budget \in Budgets, Want(q, budget)
  PROVE  RoomInv'
<1> DEFINE cs == HitCalls(q) \o MissCalls(q, budget)
           S == {q[k] : k \in DOMAIN q}
<1>1. /\ pc = "idle" /\ step < MaxClock /\ step' = step + 1
      /\ calls' = cs /\ pc' = "ask"
      /\ UNCHANGED <<segs, where, placed, need, recorded, issued>>
  BY DEF Want, poolVars, streamVars
<1>2. Typed /\ RequestFits /\ WithinBudget /\ TagsInOrder /\ TagWillBeRecorded
  BY DEF PlaceInv, RoomInv
<1>3. q \in Routed /\ budget \in Nat
  BY SlotArenaAssumption, SegmentedPoolAssumption DEF Routed
<1>4. \A n \in DOMAIN cs : Serves(cs[n], q)
  BY <1>2, <1>3, WantedCallsAre
<1>5. IsFiniteSet(S) /\ Cardinality(S) <= Protected /\ Cardinality(S) <= NSlots - Protected
  <2>1. PICK m \in 1 .. NSlots : q \in [1 .. m -> Experts]
    BY <1>3 DEF Routed, RequestsOver
  <2>2. m \in Nat /\ Len(q) = m
    BY <2>1, ListIs, SlotArenaAssumption
  <2>3. m <= Protected /\ m <= NSlots - Protected
    BY <2>2, FitsIs
  <2>4. DOMAIN q = 1 .. m
    BY <2>1
  <2>5. IsFiniteSet(1 .. m) /\ Cardinality(1 .. m) = m
    BY <2>2, FS_Interval
  <2>6. IsFiniteSet({q[k] : k \in 1 .. m}) /\ Cardinality({q[k] : k \in 1 .. m}) <= Cardinality(1 .. m)
    BY <2>4, <2>5, ImageBound
  <2>7. IsFiniteSet(S) /\ Cardinality(S) <= m
    BY <2>4, <2>5, <2>6
  <2>8. Cardinality(S) \in Nat /\ Protected \in Nat /\ NSlots \in Nat
    BY <2>7, FS_CardinalityType, SlotArenaAssumption
  <2> HIDE DEF S
  <2> QED
    BY <2>2, <2>3, <2>7, <2>8
<1>6. Asked' \subseteq S
  <2>1. placed' = {}
    BY <1>1, <1>2 DEF RequestFits
  <2>2. \A n \in DOMAIN cs : {cs[n].keys[k] : k \in DOMAIN cs[n].keys} \subseteq S
    BY <1>4 DEF Serves
  <2> HIDE DEF cs, S
  <2> QED
    BY <1>1, <2>1, <2>2 DEF Asked, KeysOf
<1> HIDE DEF cs, S
<1>7. RequestFits'
  BY <1>1, <1>5, <1>6, AskedBound
<1>8. Alive' = Alive
  BY <1>1 DEF Alive
<1>9. WithinBudget' /\ TagWillBeRecorded'
  BY <1>1, <1>2, <1>8 DEF WithinBudget, TagWillBeRecorded, Arena
<1>10. TagsInOrder'
  <2>1. step \in Nat /\ step + 1 \in Tags
    BY <1>1, <1>2, SlotArenaAssumption, SegmentedPoolAssumption DEF Typed
  <2>2. \A t \in Tags : t \in Nat
    BY SegmentedPoolAssumption, SlotArenaAssumption
  <2>3. \A t \in Tags : t > step + 1 => recorded[t] = -1
    BY <1>2, <2>1, <2>2 DEF TagsInOrder
  <2>4. \A j \in Alive : segs[j].last \in Int
    BY <1>2, <2>2, SegmentIs, SegmentedPoolAssumption DEF Caches
  <2>5. \A j \in Alive : segs[j].last <= step + 1
    BY <1>2, <2>1, <2>4 DEF TagsInOrder
  <2>6. recorded[step + 1] = -1
    BY <1>2, <2>1 DEF TagsInOrder
  <2> QED
    BY <1>1, <1>2, <1>8, <2>3, <2>5, <2>6 DEF TagsInOrder
<1> QED
  BY <1>7, <1>9, <1>10 DEF RoomInv

(* Nothing is demoted between requests: the arenas stay, go or come empty. *)
LEMMA IdleArenasKeepRoom ==
  ASSUME Typed, SoundArenas, WithinBudget, TagWillBeRecorded, pc' # "stall",
         \A j \in Alive' :
           \/ j \in Alive /\ segs'[j].arena = segs[j].arena /\ segs'[j].last = segs[j].last
           \/ segs'[j] = NewSegment,
         \A t \in Tags : recorded[t] # -1 => recorded'[t] # -1
  PROVE  WithinBudget' /\ TagWillBeRecorded'
<1>1. /\ NewSegment.arena = EmptyArena
      /\ \A s \in Slots : EmptyArena.state[s] = "absent" /\ EmptyArena.active[s] = 0
  BY DEF NewSegment, EmptyArena
<1>2. Cardinality(ActiveSlots(EmptyArena)) <= Protected
  <2>1. ActiveSlots(EmptyArena) = {}
    BY <1>1 DEF ActiveSlots
  <2> QED
    BY <2>1, FS_EmptySet, SlotArenaAssumption
<1>3. ASSUME NEW j \in Alive'
      PROVE  Cardinality(ActiveSlots(segs'[j].arena)) <= Protected
  <2>1. CASE j \in Alive /\ segs'[j].arena = segs[j].arena
    BY <2>1 DEF WithinBudget, Arena
  <2>2. CASE segs'[j] = NewSegment
    BY <1>1, <1>2, <2>2
  <2> QED
    BY <2>1, <2>2
<1>4. ASSUME NEW j \in Alive', NEW s \in Slots, segs'[j].arena.state[s] = "retiring"
      PROVE  \/ segs'[j].arena.pending[s] = segs'[j].last
             \/ recorded'[segs'[j].arena.pending[s]] # -1
  <2>1. /\ j \in Alive
        /\ segs'[j].arena = Arena(j) /\ segs'[j].last = segs[j].last
    BY <1>1, <1>4 DEF Arena
  <2>2. Arena(j).pending[s] \in Tags
    BY <1>4, <2>1 DEF SoundArenas, Sound, Arenas, Agree
  <2>3. Arena(j).pending[s] = segs[j].last \/ recorded[Arena(j).pending[s]] # -1
    BY <1>4, <2>1 DEF TagWillBeRecorded
  <2> QED
    BY <2>1, <2>2, <2>3
<1> QED
  BY <1>3, <1>4 DEF WithinBudget, TagWillBeRecorded, Arena

LEMMA GatherKeepsRoomInv == PlaceInv /\ RoomInv /\ Gather => RoomInv'
<1> SUFFICES ASSUME PlaceInv, RoomInv, Gather
             PROVE  RoomInv'
  OBVIOUS
<1>1. /\ Typed /\ SoundArenas
      /\ RequestFits /\ WithinBudget /\ TagsInOrder /\ TagWillBeRecorded
  BY DEF PlaceInv, RoomInv
<1>2. Alive' = Alive
  BY <1>1, GatherIs
<1>3. ASSUME NEW j \in Alive
      PROVE  segs'[j].arena = segs[j].arena /\ segs'[j].last = segs[j].last
  <2>1. segs'[j] = [arena |-> segs[j].arena, last |-> segs[j].last, bytes |-> Filled(j)]
    BY <1>1, GatherIs
  <2> QED
    BY <2>1
<1>4. /\ pc' = "commit" /\ issued' = issued + 1
      /\ UNCHANGED <<step, calls, placed, need, recorded>>
  BY DEF Gather
<1>5. WithinBudget' /\ TagWillBeRecorded'
  BY <1>1, <1>2, <1>3, <1>4, IdleArenasKeepRoom
<1>6. RequestFits'
  <2>1. Asked' = Asked
    BY <1>4 DEF Asked, KeysOf
  <2> QED
    BY <1>1, <1>4, <2>1, AskedBound DEF RequestFits
<1>7. TagsInOrder'
  <2>1. \A t \in Tags : recorded[t] <= issued + 1
    <3>1. \A t \in Tags : recorded[t] \in Int /\ recorded[t] <= issued /\ issued \in Int
      BY <1>1 DEF Typed, TagsInOrder
    <3> QED
      BY <3>1
  <2> QED
    BY <1>1, <1>2, <1>3, <1>4, <2>1 DEF TagsInOrder
<1> QED
  BY <1>5, <1>6, <1>7 DEF RoomInv

LEMMA LeaveKeepsRoomInv == PlaceInv /\ RoomInv /\ (Commit \/ Abandon) => RoomInv'
<1> SUFFICES ASSUME PlaceInv, RoomInv, Commit \/ Abandon
             PROVE  RoomInv'
  OBVIOUS
<1>1. /\ Typed /\ SoundArenas /\ CallsApart
      /\ RequestFits /\ WithinBudget /\ TagsInOrder /\ TagWillBeRecorded
  BY DEF PlaceInv, RoomInv
<1>2. /\ pc = "commit" /\ pc' = "idle" /\ calls' = <<>> /\ placed' = {} /\ need' = {}
      /\ UNCHANGED <<segs, step, issued>>
      /\ recorded' = Record(recorded, step) \/ recorded' = recorded
  BY DEF Commit, Abandon, Leave, poolVars, streamVars
<1>3. step \in Tags /\ recorded \in [Tags -> Nat \cup {-1}] /\ issued \in Nat
  BY <1>1, <1>2 DEF CallsApart, Typed
<1>4. \A t \in Tags : recorded'[t] = recorded[t] \/ (t = step /\ recorded'[t] = issued)
  BY <1>1, <1>2, <1>3, RecordIs
<1>5. Alive' = Alive
  BY <1>2 DEF Alive
<1>6. WithinBudget' /\ TagWillBeRecorded'
  BY <1>1, <1>2, <1>3, <1>4, <1>5, IdleArenasKeepRoom
<1>7. RequestFits'
  <2>1. Asked' = {}
    BY <1>2 DEF Asked
  <2> QED
    BY <1>1, <1>2, <2>1, AskedBound DEF RequestFits
<1>8. TagsInOrder'
  <2>1. ASSUME NEW t \in Tags
        PROVE  (t > step => recorded'[t] = -1) /\ recorded'[t] <= issued
    <3>1. t \in Nat /\ step \in Nat
      BY <1>3, SegmentedPoolAssumption, SlotArenaAssumption
    <3> QED
      BY <1>1, <1>3, <1>4, <3>1 DEF TagsInOrder
  <2> QED
    BY <1>1, <1>2, <1>5, <2>1 DEF TagsInOrder
<1> QED
  BY <1>6, <1>7, <1>8 DEF RoomInv

LEMMA ExecuteKeepsRoomInv == RoomInv /\ Execute => RoomInv'
  BY DEF RoomInv, RequestFits, WithinBudget, TagsInOrder, TagWillBeRecorded, Execute,
         poolVars, callVars, Asked, KeysOf, Alive, Arena

LEMMA ShrinkKeepsRoomInv ==
  ASSUME PlaceInv, RoomInv, NEW n \in Nat, Shrink(n)
  PROVE  RoomInv'
<1>1. /\ Typed /\ SoundArenas
      /\ RequestFits /\ WithinBudget /\ TagsInOrder /\ TagWillBeRecorded
  BY DEF PlaceInv, RoomInv
<1>2. /\ Alive' \subseteq Alive
      /\ \A i \in Alive' : segs'[i] = segs[i]
      /\ \A t \in Tags :
           \/ recorded'[t] = recorded[t]
           \/ /\ recorded[t] = -1 /\ recorded'[t] = issued
              /\ \E i \in Alive : t = segs[i].last
  BY <1>1, ShrinkIs
<1>3. pc = "idle" /\ UNCHANGED <<pc, step, calls, placed, need, issued>>
  BY DEF Shrink, callVars, streamVars
<1>4. issued \in Nat
  BY <1>1 DEF Typed
<1>5. WithinBudget' /\ TagWillBeRecorded'
  BY <1>1, <1>2, <1>3, <1>4, IdleArenasKeepRoom
<1>6. RequestFits'
  <2>1. Asked' = Asked
    BY <1>3 DEF Asked, KeysOf
  <2> QED
    BY <1>1, <1>3, <2>1, AskedBound DEF RequestFits
<1>7. TagsInOrder'
  <2>1. ASSUME NEW t \in Tags
        PROVE  (t > step => recorded'[t] = -1) /\ recorded'[t] <= issued
    <3>1. t \in Nat /\ step \in Nat
      BY <1>1, SegmentedPoolAssumption, SlotArenaAssumption DEF Typed
    <3>2. recorded'[t] = recorded[t] \/ (t <= step /\ recorded'[t] = issued)
      BY <1>1, <1>2 DEF TagsInOrder
    <3> QED
      BY <1>1, <1>4, <3>1, <3>2 DEF TagsInOrder
  <2> QED
    BY <1>1, <1>2, <1>3, <2>1 DEF TagsInOrder
<1> QED
  BY <1>5, <1>6, <1>7 DEF RoomInv

LEMMA GrowKeepsRoomInv ==
  ASSUME PlaceInv, RoomInv, NEW n \in Nat, Grow(n)
  PROVE  RoomInv'
<1>1. /\ Typed /\ SoundArenas
      /\ RequestFits /\ WithinBudget /\ TagsInOrder /\ TagWillBeRecorded
  BY DEF PlaceInv, RoomInv
<1>2. /\ \A i \in Alive : segs'[i] = segs[i]
      /\ \A i \in Alive' \ Alive : segs'[i] = NewSegment
  BY <1>1, GrowIs
<1>3. pc = "idle" /\ UNCHANGED <<pc, step, calls, placed, need, recorded, issued>>
  BY DEF Grow, callVars, streamVars
<1>4. WithinBudget' /\ TagWillBeRecorded'
  BY <1>1, <1>2, <1>3, IdleArenasKeepRoom
<1>5. RequestFits'
  <2>1. Asked' = Asked
    BY <1>3 DEF Asked, KeysOf
  <2> QED
    BY <1>1, <1>3, <2>1, AskedBound DEF RequestFits
<1>6. \A i \in Alive' : segs'[i].last <= step
  <2> TAKE i \in Alive'
  <2>1. CASE i \in Alive
    BY <1>1, <1>2, <2>1 DEF TagsInOrder
  <2>2. CASE i \notin Alive
    <3>1. segs'[i].last = 0
      BY <1>2, <2>2, SegmentedPoolAssumption DEF NewSegment
    <3> QED
      BY <1>1, <3>1 DEF Typed
  <2> QED
    BY <2>1, <2>2
<1>7. TagsInOrder'
  BY <1>1, <1>3, <1>6 DEF TagsInOrder
<1> QED
  BY <1>4, <1>5, <1>7 DEF RoomInv

LEMMA InitHasRoomInv == Init => RoomInv
<1> SUFFICES ASSUME Init
             PROVE  RoomInv
  OBVIOUS
<1>1. /\ segs = [i \in 1 .. Segments |-> NewSegment]
      /\ pc = "idle" /\ step = 0 /\ calls = <<>> /\ placed = {} /\ need = {}
      /\ recorded = [t \in Tags |-> -1] /\ issued = 0
  BY DEF Init
<1>2. \A i \in Alive : Arena(i) = EmptyArena /\ segs[i].last = 0
  BY <1>1, SegmentedPoolAssumption DEF Alive, Arena, NewSegment
<1>3. RequestFits
  <2>1. Asked = {}
    BY <1>1 DEF Asked
  <2>2. IsFiniteSet({}) /\ Cardinality({}) = 0
    BY FS_EmptySet
  <2>3. 0 <= Protected /\ 0 <= NSlots - Protected
    BY SlotArenaAssumption
  <2> QED
    BY <1>1, <2>1, <2>2, <2>3 DEF RequestFits
<1>4. WithinBudget
  <2>1. ActiveSlots(EmptyArena) = {}
    BY DEF ActiveSlots, EmptyArena
  <2>2. Cardinality(ActiveSlots(EmptyArena)) = 0
    BY <2>1, FS_EmptySet
  <2> QED
    BY <1>2, <2>2, SlotArenaAssumption DEF WithinBudget
<1>5. TagsInOrder
  <2>1. \A t \in Tags : recorded[t] = -1 /\ recorded[t] <= issued
    BY <1>1
  <2>2. \A i \in Alive : segs[i].last <= step
    <3>1. step = 0
      BY <1>1
    <3> QED
      BY <1>2, <3>1
  <2> QED
    BY <1>1, <2>1, <2>2 DEF TagsInOrder
<1>6. TagWillBeRecorded
  BY <1>1, <1>2 DEF TagWillBeRecorded, EmptyArena
<1> QED
  BY <1>3, <1>4, <1>5, <1>6 DEF RoomInv

LEMMA NextKeepsRoomInv ==
  ASSUME Fits, PlaceInv, RoomInv, [Next]_vars
  PROVE  RoomInv'
<1>1. ASSUME NEW q \in Requests, NEW budget \in Budgets, Want(q, budget)
      PROVE  RoomInv'
  BY <1>1, WantKeepsRoomInv
<1>2. CASE Ask \/ Stall
  BY <1>2, ServeKeepsRoomInv
<1>3. CASE Gather
  BY <1>3, GatherKeepsRoomInv
<1>4. CASE Commit \/ Abandon
  BY <1>4, LeaveKeepsRoomInv
<1>5. CASE Execute
  BY <1>5, ExecuteKeepsRoomInv
<1>6. ASSUME NEW n \in 1 .. MaxSegments, Shrink(n) \/ Grow(n)
      PROVE  RoomInv'
  BY <1>6, ShrinkKeepsRoomInv, GrowKeepsRoomInv
<1>7. CASE UNCHANGED vars
  BY <1>7 DEF vars, poolVars, callVars, streamVars, RoomInv, RequestFits, WithinBudget, TagsInOrder,
              TagWillBeRecorded, Asked, KeysOf, Alive, Arena
<1> QED
  BY <1>1, <1>2, <1>3, <1>4, <1>5, <1>6, <1>7 DEF Next

LEMMA RoomInvariance == Fits /\ Spec => [](PlaceInv /\ RoomInv)
<1> SUFFICES ASSUME Fits
             PROVE  Spec => [](PlaceInv /\ RoomInv)
  BY DEF Fits
<1>1. PlaceInv /\ RoomInv /\ [Next]_vars => (PlaceInv /\ RoomInv)'
  BY NextKeepsPlaceInv, NextKeepsRoomInv
<1> QED
  BY <1>1, InitHasPlaceInv, InitHasRoomInv, PTL DEF Spec

(* In a segment of twice the routed set or more, waiting for what its      *)
(* retiring rows wait for always frees enough of them: want never raises.  *)
THEOREM WaitingIsEnough == Fits /\ Spec => []StallFreesEnough
<1>1. PlaceInv /\ RoomInv => StallFreesEnough
  <2> SUFFICES ASSUME PlaceInv, RoomInv, pc = "stall"
               PROVE  Claims(Settled(Arena(Head(calls).seg), {t \in Tags : recorded[t] # -1}),
                             Head(calls).keys, step) # {}
    BY DEF StallFreesEnough, Arena
  <2> DEFINE i == Head(calls).seg
             done == {t \in Tags : recorded[t] # -1}
  <2>1. calls # <<>> /\ TagWillBeRecorded
    BY DEF PlaceInv, RoomInv, CallsApart
  <2>2. i \in Alive /\ Sound(Arena(i))
    BY <2>1, NextCallIs
  <2>3. \A s \in Slots : Arena(i).state[s] = "retiring" =>
          Arena(i).pending[s] \in Tags /\ recorded[Arena(i).pending[s]] # -1
    BY <2>1, <2>2 DEF TagWillBeRecorded, Sound, Arenas, Agree
  <2>4. \A s \in Slots : Arena(i).state[s] = "retiring" => Arena(i).pending[s] \in done
    BY <2>3
  <2>5. done \in SUBSET Tags
    OBVIOUS
  <2> HIDE DEF done
  <2> QED
    BY <2>1, <2>4, <2>5, ReleasedIsEnough DEF done
<1> QED
  BY <1>1, RoomInvariance, PTL

-----------------------------------------------------------------------------
PlacedIn(i) == {p.slot : p \in {x \in placed : x.seg = i}}

(* What the request has been given so far is the newest in its segments,   *)
(* so that its later calls do not take it back.                            *)
PlacedAreNewest ==
  pc \in {"ask", "stall"} =>
    \A p \in placed :
      /\ p.seg \in Alive
      /\ Arena(p.seg).holds[p.slot] = p.key
      /\ Arena(p.seg).state[p.slot] = "active"
      /\ \A t \in ActiveSlots(Arena(p.seg)) \ PlacedIn(p.seg) :
           Arena(p.seg).active[t] < Arena(p.seg).active[p.slot]

(* A row has the bytes of the expert it holds, or its fill is still due.   *)
PublishedOrPromised ==
  \A i \in Alive, s \in Slots :
    Arena(i).holds[s] # NoExpert =>
      \/ segs[i].bytes[s] = Arena(i).holds[s]
      \/ /\ pc \in {"ask", "stall"}
         /\ \E p \in placed : p.seg = i /\ p.slot = s /\ p.key \in need

\* A slot that the gather numbered at still reads cannot be claimed.
KeptIn(a, rec, s, at) ==
  \/ a.state[s] = "active"
  \/ /\ a.state[s] = "retiring"
     /\ rec[a.pending[s]] = -1 \/ rec[a.pending[s]] >= at

ReadsKept ==
  \A r \in reads :
    /\ completed < r.at /\ r.at <= issued
    /\ r.seg \in Alive
    /\ Arena(r.seg).holds[r.slot] = r.key
    /\ segs[r.seg].bytes[r.slot] = r.key
    /\ KeptIn(Arena(r.seg), recorded, r.slot, r.at)

ReadInv == PlacedAreNewest /\ PublishedOrPromised /\ ReadsKept

(* Recording tags now keeps what was issued before.                        *)
LEMMA RecordingKeeps ==
  ASSUME NEW a, Sound(a), NEW rec, NEW s \in Slots, NEW at \in Nat, at <= issued,
         \A t \in Tags : rec[t] = recorded[t] \/ rec[t] = issued,
         KeptIn(a, recorded, s, at)
  PROVE  KeptIn(a, rec, s, at)
<1>1. a.state[s] = "retiring" => a.pending[s] \in Tags
  BY DEF Sound, Arenas, Agree
<1> QED
  BY <1>1 DEF KeptIn

(* Releasing what is done keeps what a gather that is not still reads.     *)
LEMMA FreeingKeeps ==
  ASSUME Typed, NEW a, Sound(a), NEW rec \in [Tags -> Nat \cup {-1}], NEW b, Frees(a, b, Done(rec)),
         NEW s \in Slots, NEW at \in Nat, completed < at, KeptIn(a, rec, s, at)
  PROVE  KeptIn(b, rec, s, at)
<1>1. CASE a.state[s] = "active"
  BY <1>1 DEF Frees, KeptIn
<1>2. CASE a.state[s] = "retiring" /\ (rec[a.pending[s]] = -1 \/ rec[a.pending[s]] >= at)
  <2>1. completed \in Nat /\ rec[a.pending[s]] \notin 0 .. completed
    <3>1. completed \in Nat
      BY DEF Typed
    <3> QED
      BY <1>2, <3>1
  <2>2. a.pending[s] \notin Done(rec)
    BY <2>1 DEF Done
  <2> QED
    BY <1>2, <2>2 DEF Frees, KeptIn
<1> QED
  BY <1>1, <1>2 DEF KeptIn

(* So does placing a request under a tag that is not recorded yet, or has  *)
(* been recorded since; and the row stays its expert's.                    *)
LEMMA WantingKeeps ==
  ASSUME NEW a, Sound(a), NEW q \in Routed, NEW tag \in Tags, NEW c \in Claims(a, q, tag),
         NEW rec, NEW s \in Slots, NEW at \in Nat, NEW n \in Nat, at <= n,
         rec[tag] = -1 \/ rec[tag] = n,
         KeptIn(a, rec, s, at)
  PROVE  /\ KeptIn(Wanted(a, q, tag, c), rec, s, at)
         /\ Wanted(a, q, tag, c).holds[s] = a.holds[s]
<1> DEFINE b == Wanted(a, q, tag, c)
<1>1. a.state[s] \in {"active", "retiring"}
  BY DEF KeptIn
<1>2. /\ b.holds[s] = a.holds[s]
      /\ b.state[s] \in {"active", "retiring"}
      /\ b.state[s] = "retiring" =>
           \/ b.pending[s] = tag
           \/ a.state[s] = "retiring" /\ b.pending[s] = a.pending[s]
  BY <1>1, WantIs
<1> HIDE DEF b
<1>3. KeptIn(b, rec, s, at)
  BY <1>2 DEF KeptIn
<1> QED
  BY <1>2, <1>3 DEF b

(* The rows of a request in one segment, those of the call that is placed  *)
(* included, are as many as their keys.                                    *)
LEMMA PlacedFit ==
  ASSUME PlaceInv, RoomInv, PlacedAreNewest, pc \in {"ask", "stall"}, calls # <<>>,
         NEW a, Frees(Arena(Head(calls).seg), a, Done(recorded')),
         NEW c \in Claims(a, Head(calls).keys, step)
  PROVE  LET P == PlacedIn(Head(calls).seg)
             at == Assigned(a, Head(calls).keys, c)
         IN /\ P \subseteq ActiveSlots(a)
            /\ \A s \in P, t \in ActiveSlots(a) \ P : a.active[t] < a.active[s]
            /\ Cardinality(P \cup {at[k] : k \in DOMAIN Head(calls).keys}) <= Protected
<1> DEFINE i == Head(calls).seg
           keys == Head(calls).keys
           P == PlacedIn(i)
           at == Assigned(a, keys, c)
           w == Wanted(a, keys, step, c)
           R == P \cup {at[k] : k \in DOMAIN keys}
<1>1. Typed /\ CallsApart /\ RequestFits
  BY DEF PlaceInv, RoomInv
<1>2. /\ i \in Alive /\ keys \in Routed /\ Sound(Arena(i))
      /\ 1 \in DOMAIN calls /\ Head(calls) = calls[1]
  BY NextCallIs
<1>3. step \in Tags /\ Sound(a)
  BY <1>1 DEF CallsApart, Frees
<1>4. /\ a.holds = Arena(i).holds /\ a.active = Arena(i).active
      /\ \A s \in Slots : Arena(i).state[s] = "active" => a.state[s] = "active"
  BY DEF Frees
<1>5. \A s \in P : \E p \in placed : p.seg = i /\ p.slot = s /\ s \in Slots
  BY <1>1 DEF PlacedIn, Typed
<1>6. \A s \in P : s \in Slots /\ a.state[s] = "active" /\ a.holds[s] \in {p.key : p \in placed}
  BY <1>4, <1>5 DEF PlacedAreNewest
<1>7. P \subseteq ActiveSlots(a)
  BY <1>3, <1>6 DEF Sound, Agree, ActiveSlots
<1>8. ActiveSlots(a) = ActiveSlots(Arena(i))
  BY <1>4 DEF ActiveSlots
<1>9. \A s \in P, t \in ActiveSlots(a) \ P : a.active[t] < a.active[s]
  BY <1>4, <1>5, <1>8 DEF PlacedAreNewest
<1>10. /\ Sound(w)
       /\ \A k \in DOMAIN keys : at[k] \in Slots /\ w.holds[at[k]] = keys[k] /\ w.state[at[k]] = "active"
       /\ \A s \in Slots : a.state[s] = "active" =>
            w.holds[s] = a.holds[s] /\ w.state[s] \in {"active", "retiring"}
  BY <1>2, <1>3, WantIs
<1>11. \A k \in DOMAIN keys : keys[k] \in Asked
  BY <1>2 DEF Asked, KeysOf
<1> HIDE DEF i, keys, P, at, w
<1>12. \A s \in R : s \in Slots /\ w.holds[s] \in Asked /\ w.state[s] # "absent"
  BY <1>6, <1>10, <1>11 DEF Asked
<1> DEFINE g == [e \in Asked |-> SlotOf(w, e)]
           T == {g[e] : e \in Asked}
<1>13. \A s \in R : s \in T
  <2> SUFFICES ASSUME NEW s \in R
               PROVE  s = g[w.holds[s]] /\ w.holds[s] \in Asked
    OBVIOUS
  <2>1. w.holds[s] \in Experts
    BY <1>10, <1>12 DEF Sound, Arenas, Agree
  <2> QED
    BY <1>10, <1>12, <2>1, HolderIsSlotOf
<1>14. IsFiniteSet(T) /\ Cardinality(T) <= Cardinality(Asked)
  <2>1. IsFiniteSet(Asked) /\ Asked \subseteq DOMAIN g
    BY <1>1 DEF RequestFits
  <2> HIDE DEF g
  <2> QED
    BY <2>1, ImageBound
<1> HIDE DEF R, T
<1>15. Cardinality(R) <= Cardinality(T) /\ IsFiniteSet(R)
  BY <1>13, <1>14, FS_Subset
<1>16. Cardinality(R) \in Nat /\ Cardinality(T) \in Nat /\ Cardinality(Asked) \in Nat /\ Protected \in Nat
  BY <1>1, <1>14, <1>15, FS_CardinalityType, SlotArenaAssumption DEF RequestFits
<1>17. Cardinality(R) <= Protected
  BY <1>1, <1>14, <1>15, <1>16 DEF RequestFits
<1> QED
  BY <1>7, <1>9, <1>17 DEF P, R, at, i, keys

LEMMA PlacingKeepsReadInv ==
  ASSUME PlaceInv, RoomInv, ReadInv, pc \in {"ask", "stall"}, calls # <<>>, Remembers,
         NEW a, Frees(Arena(Head(calls).seg), a, Done(recorded')),
         NEW c \in Claims(a, Head(calls).keys, step), Place(a, c),
         UNCHANGED <<step, issued, completed, reads>>
  PROVE  ReadInv'
<1> DEFINE i == Head(calls).seg
           keys == Head(calls).keys
           at == Assigned(a, keys, c)
           w == Wanted(a, keys, step, c)
           new == {[key |-> keys[k], seg |-> i, slot |-> at[k]] : k \in DOMAIN keys}
           keep == {at[k] : k \in DOMAIN keys}
           P == PlacedIn(i)
<1>1. /\ Typed /\ SoundArenas /\ CallsApart /\ TagsInOrder
      /\ PlacedAreNewest /\ PublishedOrPromised /\ ReadsKept
  BY DEF PlaceInv, RoomInv, ReadInv
<1>2. i \in Alive /\ keys \in Routed
  BY NextCallIs
<1>3. step \in Tags /\ Sound(a) /\ a.holds = Arena(i).holds
  BY <1>1 DEF CallsApart, Frees
<1>4. /\ Alive' = Alive
      /\ \A j \in Alive : j # i => segs'[j] = segs[j]
      /\ segs'[i] = [arena |-> w, last |-> step, bytes |-> segs[i].bytes]
  BY <1>1, <1>2, <1>3, PlaceIs DEF Alive
<1>5. segs'[i].arena = w /\ segs'[i].bytes = segs[i].bytes
  BY <1>4
<1>6. /\ placed' = placed \cup new
      /\ need' = need \cup {keys[k] : k \in DOMAIN c}
      /\ pc' = "ask"
  BY DEF Place, ToFill
<1>7. /\ Sound(w)
      /\ \A k \in DOMAIN keys : at[k] \in Slots /\ w.holds[at[k]] = keys[k] /\ w.state[at[k]] = "active"
      /\ \A s \in Slots : a.state[s] \in {"active", "retiring"} => w.holds[s] = a.holds[s]
      /\ \A s \in Slots : w.state[s] # "absent" =>
           \/ w.holds[s] = a.holds[s] /\ a.state[s] # "absent"
           \/ \E k \in Misses(a, keys) : w.holds[s] = keys[k]
  BY <1>2, <1>3, WantIs
<1>8. DOMAIN c = Misses(a, keys) /\ Misses(a, keys) \subseteq DOMAIN keys
  <2>1. DOMAIN c = Misses(a, keys)
    BY <1>2, <1>3, ClaimsApart
  <2> QED
    BY <2>1 DEF Misses
<1>9. /\ P \subseteq ActiveSlots(a)
      /\ \A s \in P, t \in ActiveSlots(a) \ P : a.active[t] < a.active[s]
      /\ Cardinality(P \cup keep) <= Protected
  BY <1>1, PlacedFit
<1>10. /\ \A s \in P \cup keep : w.state[s] = "active"
       /\ \A s \in P \cup keep, t \in ActiveSlots(w) \ (P \cup keep) : w.active[t] < w.active[s]
  <2> HIDE DEF P
  <2> QED
    BY <1>2, <1>3, <1>9, NewestStayActive
<1> HIDE DEF w, at, i, keys
<1>11. {p.slot : p \in {x \in placed' : x.seg = i}} = P \cup keep
  <2>1. ASSUME NEW k \in DOMAIN keys
        PROVE  \E p \in new : p.seg = i /\ p.slot = at[k]
    <3>1. [key |-> keys[k], seg |-> i, slot |-> at[k]] \in new
      OBVIOUS
    <3> QED
      BY <3>1
  <2>2. ASSUME NEW p \in new
        PROVE  p.slot \in keep /\ p.seg = i
    OBVIOUS
  <2>3. \A s : s \in keep <=> \E p \in new : p.seg = i /\ p.slot = s
    BY <2>1, <2>2
  <2> HIDE DEF new, keep
  <2> QED
    BY <1>6, <2>3 DEF PlacedIn
<1>12. ASSUME NEW j \in Alive, j # i
       PROVE  {p.slot : p \in {x \in placed' : x.seg = j}} = PlacedIn(j)
  <2>1. \A x \in new : x.seg = i
    OBVIOUS
  <2> HIDE DEF new
  <2>2. {x \in placed' : x.seg = j} = {x \in placed : x.seg = j}
    BY <1>6, <1>12, <2>1
  <2> QED
    BY <2>2 DEF PlacedIn
<1>13. ASSUME NEW p \in placed'
       PROVE  /\ p.seg \in Alive
              /\ segs'[p.seg].arena.holds[p.slot] = p.key
              /\ segs'[p.seg].arena.state[p.slot] = "active"
              /\ \A t \in ActiveSlots(segs'[p.seg].arena) \ {x.slot : x \in {y \in placed' : y.seg = p.seg}} :
                   segs'[p.seg].arena.active[t] < segs'[p.seg].arena.active[p.slot]
  <2>1. {x.slot : x \in {y \in placed' : y.seg = i}} = P \cup keep
    BY <1>11
  <2>2. CASE p \in placed /\ p.seg # i
    <3>1. /\ p.seg \in Alive
          /\ Arena(p.seg).holds[p.slot] = p.key
          /\ Arena(p.seg).state[p.slot] = "active"
          /\ \A t \in ActiveSlots(Arena(p.seg)) \ PlacedIn(p.seg) :
               Arena(p.seg).active[t] < Arena(p.seg).active[p.slot]
      BY <1>1, <2>2 DEF PlacedAreNewest
    <3>2. segs'[p.seg].arena = Arena(p.seg)
      BY <1>4, <2>2, <3>1 DEF Arena
    <3>3. {x.slot : x \in {y \in placed' : y.seg = p.seg}} = PlacedIn(p.seg)
      BY <1>12, <2>2, <3>1
    <3> QED
      BY <3>1, <3>2, <3>3
  <2>3. CASE p \in placed /\ p.seg = i
    <3>1. /\ p.slot \in P /\ p.slot \in Slots
          /\ Arena(i).holds[p.slot] = p.key
      BY <1>1, <2>3 DEF PlacedAreNewest, PlacedIn, Typed
    <3>2. a.state[p.slot] = "active"
      BY <1>3, <1>9, <3>1 DEF ActiveSlots, Sound, Agree
    <3>3. w.holds[p.slot] = p.key
      BY <1>3, <1>7, <3>1, <3>2
    <3> HIDE DEF P, keep
    <3> QED
      BY <1>2, <1>5, <1>10, <2>1, <2>3, <3>1, <3>3
  <2>4. CASE p \in new
    <3>1. PICK k \in DOMAIN keys : p.key = keys[k] /\ p.seg = i /\ p.slot = at[k]
      BY <2>4
    <3>2. p.slot \in keep
      BY <3>1
    <3> HIDE DEF P, keep
    <3> QED
      BY <1>2, <1>5, <1>7, <1>10, <2>1, <3>1, <3>2
  <2> QED
    BY <1>6, <2>2, <2>3, <2>4
<1>14. PlacedAreNewest'
  BY <1>4, <1>13 DEF PlacedAreNewest, Arena, PlacedIn
<1> HIDE DEF P, keep
<1>15. ASSUME NEW j \in Alive, NEW s \in Slots, segs'[j].arena.holds[s] # NoExpert
       PROVE  \/ segs'[j].bytes[s] = segs'[j].arena.holds[s]
              \/ \E p \in placed' : p.seg = j /\ p.slot = s /\ p.key \in need'
  <2>1. CASE j # i \/ (w.holds[s] = a.holds[s] /\ a.state[s] # "absent")
    <3>1. segs'[j].arena.holds[s] = Arena(j).holds[s] /\ segs'[j].bytes = segs[j].bytes
      BY <1>3, <1>4, <1>5, <2>1 DEF Arena
    <3>2. \/ segs[j].bytes[s] = Arena(j).holds[s]
          \/ \E p \in placed : p.seg = j /\ p.slot = s /\ p.key \in need
      BY <1>1, <1>15, <3>1 DEF PublishedOrPromised
    <3> QED
      BY <1>6, <3>1, <3>2
  <2>2. CASE j = i /\ \E k \in Misses(a, keys) : w.holds[s] = keys[k]
    <3>1. PICK k \in Misses(a, keys) : w.holds[s] = keys[k]
      BY <2>2
    <3>2. k \in DOMAIN keys /\ k \in DOMAIN c
      BY <1>8
    <3>3. s = at[k]
      BY <1>5, <1>7, <1>15, <2>2, <3>1, <3>2 DEF Sound, Unique
    <3>4. [key |-> keys[k], seg |-> i, slot |-> at[k]] \in placed' /\ keys[k] \in need'
      BY <1>6, <3>2
    <3> QED
      BY <2>2, <3>3, <3>4
  <2>3. j = i => w.state[s] # "absent"
    BY <1>5, <1>7, <1>15 DEF Sound, Agree
  <2> QED
    BY <1>7, <2>1, <2>2, <2>3
<1>16. PublishedOrPromised'
  BY <1>4, <1>6, <1>15 DEF PublishedOrPromised, Arena
<1>17. ASSUME NEW r \in reads
       PROVE  /\ segs'[r.seg].arena.holds[r.slot] = r.key
              /\ segs'[r.seg].bytes[r.slot] = r.key
              /\ KeptIn(segs'[r.seg].arena, recorded', r.slot, r.at)
  <2>1. /\ completed < r.at /\ r.at <= issued
        /\ r.seg \in Alive
        /\ Arena(r.seg).holds[r.slot] = r.key
        /\ segs[r.seg].bytes[r.slot] = r.key
        /\ KeptIn(Arena(r.seg), recorded, r.slot, r.at)
    BY <1>1 DEF ReadsKept
  <2>2. r.slot \in Slots /\ r.at \in Nat /\ issued \in Nat /\ Sound(Arena(r.seg))
    BY <1>1, <2>1 DEF Typed, SoundArenas
  <2>3. KeptIn(Arena(r.seg), recorded', r.slot, r.at)
    BY <2>1, <2>2, RecordingKeeps DEF Remembers
  <2>4. CASE r.seg # i
    BY <1>4, <2>1, <2>3, <2>4 DEF Arena
  <2>5. CASE r.seg = i
    <3>1. recorded' \in [Tags -> Nat \cup {-1}] /\ Frees(Arena(i), a, Done(recorded'))
      BY DEF Remembers, i
    <3>2. KeptIn(a, recorded', r.slot, r.at)
      BY <1>1, <1>2, <2>1, <2>2, <2>3, <2>5, <3>1, FreeingKeeps
    <3>3. recorded'[step] = -1 \/ recorded'[step] = issued
      BY <1>1, <1>3 DEF TagsInOrder, Remembers
    <3>4. KeptIn(w, recorded', r.slot, r.at) /\ w.holds[r.slot] = a.holds[r.slot]
      <4>1. c \in Claims(a, keys, step)
        BY DEF keys
      <4> QED
        BY <1>2, <1>3, <2>1, <2>2, <3>2, <3>3, <4>1, WantingKeeps DEF w
    <3> QED
      BY <1>3, <1>5, <2>1, <2>5, <3>4
  <2> QED
    BY <2>4, <2>5
<1>18. ReadsKept'
  <2>1. \A r \in reads : completed < r.at /\ r.at <= issued /\ r.seg \in Alive
    BY <1>1 DEF ReadsKept
  <2> QED
    BY <1>4, <1>17, <2>1 DEF ReadsKept, Arena
<1> QED
  BY <1>14, <1>16, <1>18 DEF ReadInv

LEMMA StallingKeepsReadInv ==
  ASSUME PlaceInv, RoomInv, ReadInv, pc = "ask", calls # <<>>, Remembers,
         NEW a, Frees(Arena(Head(calls).seg), a, Done(recorded')),
         segs' = [segs EXCEPT ![Head(calls).seg].arena = a], pc' = "stall",
         UNCHANGED <<placed, need, issued, completed, reads>>
  PROVE  ReadInv'
<1> DEFINE i == Head(calls).seg
<1>1. Typed /\ SoundArenas /\ PlacedAreNewest /\ PublishedOrPromised /\ ReadsKept
  BY DEF PlaceInv, RoomInv, ReadInv
<1>2. i \in Alive /\ Sound(a)
  BY NextCallIs DEF Frees
<1>3. /\ Alive' = Alive
      /\ \A j \in Alive : j # i => segs'[j] = segs[j]
      /\ segs'[i] = [arena |-> a, last |-> segs[i].last, bytes |-> segs[i].bytes]
  BY <1>1, <1>2, StalledIs
<1>4. Frees(Arena(i), a, Done(recorded')) /\ recorded' \in [Tags -> Nat \cup {-1}]
  BY DEF Remembers
<1> HIDE DEF i
<1>5. ASSUME NEW j \in Alive
      PROVE  /\ segs'[j].bytes = segs[j].bytes
             /\ segs'[j].arena.holds = Arena(j).holds
             /\ segs'[j].arena.active = Arena(j).active
             /\ ActiveSlots(segs'[j].arena) = ActiveSlots(Arena(j))
             /\ \A s \in Slots : Arena(j).state[s] = "active" => segs'[j].arena.state[s] = "active"
  <2>1. CASE j = i
    BY <1>3, <1>4, <2>1 DEF Frees, Arena, ActiveSlots
  <2>2. CASE j # i
    BY <1>3, <2>2 DEF Arena
  <2> QED
    BY <2>1, <2>2
<1>6. PlacedAreNewest'
  <2> SUFFICES ASSUME NEW p \in placed
               PROVE  /\ p.seg \in Alive
                      /\ segs'[p.seg].arena.holds[p.slot] = p.key
                      /\ segs'[p.seg].arena.state[p.slot] = "active"
                      /\ \A t \in ActiveSlots(segs'[p.seg].arena) \ PlacedIn(p.seg) :
                           segs'[p.seg].arena.active[t] < segs'[p.seg].arena.active[p.slot]
    BY <1>3 DEF PlacedAreNewest, Arena, PlacedIn
  <2>1. /\ p.seg \in Alive
        /\ Arena(p.seg).holds[p.slot] = p.key
        /\ Arena(p.seg).state[p.slot] = "active"
        /\ \A t \in ActiveSlots(Arena(p.seg)) \ PlacedIn(p.seg) :
             Arena(p.seg).active[t] < Arena(p.seg).active[p.slot]
    BY <1>1 DEF PlacedAreNewest
  <2>2. p.slot \in Slots
    BY <1>1 DEF Typed
  <2> QED
    BY <1>5, <2>1, <2>2
<1>7. PublishedOrPromised'
  BY <1>1, <1>3, <1>5 DEF PublishedOrPromised, Arena
<1>8. ASSUME NEW r \in reads
      PROVE  KeptIn(segs'[r.seg].arena, recorded', r.slot, r.at)
  <2>1. completed < r.at /\ r.at <= issued /\ r.seg \in Alive
        /\ KeptIn(Arena(r.seg), recorded, r.slot, r.at)
    BY <1>1 DEF ReadsKept
  <2>2. r.slot \in Slots /\ r.at \in Nat /\ Sound(Arena(r.seg))
    BY <1>1, <2>1 DEF Typed, SoundArenas
  <2>3. KeptIn(Arena(r.seg), recorded', r.slot, r.at)
    BY <2>1, <2>2, RecordingKeeps DEF Remembers
  <2>4. CASE r.seg = i
    BY <1>1, <1>2, <1>3, <1>4, <2>1, <2>2, <2>3, <2>4, FreeingKeeps
  <2>5. CASE r.seg # i
    BY <1>3, <2>1, <2>3, <2>5 DEF Arena
  <2> QED
    BY <2>4, <2>5
<1>9. ReadsKept'
  <2>1. \A r \in reads : r.seg \in Alive /\ r.slot \in Slots
    BY <1>1 DEF ReadsKept, Typed
  <2> QED
    BY <1>1, <1>3, <1>5, <1>8, <2>1 DEF ReadsKept, Arena
<1> QED
  BY <1>6, <1>7, <1>9 DEF ReadInv

LEMMA ServeKeepsReadInv ==
  ASSUME PlaceInv, RoomInv, ReadInv, Ask \/ Stall
  PROVE  ReadInv'
<1> DEFINE i == Head(calls).seg
<1>1. /\ pc \in {"ask", "stall"} /\ calls # <<>>
      /\ Remembers
      /\ UNCHANGED <<step, issued, completed, reads>>
  BY ServeIs
<1>2. PICK a : /\ Frees(Arena(i), a, Done(recorded'))
               /\ \/ \E c \in Claims(a, Head(calls).keys, step) : Place(a, c)
                  \/ /\ pc = "ask" /\ pc' = "stall"
                     /\ segs' = [segs EXCEPT ![i].arena = a]
                     /\ UNCHANGED <<where, calls, placed, need>>
  BY ServeIs
<1>3. CASE \E c \in Claims(a, Head(calls).keys, step) : Place(a, c)
  BY <1>1, <1>2, <1>3, PlacingKeepsReadInv
<1>4. CASE /\ pc = "ask" /\ pc' = "stall"
           /\ segs' = [segs EXCEPT ![i].arena = a]
           /\ UNCHANGED <<where, calls, placed, need>>
  BY <1>1, <1>2, <1>4, StallingKeepsReadInv
<1> QED
  BY <1>2, <1>3, <1>4

LEMMA WantKeepsReadInv ==
  ASSUME PlaceInv, RoomInv, ReadInv, NEW q, NEW budget, Want(q, budget)
  PROVE  ReadInv'
<1>1. PublishedOrPromised /\ ReadsKept /\ RequestFits
  BY DEF RoomInv, ReadInv
<1>2. /\ pc = "idle" /\ pc' = "ask"
      /\ UNCHANGED <<segs, placed, need, recorded, issued, completed, reads>>
  BY DEF Want, poolVars, streamVars
<1>3. placed = {} /\ Alive' = Alive
  BY <1>1, <1>2 DEF RequestFits, Alive
<1>4. PlacedAreNewest'
  BY <1>2, <1>3 DEF PlacedAreNewest
<1>5. PublishedOrPromised' /\ ReadsKept'
  BY <1>1, <1>2, <1>3 DEF PublishedOrPromised, ReadsKept, Arena
<1> QED
  BY <1>4, <1>5 DEF ReadInv

(* The fill gives every row the bytes of its expert.                       *)
LEMMA FilledIs ==
  ASSUME PlaceInv, ReadInv, pc = "ask", NEW i \in Alive, NEW s \in Slots, Arena(i).holds[s] # NoExpert
  PROVE  Filled(i)[s] = Arena(i).holds[s]
<1> DEFINE fresh == {p \in placed : p.seg = i /\ p.slot = s /\ p.key \in need}
<1>1. Filled(i)[s] = IF fresh = {} THEN segs[i].bytes[s] ELSE (CHOOSE p \in fresh : TRUE).key
  BY DEF Filled
<1>2. \A p \in fresh : p.key = Arena(i).holds[s]
  BY DEF ReadInv, PlacedAreNewest
<1>3. CASE fresh = {}
  <2>1. segs[i].bytes[s] = Arena(i).holds[s]
    BY <1>3 DEF ReadInv, PublishedOrPromised
  <2> HIDE DEF fresh
  <2> QED
    BY <1>1, <1>3, <2>1
<1>4. CASE fresh # {}
  <2> HIDE DEF fresh
  <2>1. (CHOOSE p \in fresh : TRUE) \in fresh
    BY <1>4
  <2> QED
    BY <1>1, <1>2, <1>4, <2>1
<1> QED
  BY <1>3, <1>4

LEMMA GatherKeepsReadInv ==
  ASSUME PlaceInv, RoomInv, ReadInv, Gather
  PROVE  ReadInv'
<1>1. Typed /\ SoundArenas /\ PlacedAreNewest /\ PublishedOrPromised /\ ReadsKept
  BY DEF PlaceInv, ReadInv
<1>2. /\ pc = "ask" /\ pc' = "commit" /\ issued' = issued + 1
      /\ reads' = reads \cup {[at |-> issued + 1, seg |-> p.seg, slot |-> p.slot, key |-> p.key] :
                                p \in placed}
      /\ UNCHANGED <<recorded, completed>>
  BY DEF Gather
<1>3. issued \in Nat /\ completed \in Nat /\ completed <= issued
  BY <1>1 DEF Typed
<1>4. Alive' = Alive
  BY <1>1, GatherIs
<1>5. \A i \in Alive : segs'[i].arena = Arena(i) /\ segs'[i].bytes = Filled(i)
  <2> TAKE i \in Alive
  <2>1. segs'[i] = [arena |-> segs[i].arena, last |-> segs[i].last, bytes |-> Filled(i)]
    BY <1>1, GatherIs
  <2> QED
    BY <2>1 DEF Arena
<1>6. PlacedAreNewest'
  BY <1>2 DEF PlacedAreNewest
<1>7. PublishedOrPromised'
  BY <1>4, <1>5, <1>2, FilledIs DEF PublishedOrPromised, Arena
<1>8. ASSUME NEW r \in reads'
      PROVE  /\ completed < r.at /\ r.at <= issued + 1
             /\ r.seg \in Alive /\ r.slot \in Slots /\ r.key \in Experts
             /\ Arena(r.seg).holds[r.slot] = r.key
             /\ KeptIn(Arena(r.seg), recorded, r.slot, r.at)
  <2>1. CASE r \in reads
    <3>1. r.at \in Nat /\ r.slot \in Slots /\ r.key \in Experts
      BY <1>1, <2>1 DEF Typed
    <3>2. /\ completed < r.at /\ r.at <= issued
          /\ r.seg \in Alive
          /\ Arena(r.seg).holds[r.slot] = r.key
          /\ KeptIn(Arena(r.seg), recorded, r.slot, r.at)
      BY <1>1, <2>1 DEF ReadsKept
    <3> QED
      BY <1>3, <3>1, <3>2
  <2>2. CASE r \notin reads
    <3>1. PICK p \in placed : r = [at |-> issued + 1, seg |-> p.seg, slot |-> p.slot, key |-> p.key]
      BY <1>2, <2>2
    <3>2. r.at = issued + 1 /\ r.seg = p.seg /\ r.slot = p.slot /\ r.key = p.key
      BY <3>1
    <3>3. /\ p.seg \in Alive
          /\ Arena(p.seg).holds[p.slot] = p.key
          /\ Arena(p.seg).state[p.slot] = "active"
      BY <1>1, <1>2 DEF PlacedAreNewest
    <3>4. p.slot \in Slots /\ p.key \in Experts
      BY <1>1 DEF Typed
    <3> QED
      BY <1>3, <3>2, <3>3, <3>4 DEF KeptIn
  <2> QED
    BY <2>1, <2>2
<1>9. ASSUME NEW r \in reads'
      PROVE  Filled(r.seg)[r.slot] = r.key
  <2>1. r.key # NoExpert
    BY <1>8, SlotArenaAssumption
  <2> QED
    BY <1>2, <1>8, <2>1, FilledIs
<1>10. ReadsKept'
  <2>1. ASSUME NEW r \in reads'
        PROVE  /\ completed' < r.at /\ r.at <= issued'
               /\ r.seg \in Alive'
               /\ segs'[r.seg].arena.holds[r.slot] = r.key
               /\ segs'[r.seg].bytes[r.slot] = r.key
               /\ KeptIn(segs'[r.seg].arena, recorded', r.slot, r.at)
    BY <1>2, <1>4, <1>5, <1>8, <1>9
  <2> QED
    BY <2>1 DEF ReadsKept, Arena
<1> QED
  BY <1>6, <1>7, <1>10 DEF ReadInv

LEMMA LeaveKeepsReadInv ==
  ASSUME PlaceInv, RoomInv, ReadInv, Commit \/ Abandon
  PROVE  ReadInv'
<1>1. Typed /\ SoundArenas /\ CallsApart /\ PublishedOrPromised /\ ReadsKept
  BY DEF PlaceInv, ReadInv
<1>2. /\ pc = "commit" /\ pc' = "idle" /\ placed' = {}
      /\ UNCHANGED <<segs, issued, completed, reads>>
      /\ recorded' = Record(recorded, step) \/ recorded' = recorded
  BY DEF Commit, Abandon, Leave, poolVars, streamVars
<1>3. step \in Tags /\ recorded \in [Tags -> Nat \cup {-1}] /\ issued \in Nat
  BY <1>1, <1>2 DEF CallsApart, Typed
<1>4. \A t \in Tags : recorded'[t] = recorded[t] \/ recorded'[t] = issued
  BY <1>1, <1>2, <1>3, RecordIs
<1>5. Alive' = Alive
  BY <1>2 DEF Alive
<1>6. PlacedAreNewest'
  BY <1>2 DEF PlacedAreNewest
<1>7. PublishedOrPromised'
  BY <1>1, <1>2, <1>5 DEF PublishedOrPromised, Arena
<1>8. ASSUME NEW r \in reads
      PROVE  KeptIn(Arena(r.seg), recorded', r.slot, r.at)
  <2>1. r.slot \in Slots /\ r.at \in Nat /\ r.at <= issued /\ Sound(Arena(r.seg))
        /\ KeptIn(Arena(r.seg), recorded, r.slot, r.at)
    BY <1>1 DEF Typed, ReadsKept, SoundArenas
  <2> QED
    BY <1>4, <2>1, RecordingKeeps
<1>9. ReadsKept'
  <2>1. \A r : Arena(r.seg)' = Arena(r.seg)
    BY <1>2 DEF Arena
  <2> QED
    BY <1>1, <1>2, <1>5, <1>8 DEF ReadsKept, Arena
<1> QED
  BY <1>6, <1>7, <1>9 DEF ReadInv

LEMMA ExecuteKeepsReadInv ==
  ASSUME PlaceInv, ReadInv, Execute
  PROVE  ReadInv'
<1>1. Typed /\ PlacedAreNewest /\ PublishedOrPromised /\ ReadsKept
  BY DEF PlaceInv, ReadInv
<1>2. /\ completed' = completed + 1
      /\ reads' = {r \in reads : r.at > completed + 1}
      /\ UNCHANGED <<segs, pc, placed, need, recorded, issued>>
  BY DEF Execute, poolVars, callVars
<1>3. Alive' = Alive
  BY <1>2 DEF Alive
<1>4. PlacedAreNewest' /\ PublishedOrPromised'
  BY <1>1, <1>2, <1>3 DEF PlacedAreNewest, PublishedOrPromised, PlacedIn, Arena
<1>5. \A r \in reads' : completed + 1 < r.at
  <2>1. \A r \in reads : r.at \in Nat /\ completed \in Nat
    BY <1>1 DEF Typed
  <2> QED
    BY <1>2, <2>1
<1>6. ReadsKept'
  BY <1>1, <1>2, <1>3, <1>5 DEF ReadsKept, Arena
<1> QED
  BY <1>4, <1>6 DEF ReadInv

(* A synchronised device has no gather in flight.                          *)
LEMMA ShrinkKeepsReadInv ==
  ASSUME SyncedShrink, PlaceInv, ReadInv, NEW n \in Nat, Shrink(n)
  PROVE  ReadInv'
<1>1. Typed /\ PublishedOrPromised /\ ReadsKept
  BY DEF PlaceInv, ReadInv
<1>2. /\ pc = "idle" /\ completed = issued
      /\ UNCHANGED <<pc, placed, need, issued, completed, reads>>
  BY DEF Shrink, callVars, streamVars
<1>3. reads = {}
  <2>1. \A r \in reads : r.at \in Nat /\ completed < r.at /\ r.at <= issued /\ issued \in Nat
    BY <1>1 DEF Typed, ReadsKept
  <2> QED
    BY <1>2, <2>1
<1>4. Alive' \subseteq Alive /\ \A i \in Alive' : segs'[i] = segs[i]
  BY <1>1, ShrinkIs
<1>5. PlacedAreNewest' /\ ReadsKept'
  BY <1>2, <1>3 DEF PlacedAreNewest, ReadsKept
<1>6. PublishedOrPromised'
  BY <1>1, <1>2, <1>4 DEF PublishedOrPromised, Arena
<1> QED
  BY <1>5, <1>6 DEF ReadInv

LEMMA GrowKeepsReadInv ==
  ASSUME PlaceInv, ReadInv, NEW n \in Nat, Grow(n)
  PROVE  ReadInv'
<1>1. Typed /\ PublishedOrPromised /\ ReadsKept
  BY DEF PlaceInv, ReadInv
<1>2. pc = "idle" /\ UNCHANGED <<pc, placed, need, recorded, issued, completed, reads>>
  BY DEF Grow, callVars, streamVars
<1>3. /\ Alive \subseteq Alive'
      /\ \A i \in Alive : segs'[i] = segs[i]
      /\ \A i \in Alive' \ Alive : segs'[i] = NewSegment
  BY <1>1, GrowIs
<1>4. NewSegment.arena = EmptyArena /\ \A s \in Slots : EmptyArena.holds[s] = NoExpert
  BY DEF NewSegment, EmptyArena
<1>5. PlacedAreNewest'
  BY <1>2 DEF PlacedAreNewest
<1>6. ASSUME NEW i \in Alive', NEW s \in Slots, segs'[i].arena.holds[s] # NoExpert
      PROVE  segs'[i].bytes[s] = segs'[i].arena.holds[s]
  <2>1. i \in Alive /\ segs'[i] = segs[i]
    BY <1>3, <1>4, <1>6
  <2> QED
    BY <1>1, <1>2, <1>6, <2>1 DEF PublishedOrPromised, Arena
<1>7. PublishedOrPromised'
  BY <1>6 DEF PublishedOrPromised, Arena
<1>8. ReadsKept'
  BY <1>1, <1>2, <1>3 DEF ReadsKept, Arena
<1> QED
  BY <1>5, <1>7, <1>8 DEF ReadInv

LEMMA InitHasReadInv == Init => ReadInv
<1> SUFFICES ASSUME Init
             PROVE  ReadInv
  OBVIOUS
<1>1. segs = [i \in 1 .. Segments |-> NewSegment] /\ pc = "idle" /\ placed = {} /\ reads = {}
  BY DEF Init
<1>2. \A i \in Alive : Arena(i) = EmptyArena
  BY <1>1 DEF Alive, Arena, NewSegment
<1>3. \A i \in Alive, s \in Slots : Arena(i).holds[s] = NoExpert
  BY <1>2 DEF EmptyArena
<1> QED
  BY <1>1, <1>3 DEF ReadInv, PlacedAreNewest, PublishedOrPromised, ReadsKept

LEMMA NextKeepsReadInv ==
  ASSUME SyncedShrink, PlaceInv, RoomInv, ReadInv, [Next]_vars
  PROVE  ReadInv'
<1>1. ASSUME NEW q \in Requests, NEW budget \in Budgets, Want(q, budget)
      PROVE  ReadInv'
  BY <1>1, WantKeepsReadInv
<1>2. CASE Ask \/ Stall
  BY <1>2, ServeKeepsReadInv
<1>3. CASE Gather
  BY <1>3, GatherKeepsReadInv
<1>4. CASE Commit \/ Abandon
  BY <1>4, LeaveKeepsReadInv
<1>5. CASE Execute
  BY <1>5, ExecuteKeepsReadInv
<1>6. ASSUME NEW n \in 1 .. MaxSegments, Shrink(n) \/ Grow(n)
      PROVE  ReadInv'
  BY <1>6, ShrinkKeepsReadInv, GrowKeepsReadInv
<1>7. CASE UNCHANGED vars
  BY <1>7 DEF vars, poolVars, callVars, streamVars, ReadInv, PlacedAreNewest, PublishedOrPromised,
              ReadsKept, PlacedIn, Alive, Arena
<1> QED
  BY <1>1, <1>2, <1>3, <1>4, <1>5, <1>6, <1>7 DEF Next

LEMMA ReadInvariance == Fits /\ SyncedShrink /\ Spec => [](PlaceInv /\ RoomInv /\ ReadInv)
<1> SUFFICES ASSUME Fits, SyncedShrink
             PROVE  Spec => [](PlaceInv /\ RoomInv /\ ReadInv)
  BY DEF Fits
<1>1. PlaceInv /\ RoomInv /\ ReadInv /\ [Next]_vars => (PlaceInv /\ RoomInv /\ ReadInv)'
  BY NextKeepsPlaceInv, NextKeepsRoomInv, NextKeepsReadInv
<1> QED
  BY <1>1, InitHasPlaceInv, InitHasRoomInv, InitHasReadInv, PTL DEF Spec

(* No row is given away, and no fill lands on it, between the fill of a    *)
(* step and its gather's turn on the stream, if the segments have twice    *)
(* the routed set of rows and shrink is called with the device idle.       *)
THEOREM RowsStayTheirGathers == Fits /\ SyncedShrink /\ Spec => []GatherReadsItsExpert
<1>1. ReadInv => GatherReadsItsExpert
  BY DEF ReadInv, ReadsKept, GatherReadsItsExpert
<1> QED
  BY <1>1, ReadInvariance, PTL
=============================================================================
