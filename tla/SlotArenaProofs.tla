---------------------------- MODULE SlotArenaProofs ----------------------------
(***************************************************************************)
(* Facts about one slot arena, whoever drives it: the allocator on its     *)
(* own, a device row cache or a segment of the pool.  They are about the   *)
(* record that SlotArena's operators take and return, for every number of  *)
(* slots, budget, set of experts and tags, and every request of distinct   *)
(* experts that the slots can hold.                                        *)
(*                                                                         *)
(* Sound is the invariant of an arena; each operation is shown to keep it, *)
(* a request in two halves, the resolution of hits and misses and the      *)
(* demotion behind it.  That the two recency records agree needs to say    *)
(* what an insertion stamp is: the request in which the slot was used last *)
(* and its place in that request.                                          *)
(***************************************************************************)
EXTENDS SlotArena, FiniteSetTheorems, WellFoundedInduction, TLAPS

Unique(a) ==
  \A s, t \in Slots : a.holds[s] = a.holds[t] /\ a.holds[s] # NoExpert => s = t

Agree(a) ==
  \A s \in Slots :
    /\ a.active[s] > 0 <=> a.state[s] = "active"
    /\ a.pending[s] # NoTag <=> a.state[s] = "retiring"
    /\ a.holds[s] = NoExpert <=> a.state[s] = "absent"

Width == 2 * NSlots + 1

\* The stamp of an active slot lies in the range of its last request.
Stamped(a) ==
  \A s \in Slots : a.active[s] > 0 =>
    \E r \in 1 .. 2 * NSlots : a.active[s] = a.used[s] * Width + r

\* No slot was used after the last request.
Clocked(a) == \A s \in Slots : a.used[s] <= a.clock

Sound(a) ==
  /\ a \in Arenas
  /\ Unique(a)
  /\ Agree(a)
  /\ Stamped(a)
  /\ Clocked(a)

(* What may be asked of an arena.                                          *)
Routed == RequestsOver(Experts, NSlots)

-----------------------------------------------------------------------------
(* A request names at most as many experts as there are slots, each once.  *)
LEMMA RequestType ==
  ASSUME NEW req \in Routed
  PROVE  /\ DOMAIN req \subseteq 1 .. NSlots
         /\ \A i \in DOMAIN req : req[i] \in Experts
         /\ \A i, j \in DOMAIN req : req[i] = req[j] => i = j
<1>1. req \in RequestsOver(Experts, NSlots)
  BY DEF Routed
<1>2. PICK m \in 1 .. NSlots : req \in [1 .. m -> Experts]
  BY <1>1 DEF RequestsOver
<1>3. DOMAIN req = 1 .. m
  BY <1>2
<1>4. 1 .. m \subseteq 1 .. NSlots
  BY SlotArenaAssumption
<1> QED
  BY <1>1, <1>2, <1>3, <1>4 DEF RequestsOver

(* What is asked for can be counted.                                       *)
LEMMA RequestFinite ==
  ASSUME NEW req \in Routed, NEW M, M \subseteq DOMAIN req
  PROVE  IsFiniteSet(M) /\ M \subseteq Nat /\ Cardinality(M) \in Nat
<1>1. M \subseteq 1 .. NSlots
  BY RequestType
<1>2. IsFiniteSet(1 .. NSlots)
  BY FS_Interval, SlotArenaAssumption
<1>3. IsFiniteSet(M)
  BY <1>1, <1>2, FS_Subset
<1> QED
  BY <1>1, <1>3, FS_CardinalityType, SlotArenaAssumption

(* slot_of finds the one slot of an expert that has one.                   *)
LEMMA SlotOfIs ==
  ASSUME NEW a, Sound(a), NEW e \in Experts, SlotsOf(a, e) # {}
  PROVE  /\ SlotOf(a, e) \in Slots
         /\ a.holds[SlotOf(a, e)] = e
         /\ a.state[SlotOf(a, e)] # "absent"
         /\ SlotsOf(a, e) = {SlotOf(a, e)}
<1>1. PICK s \in SlotsOf(a, e) : TRUE
  OBVIOUS
<1>2. e # NoExpert
  BY SlotArenaAssumption
<1>3. \A t \in SlotsOf(a, e) : t = s
  BY <1>1, <1>2 DEF SlotsOf, Sound, Unique
<1>4. s <= s
  BY <1>1, SlotArenaAssumption DEF SlotsOf, Slots
<1>5. SlotOf(a, e) \in SlotsOf(a, e)
  BY <1>1, <1>3, <1>4 DEF SlotOf, Lowest
<1> QED
  BY <1>3, <1>5 DEF SlotsOf

(* The claim loop gives different misses different slots, none of a hit,   *)
(* none retiring.                                                          *)
LEMMA ClaimsApart ==
  ASSUME NEW a, Sound(a), NEW req \in Routed, NEW tag, NEW c \in Claims(a, req, tag)
  PROVE  /\ c \in [Misses(a, req) -> Slots]
         /\ DOMAIN c = Misses(a, req)
         /\ \A i \in DOMAIN c : c[i] \notin HitSlots(a, req) /\ a.state[c[i]] # "retiring"
         /\ \A i, j \in DOMAIN c : c[i] = c[j] => i = j
<1>1. /\ c \in [Misses(a, req) -> Claimable(a, req, tag)]
      /\ \A i \in Misses(a, req) : \A s \in Claimable(a, req, tag) :
           Sooner(a, s, c[i]) <=> \E j \in Misses(a, req) : j < i /\ c[j] = s
  BY DEF Claims
<1>2. \A s \in Claimable(a, req, tag) :
        s \in Slots /\ s \notin HitSlots(a, req) /\ a.state[s] # "retiring"
  BY DEF Claimable
<1>3. \A s \in Slots : a.used[s] \in Nat /\ s \in Int
  BY SlotArenaAssumption DEF Sound, Arenas, Slots
<1>4. \A s \in Slots : Class(a, s) \in Nat
  BY DEF Class
<1>5. \A s \in Slots : ~Sooner(a, s, s)
  BY <1>3, <1>4 DEF Sooner
<1>6. ASSUME NEW i \in Misses(a, req), NEW j \in Misses(a, req), j < i
      PROVE  c[j] # c[i]
  BY <1>1, <1>2, <1>5, <1>6
<1>7. \A i \in Misses(a, req) : i \in Int
  BY RequestType, SlotArenaAssumption DEF Misses
<1>8. ASSUME NEW i \in Misses(a, req), NEW j \in Misses(a, req), c[i] = c[j]
      PROVE  i = j
  BY <1>6, <1>7, <1>8
<1> QED
  BY <1>1, <1>2, <1>8

(* What want assigns: a slot for each expert asked for, all different.     *)
LEMMA AssignedIs ==
  ASSUME NEW a, Sound(a), NEW req \in Routed, NEW tag, NEW c \in Claims(a, req, tag),
         NEW i \in DOMAIN req
  PROVE  LET at == Assigned(a, req, c)
         IN /\ DOMAIN at = DOMAIN req
            /\ at[i] \in Slots
            /\ i \in DOMAIN c => at[i] = c[i] /\ SlotsOf(a, req[i]) = {}
            /\ i \notin DOMAIN c => at[i] = SlotOf(a, req[i]) /\ a.holds[at[i]] = req[i]
                                      /\ at[i] \in HitSlots(a, req)
            /\ \A j \in DOMAIN req : at[j] = at[i] => j = i
<1> DEFINE at == Assigned(a, req, c)
<1>1. DOMAIN at = DOMAIN req
  BY DEF Assigned
<1>0. /\ DOMAIN c = Misses(a, req)
      /\ \A j \in DOMAIN c : c[j] \in Slots /\ c[j] \notin HitSlots(a, req)
      /\ \A j, k \in DOMAIN c : c[j] = c[k] => j = k
  BY ClaimsApart
<1>2. ASSUME NEW j \in DOMAIN req, j \in DOMAIN c
      PROVE  at[j] = c[j] /\ at[j] \in Slots /\ SlotsOf(a, req[j]) = {}
               /\ at[j] \notin HitSlots(a, req)
  <2>1. at[j] = c[j]
    BY <1>2 DEF Assigned
  <2>2. SlotsOf(a, req[j]) = {}
    BY <1>2, <1>0 DEF Misses, Hits
  <2> QED
    BY <2>1, <2>2, <1>2, <1>0
<1>3. ASSUME NEW j \in DOMAIN req, j \notin DOMAIN c
      PROVE  /\ at[j] = SlotOf(a, req[j])
             /\ at[j] \in Slots
             /\ a.holds[at[j]] = req[j]
             /\ at[j] \in HitSlots(a, req)
  <2>1. j \in Hits(a, req) /\ at[j] = SlotOf(a, req[j])
    <3>1. j \in Hits(a, req)
      BY <1>3, <1>0 DEF Misses
    <3>2. at[j] = SlotOf(a, req[j])
      BY <1>3 DEF Assigned
    <3> QED
      BY <3>1, <3>2
  <2>2. req[j] \in Experts /\ SlotsOf(a, req[j]) # {}
    BY <2>1, RequestType DEF Hits
  <2> QED
    BY <2>1, <2>2, SlotOfIs DEF HitSlots
<1>4. ASSUME NEW j \in DOMAIN req, at[j] = at[i]
      PROVE  j = i
  <2>1. CASE i \in DOMAIN c /\ j \in DOMAIN c
    BY <2>1, <1>2, <1>4, <1>0
  <2>2. CASE i \notin DOMAIN c /\ j \notin DOMAIN c
    BY <2>2, <1>3, <1>4, RequestType
  <2>3. CASE i \in DOMAIN c <=> j \notin DOMAIN c
    BY <2>3, <1>2, <1>3, <1>4
  <2> QED
    BY <2>1, <2>2, <2>3
<1> QED
  BY <1>1, <1>2, <1>3, <1>4

(* Sets of slots have a size.                                              *)
LEMMA SlotsCounted ==
  ASSUME NEW S, S \subseteq Slots
  PROVE  Cardinality(S) \in Nat
<1>1. IsFiniteSet(Slots)
  BY FS_Interval, SlotArenaAssumption DEF Slots
<1>2. IsFiniteSet(S)
  BY <1>1, FS_Subset
<1> QED
  BY <1>2, FS_CardinalityType

(* Demotion takes slots out of the index, and leaves what they hold.       *)
LEMMA DemotedIs ==
  ASSUME NEW a, Sound(a), NEW keep, NEW tag \in Tags \cup {NoTag}
  PROVE  /\ Sound(Demoted(a, keep, tag))
         /\ Demoted(a, keep, tag).holds = a.holds
         /\ Demoted(a, keep, tag).gen = a.gen
<1> DEFINE d == Demoted(a, keep, tag)
           vs == Victims(a, keep)
<1>1. vs \subseteq Slots /\ \A s \in vs : a.active[s] > 0
  BY DEF Victims, ActiveSlots
<1>0. d = [a EXCEPT !.state = d.state, !.pending = d.pending, !.active = d.active, !.owed = d.owed]
  <2> HIDE DEF vs
  <2>1. a \in Arenas
    BY DEF Sound
  <2> QED
    BY <2>1 DEF Arenas, Demoted
<1>2. /\ d.holds = a.holds
      /\ d.gen = a.gen
      /\ d.used = a.used
      /\ d.clock = a.clock
      /\ d.owed = a.owed + Cardinality(vs)
      /\ d.state = [s \in Slots |-> IF s \in vs THEN DemotedState(tag) ELSE a.state[s]]
      /\ d.pending = [s \in Slots |-> IF s \in vs /\ tag # NoTag THEN tag ELSE a.pending[s]]
      /\ d.active = [s \in Slots |-> IF s \in vs THEN 0 ELSE a.active[s]]
  <2> HIDE DEF vs
  <2>1. d = [a EXCEPT
               !.state   = [s \in Slots |-> IF s \in vs THEN DemotedState(tag) ELSE a.state[s]],
               !.pending = [s \in Slots |-> IF s \in vs /\ tag # NoTag THEN tag ELSE a.pending[s]],
               !.active  = [s \in Slots |-> IF s \in vs THEN 0 ELSE a.active[s]],
               !.owed    = a.owed + Cardinality(vs)]
    BY DEF Demoted, vs
  <2>2. a \in Arenas
    BY DEF Sound
  <2> HIDE DEF d
  <2> QED
    BY <2>1, <2>2 DEF Arenas
<1> HIDE DEF d, vs
<1>3. Cardinality(vs) \in Nat
  BY <1>1, SlotsCounted
<1>4. d \in Arenas
  <2>1. d.state \in [Slots -> {"active", "retiring", "reclaimable", "absent"}]
    BY <1>2 DEF DemotedState, Sound, Arenas
  <2>2. d.pending \in [Slots -> Tags \cup {NoTag}]
    BY <1>2 DEF Sound, Arenas
  <2>3. d.active \in [Slots -> Nat]
    BY <1>2 DEF Sound, Arenas
  <2>4. d.owed \in Int
    BY <1>2, <1>3 DEF Sound, Arenas
  <2> QED
    BY <1>0, <2>1, <2>2, <2>3, <2>4 DEF Sound, Arenas
<1>5. Unique(d)
  BY <1>2 DEF Sound, Unique
<1>6. Agree(d)
  BY <1>1, <1>2 DEF Sound, Arenas, Agree, DemotedState
<1>7. Stamped(d)
  BY <1>2 DEF Sound, Arenas, Stamped
<1>8. Clocked(d)
  BY <1>2 DEF Sound, Clocked
<1> QED
  BY <1>2, <1>4, <1>5, <1>6, <1>7, <1>8 DEF Sound, d

(* Resolving a request keeps the arena sound: slots that change hands were *)
(* not retiring, and move their generation.                                *)
LEMMA ResolvedIs ==
  ASSUME NEW a, Sound(a), NEW req \in Routed, NEW tag, NEW c \in Claims(a, req, tag)
  PROVE  LET r == Resolved(a, req, c)
         IN /\ Sound(r)
            /\ \A s \in Slots : a.state[s] = "retiring" => r.holds[s] = a.holds[s]
            /\ \A s \in Slots : r.holds[s] # a.holds[s] => r.gen[s] > a.gen[s]
<1> DEFINE r == Resolved(a, req, c)
           at == Assigned(a, req, c)
           keep == {at[i] : i \in DOMAIN req}
           claimed == {c[i] : i \in DOMAIN c}
           expert == [s \in claimed |-> req[CHOOSE i \in DOMAIN c : c[i] = s]]
<1>1. /\ r.holds = [s \in Slots |-> IF s \in claimed THEN expert[s] ELSE a.holds[s]]
      /\ r.state = [s \in Slots |-> IF s \in keep THEN "active" ELSE a.state[s]]
      /\ r.gen = [s \in Slots |-> IF s \in claimed THEN a.gen[s] + 1 ELSE a.gen[s]]
      /\ r.pending = [s \in Slots |-> IF s \in keep /\ a.state[s] = "retiring"
                                        THEN NoTag ELSE a.pending[s]]
      /\ r.used = [s \in Slots |-> IF s \in keep THEN a.clock + 1 ELSE a.used[s]]
      /\ r.active = [s \in Slots |-> IF s \in keep THEN Stamp(a, at, c, s) ELSE a.active[s]]
      /\ r.clock = a.clock + 1
      /\ r.owed = a.owed - Cardinality(Resolutions(a, keep))
      /\ r = [holds |-> r.holds, state |-> r.state, gen |-> r.gen, pending |-> r.pending,
              used |-> r.used, active |-> r.active, clock |-> r.clock, owed |-> r.owed]
  BY DEF Resolved
<1>2. /\ DOMAIN c \subseteq DOMAIN req
      /\ \A i \in DOMAIN c : a.state[c[i]] # "retiring" /\ c[i] \in Slots
      /\ \A i, j \in DOMAIN c : c[i] = c[j] => i = j
  <2>1. Misses(a, req) \subseteq DOMAIN req
    BY DEF Misses
  <2>2. /\ c \in [Misses(a, req) -> Slots]
        /\ DOMAIN c = Misses(a, req)
        /\ \A i \in DOMAIN c : a.state[c[i]] # "retiring"
        /\ \A i, j \in DOMAIN c : c[i] = c[j] => i = j
    BY ClaimsApart
  <2> QED
    BY <2>1, <2>2
<1>3. ASSUME NEW i \in DOMAIN c
      PROVE  c[i] \in claimed /\ expert[c[i]] = req[i]
  BY <1>2
<1>4. \A i \in DOMAIN req : at[i] \in Slots /\ (i \in DOMAIN c => at[i] = c[i])
  BY AssignedIs
<1>5. claimed \subseteq keep /\ keep \subseteq Slots /\ DOMAIN at = DOMAIN req
  BY <1>2, <1>4 DEF Assigned
<1>6. \A s \in claimed : a.state[s] # "retiring" /\ expert[s] \in Experts
  BY <1>2, <1>3, RequestType
<1>7. ASSUME NEW s \in keep
      PROVE  \E k \in 1 .. 2 * NSlots : Stamp(a, at, c, s) = (a.clock + 1) * Width + k
  <2> DEFINE i == CHOOSE k \in DOMAIN at : at[k] = s
  <2>1. i \in DOMAIN req
    BY <1>5
  <2>2. i \in 1 .. NSlots
    BY <2>1, RequestType
  <2>3. Stamp(a, at, c, s) = (a.clock + 1) * Width + (IF i \in DOMAIN c THEN NSlots + i ELSE i)
    BY DEF Stamp, Width
  <2> HIDE DEF i
  <2>4. (IF i \in DOMAIN c THEN NSlots + i ELSE i) \in 1 .. 2 * NSlots
    BY <2>2, SlotArenaAssumption
  <2> QED
    BY <2>3, <2>4
<1>8. Resolutions(a, keep) \subseteq Slots
  BY <1>5 DEF Resolutions
<1>9. Cardinality(Resolutions(a, keep)) \in Nat
  BY <1>8, SlotsCounted
<1>10. ASSUME NEW s \in Slots, s \in keep, s \notin claimed
       PROVE  a.holds[s] \in Experts
  <2>1. PICK i \in DOMAIN req : at[i] = s
    BY <1>10
  <2>2. i \notin DOMAIN c
    BY <1>3, <1>4, <1>10, <2>1
  <2>3. a.holds[s] = req[i]
    BY <2>1, <2>2, AssignedIs
  <2> QED
    BY <2>3, RequestType
<1>11. ASSUME NEW s \in claimed, NEW t \in Slots, t \notin claimed
       PROVE  a.holds[t] # expert[s]
  <2>1. PICK i \in DOMAIN c : c[i] = s
    OBVIOUS
  <2>2. i \in DOMAIN req /\ SlotsOf(a, req[i]) = {} /\ req[i] \in Experts
    BY <2>1, <1>2, AssignedIs, RequestType
  <2>3. a.holds[t] # req[i]
    BY <2>2, SlotArenaAssumption DEF SlotsOf, Sound, Agree
  <2> QED
    BY <2>1, <2>3, <1>3
<1>12. ASSUME NEW s \in claimed, NEW t \in claimed, expert[s] = expert[t]
       PROVE  s = t
  <2>1. PICK i \in DOMAIN c, j \in DOMAIN c : c[i] = s /\ c[j] = t
    OBVIOUS
  <2>2. expert[s] = req[i] /\ expert[t] = req[j]
    BY <2>1, <1>3
  <2>3. req[i] = req[j]
    BY <2>2, <1>12
  <2> QED
    BY <2>1, <2>3, <1>2, RequestType
<1> HIDE DEF r, at, keep, claimed, expert
<1>13. Width \in Nat
  BY SlotArenaAssumption DEF Width
<1>14. r \in Arenas
  <2>1. r.holds \in [Slots -> Experts \cup {NoExpert}]
    BY <1>1, <1>6 DEF Sound, Arenas
  <2>2. r.state \in [Slots -> {"active", "retiring", "reclaimable", "absent"}]
    BY <1>1 DEF Sound, Arenas
  <2>3. r.gen \in [Slots -> Nat] /\ r.used \in [Slots -> Nat] /\ r.clock \in Nat
    BY <1>1 DEF Sound, Arenas
  <2>4. r.pending \in [Slots -> Tags \cup {NoTag}]
    BY <1>1 DEF Sound, Arenas
  <2>5. \A s \in keep : Stamp(a, at, c, s) \in Nat
    BY <1>7, <1>13, SlotArenaAssumption DEF Sound, Arenas
  <2>6. r.active \in [Slots -> Nat]
    BY <1>1, <2>5 DEF Sound, Arenas
  <2>7. r.owed \in Int
    BY <1>1, <1>9 DEF Sound, Arenas
  <2> QED
    BY <1>1, <2>1, <2>2, <2>3, <2>4, <2>6, <2>7 DEF Arenas
<1>15. Unique(r)
  <2> SUFFICES ASSUME NEW s \in Slots, NEW t \in Slots,
                      r.holds[s] = r.holds[t], r.holds[s] # NoExpert
               PROVE  s = t
    BY DEF Unique
  <2>1. CASE s \in claimed /\ t \in claimed
    BY <2>1, <1>1, <1>12
  <2>2. CASE s \in claimed /\ t \notin claimed
    BY <2>2, <1>1, <1>11
  <2>3. CASE s \notin claimed /\ t \in claimed
    BY <2>3, <1>1, <1>11
  <2>4. CASE s \notin claimed /\ t \notin claimed
    BY <2>4, <1>1 DEF Sound, Unique
  <2> QED
    BY <2>1, <2>2, <2>3, <2>4
<1>16. Agree(r)
  <2> SUFFICES ASSUME NEW s \in Slots
               PROVE  /\ r.active[s] > 0 <=> r.state[s] = "active"
                      /\ r.pending[s] # NoTag <=> r.state[s] = "retiring"
                      /\ r.holds[s] = NoExpert <=> r.state[s] = "absent"
    BY DEF Agree
  <2>1. CASE s \in keep
    <3>1. Stamp(a, at, c, s) > 0
      <4>1. PICK k \in 1 .. 2 * NSlots : Stamp(a, at, c, s) = (a.clock + 1) * Width + k
        BY <1>7, <2>1
      <4>2. (a.clock + 1) * Width \in Nat
        BY <1>13 DEF Sound, Arenas
      <4> QED
        BY <4>1, <4>2
    <3>2. r.holds[s] \in Experts
      BY <1>1, <1>6, <1>10, <2>1
    <3>3. r.pending[s] = NoTag
      BY <1>1, <2>1 DEF Sound, Agree
    <3> QED
      BY <1>1, <2>1, <3>1, <3>2, <3>3, SlotArenaAssumption
  <2>2. CASE s \notin keep
    BY <1>1, <1>5, <2>2 DEF Sound, Agree
  <2> QED
    BY <2>1, <2>2
<1>17. Stamped(r)
  <2> SUFFICES ASSUME NEW s \in Slots, r.active[s] > 0
               PROVE  \E k \in 1 .. 2 * NSlots : r.active[s] = r.used[s] * Width + k
    BY DEF Stamped
  <2>1. CASE s \in keep
    BY <1>1, <1>7, <2>1
  <2>2. CASE s \notin keep
    BY <1>1, <2>2 DEF Sound, Stamped
  <2> QED
    BY <2>1, <2>2
<1>18. ASSUME NEW s \in Slots, a.state[s] = "retiring"
       PROVE  r.holds[s] = a.holds[s]
  BY <1>1, <1>6, <1>18
<1>19. ASSUME NEW s \in Slots, r.holds[s] # a.holds[s]
       PROVE  r.gen[s] > a.gen[s]
  BY <1>1, <1>19 DEF Sound, Arenas
<1>20. Clocked(r)
  BY <1>1 DEF Sound, Arenas, Clocked
<1> QED
  BY <1>14, <1>15, <1>16, <1>17, <1>18, <1>19, <1>20 DEF Sound, r

-----------------------------------------------------------------------------
(* The empty arena is sound.                                               *)
LEMMA EmptyIsSound == Sound(EmptyArena)
<1>1. EmptyArena \in Arenas
  BY SlotArenaAssumption DEF EmptyArena, Arenas
<1>2. Unique(EmptyArena) /\ Agree(EmptyArena) /\ Stamped(EmptyArena) /\ Clocked(EmptyArena)
  BY DEF EmptyArena, Unique, Agree, Stamped, Clocked
<1> QED
  BY <1>1, <1>2 DEF Sound

(* A request keeps the arena sound; what is retiring keeps its expert, and *)
(* what changes hands its generation does not.                             *)
LEMMA WantedIsSound ==
  ASSUME NEW a, Sound(a), NEW req \in Routed, NEW tag \in Tags \cup {NoTag},
         NEW c \in Claims(a, req, tag)
  PROVE  LET b == Wanted(a, req, tag, c)
         IN /\ Sound(b)
            /\ \A s \in Slots : a.state[s] = "retiring" => b.holds[s] = a.holds[s]
            /\ \A s \in Slots : b.holds[s] # a.holds[s] => b.gen[s] > a.gen[s]
<1> DEFINE r == Resolved(a, req, c)
           at == Assigned(a, req, c)
           keep == {at[i] : i \in DOMAIN req}
           b == Wanted(a, req, tag, c)
<1>1. b = Demoted(r, keep, tag)
  BY DEF Wanted
<1>2. /\ Sound(r)
      /\ \A s \in Slots : a.state[s] = "retiring" => r.holds[s] = a.holds[s]
      /\ \A s \in Slots : r.holds[s] # a.holds[s] => r.gen[s] > a.gen[s]
  BY ResolvedIs
<1> HIDE DEF r, keep, b
<1>3. Sound(b) /\ b.holds = r.holds /\ b.gen = r.gen
  BY <1>1, <1>2, DemotedIs
<1> QED
  BY <1>2, <1>3 DEF b


(* settle frees what was retiring, and nothing changes hands.              *)
LEMMA SettledIsSound ==
  ASSUME NEW a, Sound(a), NEW done \in SUBSET Tags
  PROVE  Sound(Settled(a, done)) /\ Settled(a, done).holds = a.holds
<1> DEFINE b == Settled(a, done)
           fired == {s \in Slots : a.pending[s] # NoTag /\ a.pending[s] \in done}
           freed == {s \in fired : a.state[s] = "retiring"}
           pending == [s \in Slots |-> IF s \in fired THEN NoTag ELSE a.pending[s]]
           state == [s \in Slots |-> IF s \in freed THEN "reclaimable" ELSE a.state[s]]
           active == [s \in Slots |-> IF s \in freed THEN 0 ELSE a.active[s]]
<1>1. a \in Arenas
  BY DEF Sound
<1>2. b = [a EXCEPT !.pending = pending, !.state = state, !.active = active]
  BY <1>1 DEF Settled, Arenas
<1>3. \A s \in Slots : s \in fired <=> s \in freed
  BY DEF Sound, Agree
<1>4. /\ pending \in [Slots -> Tags \cup {NoTag}]
      /\ state \in [Slots -> {"active", "retiring", "reclaimable", "absent"}]
      /\ active \in [Slots -> Nat]
  BY <1>1 DEF Arenas
<1>5. \A s \in Slots :
        /\ s \in freed => pending[s] = NoTag /\ state[s] = "reclaimable" /\ active[s] = 0
                            /\ a.state[s] = "retiring"
        /\ s \notin freed => /\ pending[s] = a.pending[s]
                             /\ state[s] = a.state[s]
                             /\ active[s] = a.active[s]
  BY <1>3
<1> HIDE DEF b, fired, freed, pending, state, active
<1>6. /\ b \in Arenas
      /\ b.holds = a.holds /\ b.used = a.used /\ b.clock = a.clock
      /\ b.pending = pending /\ b.state = state /\ b.active = active
  BY <1>1, <1>2, <1>4 DEF Arenas
<1>7. Unique(b)
  BY <1>6 DEF Sound, Unique
<1>8. Agree(b)
  BY <1>5, <1>6 DEF Sound, Agree
<1>9. Stamped(b) /\ Clocked(b)
  BY <1>5, <1>6 DEF Sound, Stamped, Clocked
<1> QED
  BY <1>6, <1>7, <1>8, <1>9 DEF Sound, b

(* discard empties slots and moves their generation.                       *)
LEMMA DiscardedIsSound ==
  ASSUME NEW a, Sound(a), NEW es \in SUBSET Experts
  PROVE  LET b == Discarded(a, es)
         IN /\ Sound(b)
            /\ \A s \in Slots : b.holds[s] # a.holds[s] =>
                 b.state[s] = "absent" /\ b.gen[s] > a.gen[s]
<1> DEFINE b == Discarded(a, es)
           gone == {SlotOf(a, e) : e \in {x \in es : SlotsOf(a, x) # {}}}
           holds == [s \in Slots |-> IF s \in gone THEN NoExpert ELSE a.holds[s]]
           state == [s \in Slots |-> IF s \in gone THEN "absent" ELSE a.state[s]]
           gen == [s \in Slots |-> IF s \in gone THEN a.gen[s] + 1 ELSE a.gen[s]]
           pending == [s \in Slots |-> IF s \in gone THEN NoTag ELSE a.pending[s]]
           active == [s \in Slots |-> IF s \in gone THEN 0 ELSE a.active[s]]
<1>1. a \in Arenas
  BY DEF Sound
<1>2. b = [a EXCEPT !.holds = holds, !.state = state, !.gen = gen,
                             !.pending = pending, !.active = active]
  BY <1>1 DEF Discarded, Arenas
<1>3. /\ holds \in [Slots -> Experts \cup {NoExpert}]
      /\ state \in [Slots -> {"active", "retiring", "reclaimable", "absent"}]
      /\ gen \in [Slots -> Nat]
      /\ pending \in [Slots -> Tags \cup {NoTag}]
      /\ active \in [Slots -> Nat]
  BY <1>1 DEF Arenas
<1>4. \A s \in Slots :
        /\ s \in gone => /\ holds[s] = NoExpert /\ state[s] = "absent"
                         /\ gen[s] > a.gen[s] /\ pending[s] = NoTag /\ active[s] = 0
        /\ s \notin gone => /\ holds[s] = a.holds[s] /\ state[s] = a.state[s]
                            /\ pending[s] = a.pending[s] /\ active[s] = a.active[s]
  BY <1>1 DEF Arenas
<1> HIDE DEF b, gone, holds, state, gen, pending, active
<1>5. /\ b \in Arenas
      /\ b.holds = holds /\ b.state = state /\ b.gen = gen
      /\ b.pending = pending /\ b.active = active /\ b.used = a.used /\ b.clock = a.clock
  BY <1>1, <1>2, <1>3 DEF Arenas
<1>6. Unique(b)
  BY <1>4, <1>5 DEF Sound, Unique
<1>7. Agree(b)
  BY <1>4, <1>5 DEF Sound, Agree
<1>8. Stamped(b) /\ Clocked(b)
  BY <1>4, <1>5 DEF Sound, Stamped, Clocked
<1> QED
  BY <1>4, <1>5, <1>6, <1>7, <1>8 DEF Sound, b

-----------------------------------------------------------------------------
(* A set of natural numbers has a lowest one.                              *)
LEMMA LowestIs ==
  ASSUME NEW S, S \subseteq Nat, S # {}
  PROVE  Lowest(S) \in S /\ \A t \in S : Lowest(S) <= t
<1> DEFINE R == {p \in Nat \X Nat : p[1] < p[2]}
<1>1. IsWellFoundedOn(R, Nat)
  BY NatLessThanWellFounded DEF OpToRel
<1> HIDE DEF R
<1>2. PICK m \in S : \A t \in S : ~(<<t, m>> \in R)
  BY <1>1, WFMin
<1>3. \A t \in S : ~(t < m)
  BY <1>2 DEF R
<1>4. \A t \in S : m <= t
  BY <1>3
<1> QED
  BY <1>4 DEF Lowest

(* A set of slots is finite.                                               *)
LEMMA SlotsFinite ==
  ASSUME NEW S, S \subseteq Slots
  PROVE  IsFiniteSet(S)
<1>1. IsFiniteSet(Slots)
  BY FS_Interval, SlotArenaAssumption DEF Slots
<1> QED
  BY <1>1, FS_Subset

(* Some slot of a set is claimed before all the others.                    *)
LEMMA SoonestIs ==
  ASSUME NEW a, Sound(a), NEW C, C \subseteq Slots, C # {}
  PROVE  \E s \in C : \A t \in C : ~Sooner(a, t, s) /\ (t # s => Sooner(a, s, t))
<1>1. \A s \in C : s \in Nat /\ a.used[s] \in Nat /\ Class(a, s) \in Nat
  BY SlotArenaAssumption DEF Sound, Arenas, Slots, Class
<1> DEFINE K == {Class(a, s) : s \in C}
           k == Lowest(K)
           C2 == {s \in C : Class(a, s) = k}
           U == {a.used[s] : s \in C2}
           u == Lowest(U)
           C3 == {s \in C2 : a.used[s] = u}
<1>2. k \in K /\ \A t \in K : k <= t
  <2>1. K \subseteq Nat /\ K # {}
    BY <1>1
  <2> HIDE DEF K
  <2> QED
    BY <2>1, LowestIs
<1>3. k \in Nat /\ C2 # {} /\ C2 \subseteq C /\ \A t \in C : k <= Class(a, t)
  BY <1>1, <1>2
<1> HIDE DEF K, k
<1>4. u \in U /\ \A t \in U : u <= t
  <2>1. U \subseteq Nat /\ U # {}
    BY <1>1, <1>3
  <2> HIDE DEF U
  <2> QED
    BY <2>1, LowestIs
<1>5. u \in Nat /\ C3 # {} /\ C3 \subseteq C /\ \A t \in C2 : u <= a.used[t]
  BY <1>1, <1>4
<1> HIDE DEF U, u
<1>6. Lowest(C3) \in C3 /\ \A t \in C3 : Lowest(C3) <= t
  <2>1. C3 \subseteq Nat /\ C3 # {}
    BY <1>1, <1>5
  <2> HIDE DEF C3
  <2> QED
    BY <2>1, LowestIs
<1> DEFINE s == Lowest(C3)
<1> HIDE DEF s
<1>7. s \in C /\ Class(a, s) = k /\ a.used[s] = u /\ \A t \in C3 : s <= t
  BY <1>6 DEF s
<1>8. ASSUME NEW t \in C
      PROVE  ~Sooner(a, t, s) /\ (t # s => Sooner(a, s, t))
  <2>1. k <= Class(a, t) /\ Class(a, t) \in Nat /\ a.used[t] \in Nat /\ t \in Nat /\ s \in Nat
    BY <1>1, <1>3, <1>7
  <2>2. Class(a, t) = k => u <= a.used[t]
    BY <1>5
  <2>3. Class(a, t) = k /\ a.used[t] = u => s <= t
    BY <1>7
  <2> HIDE DEF C2, C3
  <2> QED
    BY <1>3, <1>5, <1>7, <2>1, <2>2, <2>3 DEF Sooner
<1> QED
  BY <1>7, <1>8

(* The claim loop, over any positions and any slots.                       *)
InTurn(a, M, C, c) ==
  \A i \in M : \A s \in C : Sooner(a, s, c[i]) <=> \E j \in M : j < i /\ c[j] = s

(* One turn of the loop: the first position takes the soonest slot.        *)
LEMMA TakeSoonest ==
  ASSUME NEW a, Sound(a), NEW M, M \subseteq Nat, NEW C, C \subseteq Slots,
         NEW i \in M, \A j \in M : i <= j,
         NEW s \in C, \A t \in C : ~Sooner(a, t, s) /\ (t # s => Sooner(a, s, t)),
         NEW d \in [M \ {i} -> C \ {s}], InTurn(a, M \ {i}, C \ {s}, d)
  PROVE  \E c \in [M -> C] : InTurn(a, M, C, c)
<1> DEFINE c == [j \in M |-> IF j = i THEN s ELSE d[j]]
<1>1. c \in [M -> C]
  OBVIOUS
<1>2. c[i] = s /\ \A j \in M \ {i} : c[j] = d[j] /\ d[j] \in C \ {s} /\ i < j
  OBVIOUS
<1> HIDE DEF c
<1>3. ASSUME NEW k \in M, NEW t \in C
      PROVE  Sooner(a, t, c[k]) <=> \E j \in M : j < k /\ c[j] = t
  <2>1. CASE k = i
    <3>1. \A j \in M : ~(j < i)
      OBVIOUS
    <3> QED
      BY <1>2, <2>1, <3>1
  <2>2. CASE k # i /\ t = s
    BY <1>2, <2>2
  <2>3. CASE k # i /\ t # s
    <3>1. Sooner(a, t, d[k]) <=> \E j \in M \ {i} : j < k /\ d[j] = t
      BY <2>3 DEF InTurn
    <3>2. (\E j \in M \ {i} : j < k /\ d[j] = t) <=> (\E j \in M : j < k /\ c[j] = t)
      BY <1>2, <2>3
    <3> QED
      BY <1>2, <2>3, <3>1, <3>2
  <2> QED
    BY <2>1, <2>2, <2>3
<1> QED
  BY <1>1, <1>3 DEF InTurn

(* The loop finds a slot for every position if there are enough of them:   *)
(* there is no least number of positions for which it does not.            *)
LEMMA LoopSucceeds ==
  ASSUME NEW a, Sound(a)
  PROVE  \A M \in SUBSET Nat, C \in SUBSET Slots :
           IsFiniteSet(M) /\ Cardinality(M) <= Cardinality(C) =>
             \E c \in [M -> C] : InTurn(a, M, C, c)
<1> DEFINE Fails(M, C) == /\ IsFiniteSet(M)
                          /\ Cardinality(M) <= Cardinality(C)
                          /\ ~\E c \in [M -> C] : InTurn(a, M, C, c)
           Bad == {n \in Nat : \E M \in SUBSET Nat, C \in SUBSET Slots :
                                 Fails(M, C) /\ Cardinality(M) = n}
<1>1. SUFFICES ASSUME Bad # {}
               PROVE  FALSE
  <2>1. \A M \in SUBSET Nat, C \in SUBSET Slots : Fails(M, C) => Cardinality(M) \in Bad
    BY FS_CardinalityType
  <2> QED
    BY <2>1
<1>2. PICK n \in Bad : \A k \in Bad : n <= k
  <2>1. Bad \subseteq Nat
    OBVIOUS
  <2> HIDE DEF Bad
  <2> QED
    BY <1>1, <2>1, LowestIs
<1>3. PICK M \in SUBSET Nat, C \in SUBSET Slots : Fails(M, C) /\ Cardinality(M) = n
  OBVIOUS
<1>4. n \in Nat /\ IsFiniteSet(M) /\ IsFiniteSet(C) /\ n <= Cardinality(C)
  BY <1>3, SlotsFinite
<1>5. M # {}
  <2> SUFFICES ASSUME M = {}
               PROVE  FALSE
    OBVIOUS
  <2> DEFINE c == [j \in M |-> CHOOSE s \in C : TRUE]
  <2>1. c \in [M -> C] /\ InTurn(a, M, C, c)
    BY DEF InTurn
  <2> QED
    BY <1>3, <2>1
<1>6. n > 0 /\ C # {}
  BY <1>3, <1>4, <1>5, FS_EmptySet
<1> DEFINE i == Lowest(M)
<1>7. i \in M /\ \A j \in M : i <= j
  BY <1>5, LowestIs
<1> HIDE DEF i
<1>8. PICK s \in C : \A t \in C : ~Sooner(a, t, s) /\ (t # s => Sooner(a, s, t))
  BY <1>6, SoonestIs
<1>9. /\ IsFiniteSet(M \ {i}) /\ Cardinality(M \ {i}) = n - 1
      /\ IsFiniteSet(C \ {s}) /\ Cardinality(C \ {s}) = Cardinality(C) - 1
  BY <1>3, <1>4, <1>7, FS_RemoveElement
<1>10. n - 1 \notin Bad
  BY <1>2, <1>4
<1>11. Cardinality(C) \in Nat
  BY <1>4, FS_CardinalityType
<1>12. ~Fails(M \ {i}, C \ {s})
  <2>1. n - 1 \in Nat
    BY <1>4, <1>6
  <2>2. M \ {i} \in SUBSET Nat /\ C \ {s} \in SUBSET Slots
    OBVIOUS
  <2> HIDE DEF Fails
  <2> QED
    BY <1>9, <1>10, <2>1, <2>2
<1>13. PICK d \in [M \ {i} -> C \ {s}] : InTurn(a, M \ {i}, C \ {s}, d)
  <2>1. Cardinality(M \ {i}) <= Cardinality(C \ {s})
    BY <1>4, <1>9, <1>11
  <2> QED
    BY <1>9, <1>12, <2>1
<1>14. \E c \in [M -> C] : InTurn(a, M, C, c)
  <2>1. M \subseteq Nat /\ C \subseteq Slots
    OBVIOUS
  <2> QED
    BY <1>7, <1>8, <1>13, <2>1, TakeSoonest
<1> QED
  BY <1>3, <1>14

(* want serves a request whenever there are as many claimable slots as     *)
(* misses.                                                                 *)
LEMMA ClaimsExist ==
  ASSUME NEW a, Sound(a), NEW req \in Routed, NEW tag,
         Cardinality(Misses(a, req)) <= Cardinality(Claimable(a, req, tag))
  PROVE  Claims(a, req, tag) # {}
<1> DEFINE M == Misses(a, req)
           C == Claimable(a, req, tag)
<1>1. M \subseteq DOMAIN req /\ C \subseteq Slots
  BY DEF Misses, Claimable
<1>2. M \in SUBSET Nat /\ C \in SUBSET Slots /\ IsFiniteSet(M)
  BY <1>1, RequestFinite
<1>3. PICK c \in [M -> C] : InTurn(a, M, C, c)
  BY <1>2, LoopSucceeds
<1>4. c \in Claims(a, req, tag)
  BY <1>3 DEF Claims, InTurn
<1> QED
  BY <1>4

(* Demotion brings the active slots down to the budget, or to the request. *)
LEMMA DemotionKeepsBudget ==
  ASSUME NEW a, Sound(a), NEW keep, keep \subseteq Slots, NEW tag \in Tags \cup {NoTag}
  PROVE  LET n == Cardinality(ActiveSlots(Demoted(a, keep, tag)))
         IN n <= Protected \/ n <= Cardinality(keep)
<1> DEFINE A == ActiveSlots(a)
           B == A \ keep
           V == Victims(a, keep)
           L(s) == {t \in B : a.active[t] < a.active[s]}
<1>1. a \in Arenas /\ \A s \in Slots : a.active[s] \in Nat
  BY DEF Sound, Arenas
<1>2. A \subseteq Slots /\ V = {s \in B : Cardinality(L(s)) < Cardinality(A) - Protected}
  BY DEF ActiveSlots, Victims
<1>3. ActiveSlots(Demoted(a, keep, tag)) = A \ V
  <2>1. V \subseteq Slots
    BY <1>2
  <2>2. Demoted(a, keep, tag).active = [s \in Slots |-> IF s \in V THEN 0 ELSE a.active[s]]
    BY <1>1 DEF Demoted, Arenas
  <2> HIDE DEF V
  <2> QED
    BY <1>1, <2>1, <2>2 DEF ActiveSlots
<1>4. /\ IsFiniteSet(A) /\ IsFiniteSet(V) /\ IsFiniteSet(keep)
      /\ Cardinality(A) \in Nat /\ Cardinality(V) \in Nat
      /\ Protected \in Nat
  <2>1. A \subseteq Slots /\ V \subseteq Slots
    BY <1>2
  <2> HIDE DEF A, V
  <2>2. IsFiniteSet(A) /\ IsFiniteSet(V) /\ IsFiniteSet(keep)
    BY <2>1, SlotsFinite
  <2>3. Protected \in Nat
    BY SlotArenaAssumption
  <2> QED
    BY <2>2, <2>3, FS_CardinalityType
<1> HIDE DEF A, V
<1>5. CASE V = B
  <2>1. A \ V \subseteq keep
    BY <1>5
  <2> QED
    BY <1>3, <1>4, <2>1, FS_Subset
<1>6. CASE V # B
  <2> DEFINE T == {a.active[s] : s \in B \ V}
  <2>1. T \subseteq Nat /\ T # {}
    BY <1>1, <1>2, <1>6
  <2>2. Lowest(T) \in T /\ \A x \in T : Lowest(T) <= x
    <3> HIDE DEF T
    <3> QED
      BY <2>1, LowestIs
  <2>3. PICK s \in B \ V : \A t \in B \ V : a.active[s] <= a.active[t]
    BY <2>2
  <2>4. L(s) \subseteq V
    <3> SUFFICES ASSUME NEW t \in L(s), t \notin V
                 PROVE  FALSE
      OBVIOUS
    <3>1. a.active[s] <= a.active[t] /\ a.active[t] < a.active[s]
      BY <2>3
    <3>2. a.active[s] \in Nat /\ a.active[t] \in Nat
      BY <1>1, <1>2
    <3> QED
      BY <3>1, <3>2
  <2>5. ~(Cardinality(L(s)) < Cardinality(A) - Protected)
    BY <1>2, <2>3
  <2>6. Cardinality(L(s)) \in Nat /\ Cardinality(L(s)) <= Cardinality(V)
    <3>1. IsFiniteSet(L(s))
      BY <1>4, <2>4, FS_Subset
    <3> QED
      BY <1>4, <2>4, <3>1, FS_Subset, FS_CardinalityType
  <2>7. V \subseteq A
    BY <1>2
  <2>8. Cardinality(A \ V) = Cardinality(A) - Cardinality(V)
    <3>1. A \cap V = V
      BY <2>7
    <3>2. Cardinality(A \ V) = Cardinality(A) - Cardinality(A \cap V)
      BY <1>4, FS_Difference
    <3> QED
      BY <3>1, <3>2
  <2> HIDE DEF L
  <2>9. Cardinality(A \ V) <= Protected
    BY <1>4, <2>5, <2>6, <2>8
  <2> QED
    BY <1>3, <2>9
<1> QED
  BY <1>5, <1>6

-----------------------------------------------------------------------------
\* The slots whose eviction is not resolved yet.
Idle(a) == InState(a, "retiring") \cup InState(a, "reclaimable")

(* A finite set has no more images than elements.                          *)
LEMMA ImageBound ==
  ASSUME NEW S, IsFiniteSet(S), NEW f, S \subseteq DOMAIN f
  PROVE  /\ IsFiniteSet({f[x] : x \in S})
         /\ Cardinality({f[x] : x \in S}) <= Cardinality(S)
<1> DEFINE T == {f[x] : x \in S}
           g == [x \in S |-> f[x]]
<1>1. g \in Surjection(S, T)
  BY DEF Surjection
<1> HIDE DEF T, g
<1>2. IsFiniteSet(T) /\ Cardinality(T) <= Cardinality(S)
  BY <1>1, FS_Surjection
<1> QED
  BY <1>2 DEF T

(* The one slot that holds an expert is its slot.                          *)
LEMMA HolderIsSlotOf ==
  ASSUME NEW a, Sound(a), NEW s \in Slots, NEW e \in Experts,
         a.holds[s] = e, a.state[s] # "absent"
  PROVE  SlotsOf(a, e) # {} /\ SlotOf(a, e) = s
<1>1. s \in SlotsOf(a, e)
  BY DEF SlotsOf
<1> QED
  BY <1>1, SlotOfIs

(* settle moves slots from retiring to reclaimable, those whose tag fired, *)
(* and nothing else.                                                       *)
LEMMA SettleIs ==
  ASSUME NEW a, Sound(a), NEW done \in SUBSET Tags
  PROVE  LET b == Settled(a, done)
         IN /\ b.holds = a.holds
            /\ b.owed = a.owed
            /\ \A s \in Slots :
                 /\ b.state[s] = "absent" <=> a.state[s] = "absent"
                 /\ a.state[s] = "active" => b.state[s] = "active"
                 /\ a.state[s] = "retiring" /\ a.pending[s] \notin done =>
                      b.state[s] = "retiring" /\ b.pending[s] = a.pending[s]
                 /\ b.state[s] \in {"retiring", "reclaimable"} <=>
                      a.state[s] \in {"retiring", "reclaimable"}
                 /\ b.state[s] = "active" => a.state[s] = "active"
                 /\ b.state[s] = "retiring" =>
                      /\ a.state[s] = "retiring" /\ b.pending[s] = a.pending[s]
                      /\ a.pending[s] \notin done
<1>1. a \in Arenas
  BY DEF Sound
<1> DEFINE fired == {s \in Slots : a.pending[s] # NoTag /\ a.pending[s] \in done}
           freed == {s \in fired : a.state[s] = "retiring"}
           b == Settled(a, done)
<1>2. /\ b.holds = a.holds /\ b.owed = a.owed
      /\ b.state = [s \in Slots |-> IF s \in freed THEN "reclaimable" ELSE a.state[s]]
      /\ b.pending = [s \in Slots |-> IF s \in fired THEN NoTag ELSE a.pending[s]]
  BY <1>1 DEF Settled, Arenas
<1>3. \A s \in Slots : s \in freed => a.state[s] = "retiring" /\ a.pending[s] \in done
  OBVIOUS
<1>4. \A s \in Slots : s \in fired => a.pending[s] \in done
  OBVIOUS
<1> HIDE DEF fired, freed, b
<1>5. \A s \in Slots :
        /\ b.state[s] = IF s \in freed THEN "reclaimable" ELSE a.state[s]
        /\ b.pending[s] = IF s \in fired THEN NoTag ELSE a.pending[s]
  BY <1>2
<1>6. \A s \in Slots :
        /\ b.state[s] = "absent" <=> a.state[s] = "absent"
        /\ a.state[s] = "active" => b.state[s] = "active"
        /\ b.state[s] \in {"retiring", "reclaimable"} <=>
             a.state[s] \in {"retiring", "reclaimable"}
  BY <1>3, <1>5
<1>7. \A s \in Slots : a.state[s] = "retiring" /\ a.pending[s] \notin done =>
             b.state[s] = "retiring" /\ b.pending[s] = a.pending[s]
  BY <1>3, <1>4, <1>5
<1>8. ASSUME NEW s \in Slots, a.state[s] = "retiring", a.pending[s] \in done
      PROVE  b.state[s] = "reclaimable"
  <2>1. a.pending[s] # NoTag
    BY <1>8, SlotArenaAssumption
  <2> QED
    BY <1>5, <1>8, <2>1 DEF freed, fired
<1>9. \A s \in Slots :
        /\ b.state[s] = "active" => a.state[s] = "active"
        /\ b.state[s] = "retiring" =>
             /\ a.state[s] = "retiring" /\ b.pending[s] = a.pending[s]
             /\ a.pending[s] \notin done
  BY <1>5, <1>7, <1>8
<1> QED
  BY <1>2, <1>6, <1>7, <1>9 DEF b

(* A request under a tag: every row it asks for is active afterwards, in a *)
(* slot nobody was reading if it was not there before; active and retiring *)
(* slots keep their expert, and those it demotes retire under its tag.     *)
LEMMA WantIs ==
  ASSUME NEW a, Sound(a), NEW q \in Routed, NEW tag \in Tags, NEW c \in Claims(a, q, tag)
  PROVE  LET b == Wanted(a, q, tag, c)
             at == Assigned(a, q, c)
         IN /\ Sound(b)
            /\ \A i \in DOMAIN q : at[i] \in Slots /\ b.holds[at[i]] = q[i] /\ b.state[at[i]] = "active"
            /\ \A i \in Misses(a, q) : a.state[at[i]] \in {"reclaimable", "absent"}
            /\ \A s \in Slots : a.state[s] \in {"active", "retiring"} =>
                 /\ b.holds[s] = a.holds[s]
                 /\ b.state[s] \in {"active", "retiring"}
                 /\ b.state[s] = "retiring" =>
                      \/ b.pending[s] = tag
                      \/ a.state[s] = "retiring" /\ b.pending[s] = a.pending[s]
            /\ \A s \in Slots : b.state[s] # "absent" =>
                 \/ b.holds[s] = a.holds[s] /\ a.state[s] # "absent"
                 \/ \E i \in Misses(a, q) : b.holds[s] = q[i]
            /\ a.owed = Cardinality(Idle(a)) => b.owed = Cardinality(Idle(b))
            /\ LET n == Cardinality(ActiveSlots(b))
               IN n <= Protected \/ n <= Cardinality(DOMAIN q)
            /\ \A s \in Slots : b.state[s] = "retiring" =>
                 \/ b.pending[s] = tag
                 \/ a.state[s] = "retiring" /\ b.pending[s] = a.pending[s]
<1> DEFINE r == Resolved(a, q, c)
           b == Wanted(a, q, tag, c)
           at == Assigned(a, q, c)
           keep == {at[i] : i \in DOMAIN q}
           claimed == {c[i] : i \in DOMAIN c}
           expert == [s \in claimed |-> q[CHOOSE i \in DOMAIN c : c[i] = s]]
           vs == Victims(r, keep)
<1>0. tag # NoTag /\ tag \in Tags \cup {NoTag} /\ a \in Arenas
  BY SlotArenaAssumption DEF Sound
<1>1. /\ r.holds = [s \in Slots |-> IF s \in claimed THEN expert[s] ELSE a.holds[s]]
      /\ r.state = [s \in Slots |-> IF s \in keep THEN "active" ELSE a.state[s]]
      /\ r.pending = [s \in Slots |-> IF s \in keep /\ a.state[s] = "retiring"
                                        THEN NoTag ELSE a.pending[s]]
      /\ r.owed = a.owed - Cardinality(Resolutions(a, keep))
  BY DEF Resolved
<1>2. Sound(r)
  BY ResolvedIs
<1>3. b = Demoted(r, keep, tag)
  BY DEF Wanted
<1>4. Sound(b) /\ b.holds = r.holds
  <2> HIDE DEF r, keep, b
  <2> QED
    BY <1>0, <1>2, <1>3, DemotedIs
<1>5. /\ b.state = [s \in Slots |-> IF s \in vs THEN "retiring" ELSE r.state[s]]
      /\ b.pending = [s \in Slots |-> IF s \in vs THEN tag ELSE r.pending[s]]
      /\ b.owed = r.owed + Cardinality(vs)
  <2> HIDE DEF r, keep, b, vs
  <2>1. r \in Arenas
    BY <1>2 DEF Sound
  <2> QED
    BY <1>0, <1>3, <2>1 DEF Demoted, DemotedState, Arenas, vs
<1>6. /\ DOMAIN c = Misses(a, q)
      /\ Misses(a, q) \subseteq DOMAIN q
      /\ \A i \in DOMAIN c : c[i] \in Slots /\ a.state[c[i]] \in {"reclaimable", "absent"}
      /\ \A i, j \in DOMAIN c : c[i] = c[j] => i = j
  <2>1. /\ c \in [Misses(a, q) -> Slots]
        /\ DOMAIN c = Misses(a, q)
        /\ \A i, j \in DOMAIN c : c[i] = c[j] => i = j
    BY ClaimsApart
  <2>2. c \in [Misses(a, q) -> Claimable(a, q, tag)]
    BY DEF Claims
  <2>3. \A s \in Claimable(a, q, tag) : a.state[s] \in {"reclaimable", "absent"}
    BY <1>0 DEF Claimable
  <2> QED
    BY <2>1, <2>2, <2>3 DEF Misses
<1>7. \A i \in DOMAIN q :
        /\ at[i] \in Slots
        /\ at[i] \in keep
        /\ i \in DOMAIN c => at[i] = c[i]
        /\ i \notin DOMAIN c => a.holds[at[i]] = q[i]
        /\ \A j \in DOMAIN q : at[j] = at[i] => j = i
  <2> SUFFICES ASSUME NEW i \in DOMAIN q
               PROVE  /\ at[i] \in Slots
                      /\ at[i] \in keep
                      /\ i \in DOMAIN c => at[i] = c[i]
                      /\ i \notin DOMAIN c => a.holds[at[i]] = q[i]
                      /\ \A j \in DOMAIN q : at[j] = at[i] => j = i
    OBVIOUS
  <2>1. /\ at[i] \in Slots
        /\ i \in DOMAIN c => at[i] = c[i]
        /\ i \notin DOMAIN c => a.holds[at[i]] = q[i]
        /\ \A j \in DOMAIN q : at[j] = at[i] => j = i
    BY AssignedIs
  <2> QED
    BY <2>1
<1>8. \A i \in DOMAIN c : r.holds[c[i]] = q[i]
  <2> SUFFICES ASSUME NEW i \in DOMAIN c
               PROVE  r.holds[c[i]] = q[i]
    OBVIOUS
  <2>1. c[i] \in claimed /\ c[i] \in Slots
    BY <1>6
  <2>2. (CHOOSE j \in DOMAIN c : c[j] = c[i]) = i
    BY <1>6
  <2>3. expert[c[i]] = q[i]
    BY <2>1, <2>2
  <2> QED
    BY <1>1, <2>1, <2>3
<1>9. claimed \subseteq keep
  BY <1>6, <1>7
<1>10. \A i \in DOMAIN q : r.holds[at[i]] = q[i] /\ r.state[at[i]] = "active"
  <2> SUFFICES ASSUME NEW i \in DOMAIN q
               PROVE  r.holds[at[i]] = q[i] /\ r.state[at[i]] = "active"
    OBVIOUS
  <2>1. r.state[at[i]] = "active"
    BY <1>1, <1>7
  <2>2. CASE i \in DOMAIN c
    BY <1>7, <1>8, <2>1, <2>2
  <2>3. CASE i \notin DOMAIN c
    <3>1. at[i] \notin claimed
      BY <1>6, <1>7, <2>3
    <3> QED
      BY <1>1, <1>7, <2>1, <2>3, <3>1
  <2> QED
    BY <2>2, <2>3
<1>11. vs \subseteq Slots /\ \A s \in vs : s \notin keep /\ r.state[s] = "active" /\ a.state[s] = "active"
  <2>1. \A s \in vs : s \in Slots /\ s \notin keep /\ r.active[s] > 0
    BY DEF Victims, ActiveSlots
  <2>2. \A s \in vs : r.state[s] = "active"
    BY <1>2, <2>1 DEF Sound, Agree
  <2> QED
    BY <1>1, <2>1, <2>2
<1> HIDE DEF r, b, keep, claimed, expert, vs, at
<1>12. \A i \in DOMAIN q : at[i] \in Slots /\ b.holds[at[i]] = q[i] /\ b.state[at[i]] = "active"
  BY <1>4, <1>5, <1>7, <1>10, <1>11
<1>13. \A i \in Misses(a, q) : a.state[at[i]] \in {"reclaimable", "absent"}
  BY <1>6, <1>7
<1>14. ASSUME NEW s \in Slots, a.state[s] \in {"active", "retiring"}
       PROVE  /\ b.holds[s] = a.holds[s]
              /\ b.state[s] \in {"active", "retiring"}
              /\ b.state[s] = "retiring" =>
                   \/ b.pending[s] = tag
                   \/ a.state[s] = "retiring" /\ b.pending[s] = a.pending[s]
  <2>1. s \notin claimed
    BY <1>6, <1>14 DEF claimed
  <2>2. b.holds[s] = a.holds[s]
    BY <1>1, <1>4, <2>1
  <2>3. CASE s \in vs
    BY <1>5, <2>2, <2>3
  <2>4. CASE s \in keep
    BY <1>1, <1>5, <1>11, <2>2, <2>4
  <2>5. CASE s \notin vs /\ s \notin keep
    BY <1>1, <1>5, <1>14, <2>2, <2>5
  <2> QED
    BY <2>3, <2>4, <2>5
<1>15. ASSUME NEW s \in Slots, b.state[s] # "absent"
       PROVE  \/ b.holds[s] = a.holds[s] /\ a.state[s] # "absent"
              \/ \E i \in Misses(a, q) : b.holds[s] = q[i]
  <2>1. CASE s \in claimed
    BY <1>4, <1>6, <1>8, <2>1 DEF claimed
  <2>2. CASE s \notin claimed
    <3>1. b.holds[s] = a.holds[s]
      BY <1>1, <1>4, <2>2
    <3>2. a.state[s] # "absent"
      <4>1. CASE s \in keep
        <5>1. PICK i \in DOMAIN q : s = at[i]
          BY <4>1 DEF keep
        <5>2. a.holds[s] \in Experts
          BY <1>12, <3>1, <5>1, RequestType
        <5> QED
          BY <1>0, <5>2, SlotArenaAssumption DEF Sound, Agree
      <4>2. CASE s \notin keep
        BY <1>1, <1>5, <1>11, <1>15, <4>2
      <4> QED
        BY <4>1, <4>2
    <3> QED
      BY <3>1, <3>2
  <2> QED
    BY <2>1, <2>2
<1>16. ASSUME a.owed = Cardinality(Idle(a))
       PROVE  b.owed = Cardinality(Idle(b))
  <2> DEFINE res == Resolutions(a, keep)
  <2>1. keep \subseteq Slots
    BY <1>7 DEF keep
  <2>2. Idle(a) \subseteq Slots /\ res = Idle(a) \cap keep
    BY <2>1 DEF Idle, InState, Resolutions
  <2>3. Idle(b) = (Idle(a) \ res) \cup vs
    <3>1. ASSUME NEW s \in Slots
          PROVE  s \in Idle(b) <=> s \in (Idle(a) \ res) \cup vs
      <4>1. CASE s \in vs
        BY <1>5, <4>1 DEF Idle, InState
      <4>2. CASE s \in keep
        BY <1>1, <1>5, <1>11, <2>2, <4>2 DEF Idle, InState
      <4>3. CASE s \notin vs /\ s \notin keep
        BY <1>1, <1>5, <2>2, <4>3 DEF Idle, InState
      <4> QED
        BY <4>1, <4>2, <4>3
    <3>2. Idle(b) \subseteq Slots
      BY DEF Idle, InState
    <3> QED
      BY <1>11, <2>2, <3>1, <3>2
  <2>4. vs \cap Idle(a) = {}
    BY <1>11 DEF Idle, InState
  <2> HIDE DEF res
  <2>5. IsFiniteSet(Idle(a)) /\ IsFiniteSet(vs) /\ IsFiniteSet(Idle(a) \ res) /\ IsFiniteSet(res)
    BY <1>11, <2>2, SlotsFinite
  <2>6. Cardinality(Idle(a) \ res) = Cardinality(Idle(a)) - Cardinality(Idle(a) \cap res)
    BY <2>5, FS_Difference
  <2>7. Idle(a) \cap res = res
    BY <2>2
  <2>8. Cardinality(Idle(b)) = Cardinality(Idle(a) \ res) + Cardinality(vs) - Cardinality((Idle(a) \ res) \cap vs)
    BY <2>3, <2>5, FS_Union
  <2>9. (Idle(a) \ res) \cap vs = {} /\ Cardinality({}) = 0
    BY <2>4, FS_EmptySet
  <2>10. /\ Cardinality(Idle(a)) \in Nat /\ Cardinality(res) \in Nat
         /\ Cardinality(vs) \in Nat /\ Cardinality(Idle(a) \ res) \in Nat
    BY <2>5, FS_CardinalityType
  <2>11. r.owed = a.owed - Cardinality(res)
    BY <1>1 DEF res
  <2>12. Cardinality(Idle(b)) = Cardinality(Idle(a) \ res) + Cardinality(vs)
    <3>1. Cardinality((Idle(a) \ res) \cap vs) = 0
      BY <2>9
    <3> QED
      BY <2>8, <2>10, <3>1
  <2>13. Cardinality(Idle(a) \ res) = Cardinality(Idle(a)) - Cardinality(res)
    BY <2>6, <2>7
  <2> QED
    BY <1>5, <1>16, <2>10, <2>11, <2>12, <2>13
<1>17. LET n == Cardinality(ActiveSlots(b))
       IN n <= Protected \/ n <= Cardinality(DOMAIN q)
  <2> DEFINE n == Cardinality(ActiveSlots(b))
  <2>1. keep \subseteq Slots
    BY <1>7 DEF keep
  <2>2. n <= Protected \/ n <= Cardinality(keep)
    BY <1>0, <1>2, <1>3, <2>1, DemotionKeepsBudget
  <2>3. IsFiniteSet(DOMAIN q)
    BY RequestFinite
  <2>4. Cardinality(keep) <= Cardinality(DOMAIN q) /\ IsFiniteSet(keep)
    <3>1. DOMAIN at = DOMAIN q
      BY DEF at, Assigned
    <3> QED
      BY <2>3, <3>1, ImageBound DEF keep
  <2>5. ActiveSlots(b) \subseteq Slots
    BY DEF ActiveSlots
  <2>6. n \in Nat /\ Cardinality(keep) \in Nat /\ Cardinality(DOMAIN q) \in Nat
    BY <2>3, <2>4, <2>5, SlotsFinite, FS_CardinalityType
  <2> HIDE DEF n
  <2>7. n <= Protected \/ n <= Cardinality(DOMAIN q)
    BY <2>2, <2>4, <2>6
  <2> QED
    BY <2>7 DEF n
<1>18. ASSUME NEW s \in Slots, b.state[s] = "retiring"
       PROVE  \/ b.pending[s] = tag
              \/ a.state[s] = "retiring" /\ b.pending[s] = a.pending[s]
  <2>1. CASE s \in vs
    BY <1>5, <2>1
  <2>2. CASE s \notin vs
    <3>1. s \notin keep /\ a.state[s] = "retiring"
      BY <1>1, <1>5, <1>18, <2>2
    <3> QED
      BY <1>1, <1>5, <2>2, <3>1
  <2> QED
    BY <2>1, <2>2
<1> QED
  BY <1>4, <1>12, <1>13, <1>14, <1>15, <1>16, <1>17, <1>18 DEF b, at

(* Unpublishing active rows leaves every other row alone, and loses no     *)
(* eviction.                                                               *)
LEMMA DiscardIs ==
  ASSUME NEW a, Sound(a), NEW es \in SUBSET Experts,
         \A e \in es : SlotsOf(a, e) # {} => a.state[SlotOf(a, e)] = "active"
  PROVE  LET b == Discarded(a, es)
         IN /\ b.owed = a.owed
            /\ Idle(b) = Idle(a)
            /\ \A s \in Slots : a.holds[s] \in es => b.state[s] = "absent"
            /\ \A s \in Slots :
                 \/ a.holds[s] \in es /\ b.state[s] = "absent"
                 \/ b.holds[s] = a.holds[s] /\ b.state[s] = a.state[s] /\ b.pending[s] = a.pending[s]
<1> DEFINE gone == {SlotOf(a, e) : e \in {x \in es : SlotsOf(a, x) # {}}}
           b == Discarded(a, es)
<1>1. a \in Arenas
  BY DEF Sound
<1>2. /\ b.owed = a.owed
      /\ b.holds = [s \in Slots |-> IF s \in gone THEN NoExpert ELSE a.holds[s]]
      /\ b.state = [s \in Slots |-> IF s \in gone THEN "absent" ELSE a.state[s]]
      /\ b.pending = [s \in Slots |-> IF s \in gone THEN NoTag ELSE a.pending[s]]
  BY <1>1 DEF Discarded, Arenas
<1>3. \A s \in gone : a.state[s] = "active" /\ a.holds[s] \in es
  BY SlotOfIs
<1> HIDE DEF gone, b
<1>4. \A s \in Slots :
        /\ s \in gone => b.state[s] = "absent"
        /\ s \notin gone => b.holds[s] = a.holds[s] /\ b.state[s] = a.state[s]
                              /\ b.pending[s] = a.pending[s]
  BY <1>2
<1>5. Idle(b) = Idle(a)
  BY <1>3, <1>4 DEF Idle, InState
<1>6. ASSUME NEW s \in Slots, a.holds[s] \in es
      PROVE  b.state[s] = "absent"
  <2>1. CASE a.state[s] = "absent"
    BY <1>2, <2>1
  <2>2. CASE a.state[s] # "absent"
    <3>1. SlotsOf(a, a.holds[s]) # {} /\ SlotOf(a, a.holds[s]) = s
      BY <1>6, <2>2, HolderIsSlotOf
    <3>2. s \in gone
      BY <1>6, <3>1 DEF gone
    <3> QED
      BY <1>4, <3>2
  <2> QED
    BY <2>1, <2>2
<1> QED
  BY <1>2, <1>3, <1>4, <1>5, <1>6 DEF b

(* With nothing retiring, and no more active slots than the request leaves *)
(* room for, there is a slot for every miss.                               *)
LEMMA RoomIsEnough ==
  ASSUME NEW a, Sound(a), \A s \in Slots : a.state[s] # "retiring",
         NEW q \in Routed, NEW tag, Cardinality(ActiveSlots(a)) + Cardinality(DOMAIN q) <= NSlots
  PROVE  Claims(a, q, tag) # {}
<1> DEFINE D == DOMAIN q
           H == Hits(a, q)
           HS == HitSlots(a, q)
           A == ActiveSlots(a)
           C == Claimable(a, q, tag)
           M == Misses(a, q)
<1>1. A \subseteq Slots /\ C \subseteq Slots /\ H \subseteq D /\ M = D \ H
  BY DEF ActiveSlots, Claimable, Hits, Misses
<1>3. IsFiniteSet(D)
  BY RequestFinite
<1>4. IsFiniteSet(H) /\ Cardinality(M) = Cardinality(D) - Cardinality(H)
  <2>1. D \cap H = H /\ IsFiniteSet(H)
    BY <1>1, <1>3, FS_Subset
  <2>2. Cardinality(D \ H) = Cardinality(D) - Cardinality(D \cap H)
    BY <1>3, FS_Difference
  <2> HIDE DEF H, M, D
  <2> QED
    BY <1>1, <2>1, <2>2
<1>5. IsFiniteSet(HS) /\ Cardinality(HS) <= Cardinality(H)
  <2> DEFINE f == [i \in D |-> SlotOf(a, q[i])]
  <2>1. HS = {f[i] : i \in H}
    BY <1>1 DEF HitSlots
  <2>2. H \subseteq DOMAIN f
    BY <1>1
  <2> HIDE DEF f, H, HS
  <2> QED
    BY <1>4, <2>1, <2>2, ImageBound
<1>6. Slots \subseteq (C \cup A) \cup HS
  <2> SUFFICES ASSUME NEW s \in Slots, s \notin A, s \notin HS
               PROVE  s \in C
    OBVIOUS
  <2>1. a.state[s] \in {"active", "retiring", "reclaimable", "absent"} /\ a.active[s] \in Nat
    BY DEF Sound, Arenas
  <2>2. a.state[s] # "active"
    BY <2>1 DEF ActiveSlots, Sound, Agree
  <2> QED
    BY <2>1, <2>2 DEF Claimable
<1> HIDE DEF D, H, HS, A, C, M
<1>7. IsFiniteSet(A) /\ IsFiniteSet(C)
  BY <1>1, SlotsFinite
<1>8. /\ IsFiniteSet(C \cup A)
      /\ Cardinality(C \cup A) = Cardinality(C) + Cardinality(A) - Cardinality(C \cap A)
  BY <1>7, FS_Union
<1>9. /\ IsFiniteSet((C \cup A) \cup HS)
      /\ Cardinality((C \cup A) \cup HS)
           = Cardinality(C \cup A) + Cardinality(HS) - Cardinality((C \cup A) \cap HS)
  BY <1>5, <1>8, FS_Union
<1>10. Cardinality(C \cap A) \in Nat /\ Cardinality((C \cup A) \cap HS) \in Nat
  <2>1. IsFiniteSet(C \cap A) /\ IsFiniteSet((C \cup A) \cap HS)
    BY <1>7, <1>8, FS_Intersection
  <2> QED
    BY <2>1, FS_CardinalityType
<1>11. Cardinality(Slots) = NSlots /\ Cardinality(Slots) <= Cardinality((C \cup A) \cup HS)
  <2>1. Cardinality(0 .. NSlots - 1) = NSlots
    BY FS_Interval, SlotArenaAssumption
  <2> QED
    BY <1>6, <1>9, <2>1, FS_Subset DEF Slots
<1>12. /\ Cardinality(C) \in Nat /\ Cardinality(A) \in Nat /\ Cardinality(HS) \in Nat
       /\ Cardinality(H) \in Nat /\ Cardinality(D) \in Nat /\ Cardinality(C \cup A) \in Nat
       /\ NSlots \in Nat /\ Protected \in Nat
  BY <1>3, <1>4, <1>5, <1>7, <1>8, FS_CardinalityType, SlotArenaAssumption
<1>13. NSlots <= Cardinality(C) + Cardinality(A) + Cardinality(HS)
  BY <1>8, <1>9, <1>10, <1>11, <1>12
<1>14. Cardinality(A) + Cardinality(D) <= NSlots
  BY DEF A, D
<1>15. Cardinality(M) <= Cardinality(C)
  BY <1>4, <1>5, <1>12, <1>13, <1>14
<1> QED
  BY <1>15, ClaimsExist DEF M, C

(* Demotion takes the oldest: a set of the newest active slots, with the   *)
(* request's among them, keeps its place if it is within the budget.       *)
LEMMA NewestAreKept ==
  ASSUME NEW a, Sound(a), NEW tag \in Tags \cup {NoTag},
         NEW R, R \subseteq ActiveSlots(a), NEW keep, keep \subseteq R, Cardinality(R) <= Protected,
         \A s \in R, t \in ActiveSlots(a) \ R : a.active[t] < a.active[s]
  PROVE  LET b == Demoted(a, keep, tag)
         IN /\ R \subseteq ActiveSlots(b)
            /\ \A s \in R, t \in ActiveSlots(b) \ R : b.active[t] < b.active[s]
<1> DEFINE A == ActiveSlots(a)
           V == Victims(a, keep)
           L(s) == {t \in A \ keep : a.active[t] < a.active[s]}
           b == Demoted(a, keep, tag)
<1>1. a \in Arenas /\ \A s \in Slots : a.active[s] \in Nat
  BY DEF Sound, Arenas
<1>2. A \subseteq Slots /\ V \subseteq A
      /\ \A s \in V : Cardinality(L(s)) < Cardinality(A) - Protected /\ s \notin keep
  BY DEF ActiveSlots, Victims
<1>3. b.active = [s \in Slots |-> IF s \in V THEN 0 ELSE a.active[s]]
  <2> HIDE DEF V
  <2> QED
    BY <1>1 DEF Demoted, Arenas, V
<1>4. ASSUME NEW s \in R, s \in V
      PROVE  FALSE
  <2>1. IsFiniteSet(A) /\ IsFiniteSet(R) /\ IsFiniteSet(L(s))
    <3>1. A \subseteq Slots /\ R \subseteq Slots /\ L(s) \subseteq Slots
      BY <1>2
    <3> QED
      BY <3>1, SlotsFinite
  <2>2. A \ R \subseteq L(s)
    BY <1>4
  <2>3. A \cap R = R
    OBVIOUS
  <2>4. Cardinality(L(s)) < Cardinality(A) - Protected
    BY <1>2, <1>4
  <2> HIDE DEF A, V, L
  <2>5. Cardinality(A \ R) = Cardinality(A) - Cardinality(R)
    BY <2>1, <2>3, FS_Difference
  <2>6. IsFiniteSet(A \ R) /\ Cardinality(A \ R) <= Cardinality(L(s))
    BY <2>1, <2>2, FS_Subset
  <2>7. /\ Cardinality(A) \in Nat /\ Cardinality(R) \in Nat /\ Cardinality(L(s)) \in Nat
        /\ Cardinality(A \ R) \in Nat /\ Protected \in Nat
    BY <2>1, <2>6, FS_CardinalityType, SlotArenaAssumption
  <2> QED
    BY <2>4, <2>5, <2>6, <2>7
<1> HIDE DEF V, b
<1>5. ActiveSlots(b) = A \ V
  <2>1. \A s \in Slots : b.active[s] > 0 <=> a.active[s] > 0 /\ s \notin V
    BY <1>1, <1>3
  <2> QED
    BY <2>1 DEF ActiveSlots
<1>6. R \subseteq ActiveSlots(b)
  BY <1>4, <1>5
<1>7. \A s \in A \ V : b.active[s] = a.active[s]
  BY <1>2, <1>3
<1> QED
  BY <1>4, <1>5, <1>6, <1>7 DEF b

(* A request's slots are newer than any other.                             *)
LEMMA ResolvedAreNewest ==
  ASSUME NEW a, Sound(a), NEW q \in Routed, NEW tag, NEW c \in Claims(a, q, tag),
         NEW P, P \subseteq ActiveSlots(a),
         \A s \in P, t \in ActiveSlots(a) \ P : a.active[t] < a.active[s]
  PROVE  LET r == Resolved(a, q, c)
             R == P \cup {Assigned(a, q, c)[i] : i \in DOMAIN q}
         IN /\ R \subseteq ActiveSlots(r)
            /\ \A s \in R, t \in ActiveSlots(r) \ R : r.active[t] < r.active[s]
<1> DEFINE r == Resolved(a, q, c)
           at == Assigned(a, q, c)
           keep == {at[i] : i \in DOMAIN q}
           R == P \cup keep
<1>1. /\ r.state = [s \in Slots |-> IF s \in keep THEN "active" ELSE a.state[s]]
      /\ r.used = [s \in Slots |-> IF s \in keep THEN a.clock + 1 ELSE a.used[s]]
      /\ r.active = [s \in Slots |-> IF s \in keep THEN Stamp(a, at, c, s) ELSE a.active[s]]
  BY DEF Resolved
<1>2. Sound(r)
  BY ResolvedIs
<1>3. keep \subseteq Slots
  BY AssignedIs
<1> HIDE DEF r, keep
<1>4. \A s \in Slots \ keep : r.active[s] = a.active[s]
  BY <1>1
<1>5. \A s \in keep : r.active[s] > 0 /\ r.used[s] = a.clock + 1
  BY <1>1, <1>2, <1>3 DEF Sound, Agree
<1>6. R \subseteq ActiveSlots(r)
  BY <1>3, <1>4, <1>5 DEF ActiveSlots
<1>7. ASSUME NEW s \in keep, NEW t \in Slots \ keep, a.active[t] > 0
      PROVE  r.active[t] < r.active[s]
  <2>1. PICK k \in 1 .. 2 * NSlots : r.active[s] = (a.clock + 1) * Width + k
    BY <1>2, <1>3, <1>5 DEF Sound, Stamped
  <2>2. PICK j \in 1 .. 2 * NSlots : a.active[t] = a.used[t] * Width + j
    BY <1>7 DEF Sound, Stamped
  <2>3. a.used[t] \in Nat /\ a.clock \in Nat /\ a.used[t] <= a.clock
    BY DEF Sound, Arenas, Clocked
  <2>4. Width \in Nat /\ Width = 2 * NSlots + 1 /\ NSlots \in Nat
    BY SlotArenaAssumption DEF Width
  <2> DEFINE d == a.clock - a.used[t]
  <2>5. d \in Nat /\ (a.clock + 1) * Width = a.used[t] * Width + d * Width + Width
    BY <2>3, <2>4
  <2>6. d * Width \in Nat /\ a.used[t] * Width \in Nat
    BY <2>3, <2>4, <2>5
  <2>7. k \in Nat /\ j \in Nat /\ j < Width /\ k >= 1
    BY <2>4
  <2> HIDE DEF d
  <2>8. a.used[t] * Width + j < (a.clock + 1) * Width + k
    BY <2>5, <2>6, <2>7, <2>4
  <2> QED
    BY <1>4, <1>7, <2>1, <2>2, <2>8
<1>8. ASSUME NEW s \in R, NEW t \in ActiveSlots(r) \ R
      PROVE  r.active[t] < r.active[s]
  <2>1. t \in Slots \ keep /\ r.active[t] = a.active[t] /\ a.active[t] > 0 /\ t \in ActiveSlots(a) \ P
    BY <1>4, <1>8 DEF ActiveSlots
  <2>2. CASE s \in keep
    BY <1>7, <2>1, <2>2
  <2>3. CASE s \notin keep
    <3>1. s \in P /\ r.active[s] = a.active[s]
      BY <1>4, <1>8, <2>3 DEF ActiveSlots
    <3> QED
      BY <2>1, <3>1
  <2> QED
    BY <2>2, <2>3
<1> QED
  BY <1>6, <1>8 DEF r, keep

(* So rows placed under one budget, request after request, all stay.       *)
LEMMA NewestStayActive ==
  ASSUME NEW a, Sound(a), NEW q \in Routed, NEW tag \in Tags, NEW c \in Claims(a, q, tag),
         NEW P, P \subseteq ActiveSlots(a),
         \A s \in P, t \in ActiveSlots(a) \ P : a.active[t] < a.active[s],
         Cardinality(P \cup {Assigned(a, q, c)[i] : i \in DOMAIN q}) <= Protected
  PROVE  LET b == Wanted(a, q, tag, c)
             R == P \cup {Assigned(a, q, c)[i] : i \in DOMAIN q}
         IN /\ \A s \in R : b.state[s] = "active"
            /\ \A s \in R, t \in ActiveSlots(b) \ R : b.active[t] < b.active[s]
<1> DEFINE r == Resolved(a, q, c)
           keep == {Assigned(a, q, c)[i] : i \in DOMAIN q}
           R == P \cup keep
           b == Demoted(r, keep, tag)
<1>1. Sound(r)
  BY ResolvedIs
<1>2. R \subseteq ActiveSlots(r) /\ \A s \in R, t \in ActiveSlots(r) \ R : r.active[t] < r.active[s]
  BY ResolvedAreNewest
<1>3. Cardinality(R) <= Protected
  OBVIOUS
<1>4. Wanted(a, q, tag, c) = b
  BY DEF Wanted
<1> HIDE DEF r, keep, b
<1>5. /\ R \subseteq ActiveSlots(b)
      /\ \A s \in R, t \in ActiveSlots(b) \ R : b.active[t] < b.active[s]
  <2> HIDE DEF R
  <2>1. keep \subseteq R
    BY DEF R
  <2> QED
    BY <1>1, <1>2, <1>3, <2>1, NewestAreKept DEF b
<1>6. Sound(b)
  BY <1>1, DemotedIs DEF b
<1>7. \A s \in R : b.state[s] = "active"
  BY <1>5, <1>6 DEF Sound, Agree, ActiveSlots
<1> QED
  BY <1>4, <1>5, <1>7 DEF keep
=============================================================================
