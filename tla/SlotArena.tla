------------------------------ MODULE SlotArena ------------------------------
(***************************************************************************)
(* The slot accounting of src/kernel/vram_slots.py: which expert each slot *)
(* of a device arena holds, and whether the slot is wanted now (active),   *)
(* demoted under a GPU event that may not have fired (retiring), free to   *)
(* be overwritten with its bytes still valid (reclaimable) or empty        *)
(* (absent).  The object's fields are the fields of a record, and its      *)
(* operations are operators on that record: VramSlots is one arena driven  *)
(* by every legal call, SegmentedPool keeps one record for each segment.   *)
(*                                                                         *)
(* _active, an OrderedDict used as an LRU list, is a function from slots   *)
(* to insertion stamps; 0 means that the slot is not in it.  pending[s] is *)
(* NoTag when _pending has no entry for s.  The code's counters matter     *)
(* here only through the balance they must keep: owed is                   *)
(* logical_evictions - resurrections - blocked_by_retiring - overwritten.  *)
(***************************************************************************)
EXTENDS Integers, FiniteSets

CONSTANTS NSlots,       \* n_slots
          Protected,    \* the capacity-ownership budget
          Experts,      \* the keys of the arena
          Requests,     \* the routed sets, as sequences without repetition
          Tags,         \* event tags
          MaxClock,     \* bound on the number of requests
          NoExpert,
          NoTag

Slots == 0 .. NSlots - 1

RequestsOver(E, n) ==
  {q \in UNION {[1 .. m -> E] : m \in 1 .. n} :
     \A i, j \in DOMAIN q : q[i] = q[j] => i = j}

ASSUME SlotArenaAssumption ==
  /\ NSlots \in Nat \ {0}
  /\ Protected \in 1 .. NSlots
  /\ MaxClock \in Nat
  /\ NoExpert \notin Experts
  /\ NoTag \notin Tags
  /\ Requests \subseteq RequestsOver(Experts, NSlots)

EmptyArena ==
  [holds   |-> [s \in Slots |-> NoExpert],
   state   |-> [s \in Slots |-> "absent"],
   gen     |-> [s \in Slots |-> 0],
   pending |-> [s \in Slots |-> NoTag],
   used    |-> [s \in Slots |-> 0],
   active  |-> [s \in Slots |-> 0],
   clock   |-> 0,
   owed    |-> 0]

Arenas ==
  [holds   : [Slots -> Experts \cup {NoExpert}],
   state   : [Slots -> {"active", "retiring", "reclaimable", "absent"}],
   gen     : [Slots -> Nat],
   pending : [Slots -> Tags \cup {NoTag}],
   used    : [Slots -> Nat],
   active  : [Slots -> Nat],
   clock   : Nat,
   owed    : Int]

ActiveSlots(a) == {s \in Slots : a.active[s] > 0}

InState(a, st) == {s \in Slots : a.state[s] = st}

\* Mutant: a retiring slot's expert is looked up as if it were gone.
SettledSlotsOf(a, e) == {s \in Slots : a.holds[s] = e /\ a.state[s] \in {"active", "reclaimable"}}

SlotsOf(a, e) == {s \in Slots : a.holds[s] = e /\ a.state[s] # "absent"}

Lowest(S) == CHOOSE s \in S : \A t \in S : s <= t

SlotOf(a, e) == Lowest(SlotsOf(a, e))

-----------------------------------------------------------------------------
(* want: the hits are resolved first, then every miss claims a slot, then  *)
(* the active slots beyond the budget are demoted.                         *)

Hits(a, req) == {i \in DOMAIN req : SlotsOf(a, req[i]) # {}}

Misses(a, req) == DOMAIN req \ Hits(a, req)

HitSlots(a, req) == {SlotOf(a, req[i]) : i \in Hits(a, req)}

\* Mutant: a slot with readers in flight may be claimed.
ClaimableRetiring(a, req, tag) ==
  {s \in Slots \ HitSlots(a, req) : a.state[s] \in {"reclaimable", "absent", "retiring"}}

Claimable(a, req, tag) ==
  {s \in Slots \ HitSlots(a, req) :
     a.state[s] \in {"reclaimable", "absent"}
                      \cup (IF tag = NoTag THEN {"active"} ELSE {})}

Class(a, s) == CASE a.state[s] = "reclaimable" -> 0
                 [] a.state[s] = "absent" -> 1
                 [] OTHER -> 2

\* _claim's preference: by class, then least recently used, then by index.
Sooner(a, s, t) ==
  \/ Class(a, s) < Class(a, t)
  \/ /\ Class(a, s) = Class(a, t)
     /\ \/ a.used[s] < a.used[t]
        \/ a.used[s] = a.used[t] /\ s < t

\* The map the claim loop builds, in a singleton; {} when the loop raises.
Claims(a, req, tag) ==
  LET misses    == Misses(a, req)
      claimable == Claimable(a, req, tag)
  IN {c \in [misses -> claimable] :
        \A i \in misses : \A s \in claimable :
          Sooner(a, s, c[i]) <=> \E j \in misses : j < i /\ c[j] = s}

\* assign: the slot of each requested expert.
Assigned(a, req, c) ==
  [i \in DOMAIN req |-> IF i \in DOMAIN c THEN c[i] ELSE SlotOf(a, req[i])]

\* Mutant: a hit slot is not moved to the end of the LRU list.
StampOnce(a, at, c, s) ==
  IF a.active[s] > 0 THEN a.active[s] ELSE (a.clock + 1) * (NSlots + 1)

\* Entering _active: the hits in request order, then the misses.
Stamp(a, at, c, s) ==
  LET i == CHOOSE k \in DOMAIN at : at[k] = s
  IN (a.clock + 1) * (2 * NSlots + 1) + (IF i \in DOMAIN c THEN NSlots + i ELSE i)

\* Mutant: every hit counts as a resurrection.
ResolutionsOfAll(a, keep) == {s \in keep : a.state[s] # "absent"}

\* The evictions a request resolves, one way or another.
Resolutions(a, keep) == {s \in keep : a.state[s] \in {"reclaimable", "retiring"}}

Resolved(a, req, c) ==
  LET at      == Assigned(a, req, c)
      keep    == {at[i] : i \in DOMAIN req}
      claimed == {c[i] : i \in DOMAIN c}
      expert  == [s \in claimed |-> req[CHOOSE i \in DOMAIN c : c[i] = s]]
  IN [holds   |-> [s \in Slots |-> IF s \in claimed THEN expert[s] ELSE a.holds[s]],
      state   |-> [s \in Slots |-> IF s \in keep THEN "active" ELSE a.state[s]],
      gen     |-> [s \in Slots |-> IF s \in claimed THEN a.gen[s] + 1 ELSE a.gen[s]],
      pending |-> [s \in Slots |-> IF s \in keep /\ a.state[s] = "retiring"
                                     THEN NoTag ELSE a.pending[s]],
      used    |-> [s \in Slots |-> IF s \in keep THEN a.clock + 1 ELSE a.used[s]],
      active  |-> [s \in Slots |-> IF s \in keep THEN Stamp(a, at, c, s)
                                                 ELSE a.active[s]],
      clock   |-> a.clock + 1,
      owed    |-> a.owed - Cardinality(Resolutions(a, keep))]

\* The front of the LRU list, as many as exceed the budget, request excluded.
Victims(a, keep) ==
  LET active == ActiveSlots(a)
  IN {s \in active \ keep :
        Cardinality({t \in active \ keep : a.active[t] < a.active[s]})
          < Cardinality(active) - Protected}

DemotedState(tag) == IF tag = NoTag THEN "reclaimable" ELSE "retiring"

Demoted(a, keep, tag) ==
  LET vs == Victims(a, keep)
  IN [a EXCEPT
        !.state   = [s \in Slots |-> IF s \in vs THEN DemotedState(tag) ELSE @[s]],
        !.pending = [s \in Slots |-> IF s \in vs /\ tag # NoTag THEN tag ELSE @[s]],
        !.active  = [s \in Slots |-> IF s \in vs THEN 0 ELSE @[s]],
        !.owed    = @ + Cardinality(vs)]

Wanted(a, req, tag, c) ==
  LET at == Assigned(a, req, c)
  IN Demoted(Resolved(a, req, c), {at[i] : i \in DOMAIN req}, tag)

-----------------------------------------------------------------------------
\* Mutant: the released slot keeps its entry in _pending.
SettledStillPending(a, done) ==
  [a EXCEPT !.state = [s \in Slots |-> IF a.state[s] = "retiring" /\ a.pending[s] \in done
                                          THEN "reclaimable" ELSE @[s]]]

(* settle: release the retiring slots whose tag the caller says is done.   *)
Settled(a, done) ==
  LET fired == {s \in Slots : a.pending[s] # NoTag /\ a.pending[s] \in done}
      freed == {s \in fired : a.state[s] = "retiring"}
  IN [a EXCEPT
        !.pending = [s \in Slots |-> IF s \in fired THEN NoTag ELSE @[s]],
        !.state   = [s \in Slots |-> IF s \in freed THEN "reclaimable" ELSE @[s]],
        !.active  = [s \in Slots |-> IF s \in freed THEN 0 ELSE @[s]]]

(* discard: unpublish slots whose contents can no longer be trusted.  No   *)
(* counter moves, so an idle slot that is discarded stays owed for ever.   *)
Discarded(a, es) ==
  LET gone == {SlotOf(a, e) : e \in {x \in es : SlotsOf(a, x) # {}}}
  IN [a EXCEPT
        !.holds   = [s \in Slots |-> IF s \in gone THEN NoExpert ELSE @[s]],
        !.state   = [s \in Slots |-> IF s \in gone THEN "absent" ELSE @[s]],
        !.gen     = [s \in Slots |-> IF s \in gone THEN @[s] + 1 ELSE @[s]],
        !.pending = [s \in Slots |-> IF s \in gone THEN NoTag ELSE @[s]],
        !.active  = [s \in Slots |-> IF s \in gone THEN 0 ELSE @[s]]]
=============================================================================
