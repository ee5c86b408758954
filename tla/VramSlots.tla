------------------------------ MODULE VramSlots ------------------------------
(***************************************************************************)
(* One slot arena (SlotArena) under any order of requests, settlements and *)
(* discards: the object VramSlots of src/kernel/vram_slots.py with its     *)
(* public operations as actions.                                           *)
(***************************************************************************)
EXTENDS SlotArena

VARIABLE arena

-----------------------------------------------------------------------------
ArenaInit == arena = EmptyArena

\* A request that raises restores its snapshot: it is no step at all.
Want(req, tag) ==
  /\ arena.clock < MaxClock
  /\ \E c \in Claims(arena, req, tag) : arena' = Wanted(arena, req, tag, c)

Settle(done) == arena' = Settled(arena, done)

Discard(es) == arena' = Discarded(arena, es)

ArenaNext ==
  \/ \E req \in Requests, tag \in Tags \cup {NoTag} : Want(req, tag)
  \/ \E done \in SUBSET Tags : Settle(done)
  \/ \E es \in SUBSET Experts : Discard(es)

ArenaSpec == ArenaInit /\ [][ArenaNext]_arena

-----------------------------------------------------------------------------
\* The arena's fields keep their types.
ArenaTypeOK == arena \in Arenas

(* No two slots hold the same expert: slot_of would serve the lower one    *)
(* and the other would be a stale copy nothing ever unpublishes.           *)
OneSlotPerExpert ==
  \A s, t \in Slots :
    /\ arena.holds[s] = arena.holds[t]
    /\ arena.holds[s] # NoExpert
    => s = t

(* The four records of a slot agree: it is in the ordered index exactly    *)
(* while active (what _assert_active_index checks), has an event to wait   *)
(* for exactly while retiring, and holds nobody exactly while absent, so   *)
(* that no slot is both free to claim and the home of an expert.           *)
IndexesAgree ==
  /\ ActiveSlots(arena) = InState(arena, "active")
  /\ \A s \in Slots :
       /\ arena.pending[s] # NoTag <=> arena.state[s] = "retiring"
       /\ arena.holds[s] = NoExpert <=> arena.state[s] = "absent"

(* The order in which demotion walks _active is the order of last use that *)
(* claim reads from _used: the two recency records never disagree.         *)
RecencyAgrees ==
  \A s, t \in ActiveSlots(arena) :
    arena.active[s] < arena.active[t] => arena.used[s] <= arena.used[t]

(* A retiring slot is never given to another expert: until its readers are *)
(* known to be done it can only be resurrected, settled or discarded.      *)
RetiringKeepsExpert ==
  [][\A s \in Slots :
       arena.state[s] = "retiring" /\ arena'.state[s] # "absent"
         => arena'.holds[s] = arena.holds[s]]_arena

(* A slot changes hands only with its generation: a (slot, generation)     *)
(* pair that still validates names the bytes it was taken for.             *)
GenerationTracksContents ==
  [][\A s \in Slots :
       arena'.holds[s] # arena.holds[s] => arena'.gen[s] > arena.gen[s]]_arena
=============================================================================
