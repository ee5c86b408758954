-------------------------- MODULE DevRowCacheProofs --------------------------
(***************************************************************************)
(* For every number of rows, budget, set of keys and of layers: a gather   *)
(* reads the rows it was issued for, whatever raises or is abandoned and   *)
(* however far the stream lags, and the cache drives its slot accounting   *)
(* by nothing but that object's own operations.                            *)
(*                                                                         *)
(* What makes it so is that a row somebody has still to read is never in a *)
(* state the claim loop takes rows from: it is active, or it retires under *)
(* a tag that is not recorded yet, or was recorded after the reader was    *)
(* issued.                                                                 *)
(*                                                                         *)
(* The allocator's own theorems come first: under any order of requests,   *)
(* settlements and discards no expert has two slots, its records agree,    *)
(* and a slot with readers in flight keeps its expert.                     *)
(*                                                                         *)
(* Last comes the census, driven by decode steps: what it reports is true  *)
(* for every set of layers, any sizes of the routed sets and any number of *)
(* steps, if the lowest layer asks in every step.                          *)
(***************************************************************************)
EXTENDS DevRowCache, DecodeSteps, SlotArenaProofs, SequenceTheorems

(* Every request of the code's callers is one that an arena can take.      *)
LEMMA RequestsRouted ==
  ASSUME NEW q \in Requests
  PROVE  q \in Routed
  BY SlotArenaAssumption DEF Routed

-----------------------------------------------------------------------------
(* The allocator on its own.                                               *)

IInv == Sound(arena)

(* Every step: the arena stays sound, retiring slots keep their expert     *)
(* unless discarded, and whatever changes hands changes generation.        *)
LEMMA NextSound ==
  ASSUME Sound(arena), [ArenaNext]_arena
  PROVE  /\ Sound(arena')
         /\ \A s \in Slots : arena.state[s] = "retiring" /\ arena'.state[s] # "absent" =>
              arena'.holds[s] = arena.holds[s]
         /\ \A s \in Slots : arena'.holds[s] # arena.holds[s] => arena'.gen[s] > arena.gen[s]
<1>1. ASSUME NEW q \in Requests, NEW tag \in Tags \cup {NoTag}, Want(q, tag)
      PROVE  /\ Sound(arena')
             /\ \A s \in Slots : arena.state[s] = "retiring" => arena'.holds[s] = arena.holds[s]
             /\ \A s \in Slots : arena'.holds[s] # arena.holds[s] => arena'.gen[s] > arena.gen[s]
  <2>1. PICK c \in Claims(arena, q, tag) : arena' = Wanted(arena, q, tag, c)
    BY <1>1 DEF Want
  <2> QED
    BY <2>1, RequestsRouted, WantedIsSound
<1>2. ASSUME NEW done \in SUBSET Tags, Settle(done)
      PROVE  Sound(arena') /\ arena'.holds = arena.holds
  BY <1>2, SettledIsSound DEF Settle
<1>3. ASSUME NEW es \in SUBSET Experts, Discard(es)
      PROVE  /\ Sound(arena')
             /\ \A s \in Slots : arena'.holds[s] # arena.holds[s] =>
                  arena'.state[s] = "absent" /\ arena'.gen[s] > arena.gen[s]
  BY <1>3, DiscardedIsSound DEF Discard
<1>4. CASE UNCHANGED arena
  BY <1>4
<1> QED
  BY <1>1, <1>2, <1>3, <1>4 DEF ArenaNext

(* The arena is sound in every state.                                      *)
LEMMA Invariance == ArenaSpec => []IInv
<1>1. ArenaInit => IInv
  BY EmptyIsSound DEF ArenaInit, IInv
<1>2. IInv /\ [ArenaNext]_arena => IInv'
  BY NextSound DEF IInv
<1> QED
  BY <1>1, <1>2, PTL DEF ArenaSpec

(* Stamps order slots as the requests that used them last.                 *)
LEMMA RecentFirst ==
  ASSUME Sound(arena)
  PROVE  RecencyAgrees
<1> SUFFICES ASSUME NEW s \in ActiveSlots(arena), NEW t \in ActiveSlots(arena),
                    arena.active[s] < arena.active[t], arena.used[t] < arena.used[s]
             PROVE  FALSE
  BY DEF RecencyAgrees, Sound, Arenas, ActiveSlots
<1> DEFINE u == arena.used[s]
           v == arena.used[t]
<1>1. u \in Nat /\ v \in Nat /\ Width \in Nat /\ v + 1 <= u
  BY SlotArenaAssumption DEF Sound, Arenas, ActiveSlots, Width
<1>2. PICK i \in 1 .. 2 * NSlots : arena.active[s] = u * Width + i
  BY DEF Sound, Stamped, ActiveSlots
<1>3. PICK j \in 1 .. 2 * NSlots : arena.active[t] = v * Width + j
  BY DEF Sound, Stamped, ActiveSlots
<1> HIDE DEF u, v
<1>4. PICK k \in Nat : u = v + 1 + k
  <2>1. u - v - 1 \in Nat /\ u = v + 1 + (u - v - 1)
    BY <1>1
  <2> QED
    BY <2>1
<1>5. u * Width = v * Width + Width + k * Width /\ k * Width \in Nat /\ v * Width \in Nat
  BY <1>1, <1>4
<1>6. j < Width
  BY SlotArenaAssumption DEF Width
<1> QED
  BY <1>1, <1>2, <1>3, <1>5, <1>6

(* The object's fields keep their types, whatever it is asked.             *)
THEOREM TypeCorrect == ArenaSpec => []ArenaTypeOK
<1>1. IInv => ArenaTypeOK
  BY DEF IInv, Sound, ArenaTypeOK
<1> QED
  BY <1>1, Invariance, PTL

(* No expert ever has two slots (vram_slots.py, want).                     *)
THEOREM OneSlot == ArenaSpec => []OneSlotPerExpert
<1>1. IInv => OneSlotPerExpert
  BY DEF IInv, Sound, Unique, OneSlotPerExpert
<1> QED
  BY <1>1, Invariance, PTL

(* The ordered index, the pending tags and the holders agree with the      *)
(* slots' states.                                                          *)
THEOREM IndexesAlwaysAgree == ArenaSpec => []IndexesAgree
<1>1. IInv => IndexesAgree
  BY DEF IInv, Sound, Agree, IndexesAgree, ActiveSlots, InState
<1> QED
  BY <1>1, Invariance, PTL

(* Demotion's order and claim's order are the same order.                  *)
THEOREM RecencyAlwaysAgrees == ArenaSpec => []RecencyAgrees
<1>1. IInv => RecencyAgrees
  BY RecentFirst DEF IInv
<1> QED
  BY <1>1, Invariance, PTL

(* A slot with readers in flight keeps its expert until it is discarded.   *)
THEOREM RetiringKeeps == ArenaSpec => RetiringKeepsExpert
<1>1. IInv /\ [ArenaNext]_arena =>
        [\A s \in Slots : arena.state[s] = "retiring" /\ arena'.state[s] # "absent"
                            => arena'.holds[s] = arena.holds[s]]_arena
  BY NextSound DEF IInv
<1> QED
  BY <1>1, Invariance, PTL DEF ArenaSpec, RetiringKeepsExpert

(* A slot that changes hands changes its generation.                       *)
THEOREM GenerationTracks == ArenaSpec => GenerationTracksContents
<1>1. IInv /\ [ArenaNext]_arena =>
        [\A s \in Slots : arena'.holds[s] # arena.holds[s] => arena'.gen[s] > arena.gen[s]]_arena
  BY NextSound DEF IInv
<1> QED
  BY <1>1, Invariance, PTL DEF ArenaSpec, GenerationTracksContents

-----------------------------------------------------------------------------
(* The cache.                                                              *)

\* Where the host is, and what it holds there.
Host ==
  /\ pc \in {"idle", "want", "stall", "retry", "fill", "commit"}
  /\ step \in 0 .. MaxClock
  /\ last \in 0 .. step
  /\ pc # "idle" => step \in Tags /\ req \in Requests
  /\ pc \in {"want", "stall", "retry"} => last < step
  /\ pc \in {"fill", "commit"} => last = step
  /\ pc = "fill" => todo \subseteq need /\ need \subseteq DOMAIN req

\* Gathers and tags: nothing is recorded for a step that has not resolved.
Stream ==
  /\ issued \in Nat
  /\ completed \in 0 .. issued
  /\ recorded \in [Tags -> Int]
  /\ bytes \in [Slots -> Experts \cup {NoExpert}]
  /\ \A t \in Tags : t > last => recorded[t] = -1

\* The step's rows are in the arena, active, until it is over.
Placed ==
  pc \in {"fill", "commit"} =>
    \A i \in DOMAIN req : SlotsOf(arena, req[i]) # {} /\ arena.state[Row(i)] = "active"

\* A row with a reader in flight cannot be claimed before the reader is done.
Kept(s, at) ==
  \/ arena.state[s] = "active"
  \/ /\ arena.state[s] = "retiring"
     /\ recorded[arena.pending[s]] = -1 \/ recorded[arena.pending[s]] >= at

Covered ==
  \A r \in reads :
    /\ r.at \in Nat /\ r.at > completed /\ r.at <= issued
    /\ r.slot \in Slots /\ r.key \in Experts
    /\ arena.holds[r.slot] = r.key
    /\ bytes[r.slot] = r.key
    /\ Kept(r.slot, r.at)

\* Nobody reads a row the step has still to fill, or may have to unpublish.
Unread == pc = "fill" => \A r \in reads, i \in need : r.slot # Row(i)

CInv ==
  /\ Sound(arena)
  /\ Host
  /\ Stream
  /\ Placed
  /\ Covered
  /\ Unread
  /\ PublishedRowIsFilled
  /\ EvictionsAllAccounted

-----------------------------------------------------------------------------
(* Nothing is in the arena, nothing has been issued.                       *)
LEMMA InitCInv == Init => CInv
<1> SUFFICES ASSUME Init
             PROVE  CInv
  OBVIOUS
<1>1. Sound(arena)
  BY EmptyIsSound DEF Init
<1>2. Host
  BY DevRowCacheAssumption, SlotArenaAssumption DEF Init, Host
<1>3. Stream
  BY DEF Init, Stream
<1>4. Placed /\ Covered /\ Unread
  BY DEF Init, Placed, Covered, Unread
<1>5. PublishedRowIsFilled
  BY DEF Init, PublishedRowIsFilled, EmptyArena
<1>6. EvictionsAllAccounted
  <2>1. InState(arena, "retiring") \cup InState(arena, "reclaimable") = {}
    BY DEF Init, EmptyArena, InState
  <2>2. arena.owed = 0
    BY DEF Init, EmptyArena
  <2> QED
    BY <2>1, <2>2, FS_EmptySet DEF EvictionsAllAccounted
<1> QED
  BY <1>1, <1>2, <1>3, <1>4, <1>5, <1>6 DEF CInv

(* A tag recorded now is recorded after every reader issued so far.        *)
LEMMA RecordKeeps ==
  ASSUME CInv, NEW t \in Tags, NEW r \in reads, NEW s \in Slots, Kept(s, r.at)
  PROVE  \/ arena.state[s] = "active"
         \/ /\ arena.state[s] = "retiring"
            /\ arena.pending[s] \in Tags
            /\ \/ Record(recorded, t)[arena.pending[s]] = -1
               \/ Record(recorded, t)[arena.pending[s]] >= r.at
<1>1. CASE arena.state[s] = "active"
  BY <1>1
<1>2. CASE arena.state[s] = "retiring"
  <2>1. arena.pending[s] \in Tags
    BY <1>2 DEF CInv, Sound, Agree, Arenas
  <2>2. recorded \in [Tags -> Int] /\ issued >= r.at
    BY DEF CInv, Stream, Covered
  <2> QED
    BY <1>2, <2>1, <2>2 DEF Kept, Record
<1> QED
  BY <1>1, <1>2 DEF Kept

(* settle does not free a row that has a reader in flight.                 *)
LEMMA SettleKeeps ==
  ASSUME CInv, NEW rec \in [Tags -> Int], NEW r \in reads, NEW s \in Slots,
         arena' = Settled(arena, Done(rec)),
         \/ arena.state[s] = "active"
         \/ /\ arena.state[s] = "retiring"
            /\ arena.pending[s] \in Tags
            /\ rec[arena.pending[s]] = -1 \/ rec[arena.pending[s]] >= r.at
  PROVE  \/ arena'.state[s] = "active"
         \/ /\ arena'.state[s] = "retiring"
            /\ rec[arena'.pending[s]] = -1 \/ rec[arena'.pending[s]] >= r.at
<1>1. Done(rec) \in SUBSET Tags /\ Sound(arena)
  BY DEF Done, CInv
<1>2. /\ arena.state[s] = "active" => arena'.state[s] = "active"
      /\ arena.state[s] = "retiring" /\ arena.pending[s] \notin Done(rec) =>
           arena'.state[s] = "retiring" /\ arena'.pending[s] = arena.pending[s]
  BY <1>1, SettleIs
<1>3. ASSUME arena.state[s] = "retiring", arena.pending[s] \in Tags,
             rec[arena.pending[s]] = -1 \/ rec[arena.pending[s]] >= r.at
      PROVE  arena.pending[s] \notin Done(rec)
  <2>1. r.at \in Nat /\ r.at > completed /\ completed \in Nat
    BY DEF CInv, Covered, Stream
  <2>2. rec[arena.pending[s]] \in Int
    BY <1>3
  <2> QED
    BY <1>3, <2>1, <2>2 DEF Done
<1> QED
  BY <1>2, <1>3

(* What a settlement leaves of the invariant, whatever else the step does  *)
(* to the host's own variables.                                            *)
LEMMA SettleKeepsRows ==
  ASSUME CInv, NEW done \in SUBSET Tags, arena' = Settled(arena, done), bytes' = bytes
  PROVE  /\ Sound(arena')
         /\ \A s \in Slots : arena'.state[s] # "absent" <=> arena.state[s] # "absent"
         /\ arena'.holds = arena.holds
         /\ EvictionsAllAccounted'
<1>1. Sound(arena)
  BY DEF CInv
<1>2. Sound(arena')
  BY <1>1, SettledIsSound
<1>3. /\ arena'.holds = arena.holds
      /\ arena'.owed = arena.owed
      /\ \A s \in Slots :
           /\ arena'.state[s] = "absent" <=> arena.state[s] = "absent"
           /\ arena'.state[s] \in {"retiring", "reclaimable"} <=>
                arena.state[s] \in {"retiring", "reclaimable"}
  BY <1>1, SettleIs
<1>4. (InState(arena, "retiring") \cup InState(arena, "reclaimable"))'
        = InState(arena, "retiring") \cup InState(arena, "reclaimable")
  BY <1>3 DEF InState
<1> QED
  BY <1>2, <1>3, <1>4 DEF CInv, EvictionsAllAccounted

-----------------------------------------------------------------------------
(* The request settles what fired; the tag it may record for the previous  *)
(* step is recorded after that step's readers.                             *)
LEMMA BeginWantKeeps ==
  ASSUME CInv, NEW q \in Requests, BeginWant(q)
  PROVE  CInv'
<1> USE DEF BeginWant
<1>0. /\ MaxClock \in Nat /\ Tags = 1 .. MaxClock /\ NoTag = 0
      /\ step \in 0 .. MaxClock /\ last \in 0 .. step /\ recorded \in [Tags -> Int]
      /\ issued \in Nat /\ completed \in Nat
  BY DevRowCacheAssumption, SlotArenaAssumption DEF CInv, Host, Stream
<1>1. recorded' \in [Tags -> Int] /\ \A t \in Tags : t > last => recorded'[t] = -1
  <2>1. \A t \in Tags : t > last => recorded[t] = -1
    BY DEF CInv, Stream
  <2> QED
    BY <1>0, <2>1 DEF PreviousRecorded, Record
<1>2. /\ Sound(arena')
      /\ \A s \in Slots : arena'.state[s] # "absent" <=> arena.state[s] # "absent"
      /\ arena'.holds = arena.holds
      /\ EvictionsAllAccounted'
  <2>1. CASE last = NoTag
    BY <2>1 DEF CInv, EvictionsAllAccounted, InState
  <2>2. CASE last # NoTag
    <3>1. Done(PreviousRecorded) \in SUBSET Tags
      BY DEF Done
    <3> QED
      BY <2>2, <3>1, SettleKeepsRows
  <2> QED
    BY <2>1, <2>2
<1>3. Host'
  BY <1>0 DEF CInv, Host
<1>4. Stream'
  BY <1>0, <1>1 DEF CInv, Stream, streamVars
<1>5. Placed' /\ Unread'
  BY DEF Placed, Unread
<1>6. Covered'
  <2> SUFFICES ASSUME NEW r \in reads
               PROVE  Kept(r.slot, r.at)'
    BY <1>2 DEF CInv, Covered, streamVars
  <2>0. r.slot \in Slots /\ Kept(r.slot, r.at)
    BY DEF CInv, Covered
  <2>1. CASE last = NoTag
    BY <2>0, <2>1 DEF Kept, PreviousRecorded
  <2>2. CASE last # NoTag
    <3>1. last \in Tags
      BY <1>0, <2>2
    <3>2. recorded' = Record(recorded, last)
      BY <2>2 DEF PreviousRecorded
    <3>3. \/ arena.state[r.slot] = "active"
          \/ /\ arena.state[r.slot] = "retiring"
             /\ arena.pending[r.slot] \in Tags
             /\ recorded'[arena.pending[r.slot]] = -1 \/ recorded'[arena.pending[r.slot]] >= r.at
      BY <2>0, <3>1, <3>2, RecordKeeps
    <3>4. arena' = Settled(arena, Done(recorded'))
      BY <2>2
    <3> QED
      BY <1>1, <2>0, <3>3, <3>4, SettleKeeps DEF Kept
  <2> QED
    BY <2>1, <2>2
<1>7. PublishedRowIsFilled'
  BY <1>2 DEF CInv, PublishedRowIsFilled
<1> QED
  BY <1>2, <1>3, <1>4, <1>5, <1>6, <1>7 DEF CInv

(* The request takes its rows: none that somebody has still to read.       *)
LEMMA ResolveKeeps ==
  ASSUME CInv, Resolve
  PROVE  CInv'
<1> USE DEF Resolve
<1>0. /\ Sound(arena) /\ req \in Requests /\ step \in Tags /\ last < step
      /\ step \in Nat /\ last \in Nat /\ step <= MaxClock /\ MaxClock \in Nat
      /\ recorded[step] = -1
      /\ recorded \in [Tags -> Int]
  BY SlotArenaAssumption, DevRowCacheAssumption DEF CInv, Host, Stream
<1>1. PICK c \in Claims(arena, req, step) : arena' = Wanted(arena, req, step, c)
  BY DEF Want
<1> DEFINE at == Assigned(arena, req, c)
<1> HIDE DEF at
<1>2. /\ Sound(arena')
      /\ \A i \in DOMAIN req : at[i] \in Slots /\ arena'.holds[at[i]] = req[i]
                                 /\ arena'.state[at[i]] = "active"
      /\ \A i \in Misses(arena, req) : arena.state[at[i]] \in {"reclaimable", "absent"}
      /\ \A s \in Slots : arena.state[s] \in {"active", "retiring"} =>
           /\ arena'.holds[s] = arena.holds[s]
           /\ arena'.state[s] \in {"active", "retiring"}
           /\ arena'.state[s] = "retiring" =>
                \/ arena'.pending[s] = step
                \/ arena.state[s] = "retiring" /\ arena'.pending[s] = arena.pending[s]
      /\ \A s \in Slots : arena'.state[s] # "absent" =>
           \/ arena'.holds[s] = arena.holds[s] /\ arena.state[s] # "absent"
           \/ \E i \in Misses(arena, req) : arena'.holds[s] = req[i]
      /\ arena.owed = Cardinality(Idle(arena)) => arena'.owed = Cardinality(Idle(arena'))
  BY <1>0, <1>1, WantIs, RequestsRouted DEF at
<1>3. \A i \in DOMAIN req : req[i] \in Experts
  BY <1>0, RequestType, RequestsRouted
<1>4. \A i \in DOMAIN req : SlotsOf(arena', req[i]) # {} /\ SlotOf(arena', req[i]) = at[i]
  BY <1>2, <1>3, HolderIsSlotOf
<1>5. Host'
  <2>1. Misses(arena, req) \subseteq DOMAIN req
    BY DEF Misses
  <2> QED
    BY <1>0, <2>1 DEF CInv, Host
<1>6. Stream'
  BY <1>0, DevRowCacheAssumption DEF CInv, Stream, streamVars
<1>7. Placed'
  BY <1>2, <1>4 DEF Placed, Row
<1>8. Covered'
  <2> SUFFICES ASSUME NEW r \in reads
               PROVE  arena'.holds[r.slot] = arena.holds[r.slot] /\ Kept(r.slot, r.at)'
    BY DEF CInv, Covered, streamVars
  <2>1. r.slot \in Slots /\ Kept(r.slot, r.at)
    BY DEF CInv, Covered
  <2> QED
    BY <1>0, <1>2, <2>1 DEF Kept
<1>9. Unread'
  <2> SUFFICES ASSUME NEW r \in reads, NEW i \in Misses(arena, req)
               PROVE  r.slot # at[i]
    BY <1>4 DEF Unread, Row, streamVars, Misses
  <2>1. Kept(r.slot, r.at)
    BY DEF CInv, Covered
  <2> QED
    BY <1>2, <2>1 DEF Kept
<1>10. PublishedRowIsFilled'
  <2> SUFFICES ASSUME NEW s \in Slots, arena'.state[s] # "absent"
               PROVE  \/ bytes[s] = arena'.holds[s]
                      \/ \E i \in Misses(arena, req) : req[i] = arena'.holds[s]
    BY DEF PublishedRowIsFilled
  <2>1. CASE arena'.holds[s] = arena.holds[s] /\ arena.state[s] # "absent"
    BY <2>1 DEF CInv, PublishedRowIsFilled
  <2> QED
    BY <1>2, <2>1
<1>11. EvictionsAllAccounted'
  BY <1>2 DEF CInv, EvictionsAllAccounted, Idle, InState
<1> QED
  BY <1>2, <1>5, <1>6, <1>7, <1>8, <1>9, <1>10, <1>11 DEF CInv

(* No slot: the host goes to wait.                                         *)
LEMMA NoSlotKeeps ==
  ASSUME CInv, NoSlot
  PROVE  CInv'
BY DEF NoSlot, CInv, Host, Stream, Placed, Covered, Kept, Unread, PublishedRowIsFilled,
       EvictionsAllAccounted, streamVars, Row, InState

(* The wait over, everything that retired is settled, but no reader's row. *)
LEMMA StallKeeps ==
  ASSUME CInv, Stall
  PROVE  CInv'
<1> USE DEF Stall
<1>1. Done(recorded) \in SUBSET Tags
  BY DEF Done
<1>2. /\ Sound(arena')
      /\ \A s \in Slots : arena'.state[s] # "absent" <=> arena.state[s] # "absent"
      /\ arena'.holds = arena.holds
      /\ EvictionsAllAccounted'
  BY <1>1, SettleKeepsRows
<1>3. Host' /\ Stream' /\ Placed' /\ Unread'
  BY DEF CInv, Host, Stream, Placed, Unread, streamVars
<1>4. Covered'
  <2> SUFFICES ASSUME NEW r \in reads
               PROVE  Kept(r.slot, r.at)'
    BY <1>2 DEF CInv, Covered, streamVars
  <2>0. r.slot \in Slots /\ Kept(r.slot, r.at) /\ recorded \in [Tags -> Int]
    BY DEF CInv, Covered, Stream
  <2>1. arena.state[r.slot] = "retiring" => arena.pending[r.slot] \in Tags
    BY <2>0 DEF CInv, Sound, Agree, Arenas
  <2> QED
    BY <2>0, <2>1, SettleKeeps DEF Kept
<1>5. PublishedRowIsFilled'
  BY <1>2 DEF CInv, PublishedRowIsFilled
<1> QED
  BY <1>2, <1>3, <1>4, <1>5 DEF CInv

(* Where the step's rows are.                                              *)
LEMMA RowsPlaced ==
  ASSUME CInv, pc \in {"fill", "commit"}, NEW i \in DOMAIN req
  PROVE  /\ req[i] \in Experts
         /\ SlotsOf(arena, req[i]) # {}
         /\ Row(i) \in Slots
         /\ arena.holds[Row(i)] = req[i]
         /\ arena.state[Row(i)] = "active"
<1>1. Sound(arena) /\ req \in Requests
  BY DEF CInv, Host
<1>2. req[i] \in Experts
  BY <1>1, RequestType, RequestsRouted
<1>3. SlotsOf(arena, req[i]) # {} /\ arena.state[Row(i)] = "active"
  BY DEF CInv, Placed
<1> QED
  BY <1>1, <1>2, <1>3, SlotOfIs DEF Row

(* The next row to fill is one of the step's.                              *)
LEMMA NextToFill ==
  ASSUME CInv, pc = "fill", todo # {}
  PROVE  Lowest(todo) \in todo /\ Lowest(todo) \in need /\ Lowest(todo) \in DOMAIN req
<1>1. todo \subseteq need /\ need \subseteq DOMAIN req /\ req \in Requests
  BY DEF CInv, Host
<1>2. 1 .. NSlots \subseteq Nat
  BY SlotArenaAssumption
<1>3. todo \subseteq Nat
  BY <1>1, <1>2, RequestType, RequestsRouted
<1> QED
  BY <1>1, <1>3, LowestIs

(* A row is filled that nobody has still to read.                          *)
LEMMA FillKeeps ==
  ASSUME CInv, Fill
  PROVE  CInv'
<1> USE DEF Fill
<1> DEFINE i == Lowest(todo)
<1>1. i \in todo /\ i \in need /\ i \in DOMAIN req
  BY NextToFill
<1> HIDE DEF i
<1>2. /\ req[i] \in Experts /\ Row(i) \in Slots /\ arena.holds[Row(i)] = req[i]
      /\ arena.state[Row(i)] = "active"
  BY <1>1, RowsPlaced
<1>3. bytes' = [bytes EXCEPT ![Row(i)] = req[i]] /\ todo' = todo \ {i}
  BY DEF i
<1>4. bytes \in [Slots -> Experts \cup {NoExpert}]
  BY DEF CInv, Stream
<1>5. Sound(arena') /\ EvictionsAllAccounted'
  BY DEF CInv, EvictionsAllAccounted, InState
<1>6. Host'
  BY <1>3 DEF CInv, Host
<1>7. Stream'
  BY <1>2, <1>3, <1>4 DEF CInv, Stream, streamVars
<1>8. Placed' /\ Unread'
  BY DEF CInv, Placed, Unread, streamVars, Row
<1>9. Covered'
  <2> SUFFICES ASSUME NEW r \in reads
               PROVE  bytes'[r.slot] = bytes[r.slot]
    BY DEF CInv, Covered, streamVars, Kept
  <2>1. r.slot \in Slots /\ r.slot # Row(i)
    BY <1>1 DEF CInv, Covered, Unread
  <2> QED
    BY <1>3, <1>4, <2>1
<1>10. PublishedRowIsFilled'
  <2> SUFFICES ASSUME NEW s \in Slots, arena.state[s] # "absent"
               PROVE  \/ bytes'[s] = arena.holds[s]
                      \/ \E j \in todo \ {i} : req[j] = arena.holds[s]
    BY <1>3 DEF PublishedRowIsFilled
  <2>1. CASE s = Row(i)
    BY <1>2, <1>3, <1>4, <2>1
  <2>2. CASE s # Row(i)
    <3>1. bytes'[s] = bytes[s]
      BY <1>3, <1>4, <2>2
    <3>2. \/ bytes[s] = arena.holds[s]
          \/ \E j \in todo : req[j] = arena.holds[s]
      BY DEF CInv, PublishedRowIsFilled
    <3>3. arena.holds[s] # req[i]
      BY <1>2, <2>2, SlotArenaAssumption DEF CInv, Sound, Unique
    <3> QED
      BY <3>1, <3>2, <3>3
  <2> QED
    BY <2>1, <2>2
<1> QED
  BY <1>5, <1>6, <1>7, <1>8, <1>9, <1>10 DEF CInv

(* A fill raises: the step's new rows are unpublished, and nobody reads    *)
(* them; the tag is recorded behind every reader issued so far.            *)
LEMMA FillRaisesKeeps ==
  ASSUME CInv, FillRaises
  PROVE  CInv'
<1> USE DEF FillRaises, Leave
<1> DEFINE es == {req[j] : j \in need}
           i == Lowest(todo)
<1>1. i \in todo /\ i \in need /\ i \in DOMAIN req
  BY NextToFill
<1> HIDE DEF i
<1>2. /\ Row(i) \in Slots /\ arena.holds[Row(i)] = req[i]
      /\ bytes \in [Slots -> Experts \cup {NoExpert}]
      /\ bytes' \in [Slots -> Experts \cup {NoExpert}]
      /\ \A s \in Slots : s # Row(i) => bytes'[s] = bytes[s]
  <2>1. Row(i) \in Slots /\ arena.holds[Row(i)] = req[i]
    BY <1>1, RowsPlaced
  <2>2. bytes \in [Slots -> Experts \cup {NoExpert}]
    BY DEF CInv, Stream
  <2>3. bytes' = [bytes EXCEPT ![Row(i)] = NoExpert] \/ bytes' = bytes
    BY DEF i
  <2> QED
    BY <2>1, <2>2, <2>3
<1>3. need \subseteq DOMAIN req /\ todo \subseteq need /\ Sound(arena)
  BY DEF CInv, Host
<1>4. es \in SUBSET Experts /\ \A e \in es : arena.state[SlotOf(arena, e)] = "active"
  BY <1>3, RowsPlaced DEF Row
<1>5. arena' = Discarded(arena, es)
  BY DEF Forget
<1>6. Sound(arena')
  BY <1>3, <1>4, <1>5, DiscardedIsSound
<1> HIDE DEF es
<1>7. /\ arena'.owed = arena.owed
      /\ Idle(arena') = Idle(arena)
      /\ \A s \in Slots : arena.holds[s] \in es => arena'.state[s] = "absent"
      /\ \A s \in Slots :
           \/ arena.holds[s] \in es /\ arena'.state[s] = "absent"
           \/ /\ arena'.holds[s] = arena.holds[s]
              /\ arena'.state[s] = arena.state[s]
              /\ arena'.pending[s] = arena.pending[s]
  BY <1>3, <1>4, <1>5, DiscardIs
<1>8. step \in Tags /\ last = step /\ recorded \in [Tags -> Int] /\ step \in Int /\ issued \in Nat
  BY DEF CInv, Host, Stream
<1>9. Host'
  BY DEF CInv, Host
<1>10. Stream'
  BY <1>2, <1>8 DEF CInv, Stream, streamVars, Record
<1>11. Placed' /\ Unread'
  BY DEF Placed, Unread
<1>12. Covered'
  <2> SUFFICES ASSUME NEW r \in reads
               PROVE  /\ arena'.holds[r.slot] = arena.holds[r.slot]
                      /\ bytes'[r.slot] = bytes[r.slot]
                      /\ Kept(r.slot, r.at)'
    BY DEF CInv, Covered, streamVars
  <2>1. r.slot \in Slots /\ arena.holds[r.slot] = r.key /\ r.key \in Experts /\ Kept(r.slot, r.at)
    BY DEF CInv, Covered
  <2>2. \A j \in need : r.slot # Row(j)
    BY DEF CInv, Unread
  <2>3. \A j \in need : r.key # req[j]
    <3> SUFFICES ASSUME NEW j \in need, r.key = req[j]
                 PROVE  FALSE
      OBVIOUS
    <3>1. arena.state[r.slot] # "absent"
      BY <2>1 DEF Kept
    <3>2. SlotOf(arena, r.key) = r.slot
      BY <1>3, <2>1, <3>1, HolderIsSlotOf
    <3> QED
      BY <2>2, <3>2 DEF Row
  <2>4. r.key \notin es
    BY <2>3 DEF es
  <2>5. /\ arena'.holds[r.slot] = arena.holds[r.slot]
        /\ arena'.state[r.slot] = arena.state[r.slot]
        /\ arena'.pending[r.slot] = arena.pending[r.slot]
    BY <1>7, <2>1, <2>4
  <2>6. \/ arena.state[r.slot] = "active"
        \/ /\ arena.state[r.slot] = "retiring"
           /\ arena.pending[r.slot] \in Tags
           /\ recorded'[arena.pending[r.slot]] = -1 \/ recorded'[arena.pending[r.slot]] >= r.at
    BY <1>8, <2>1, RecordKeeps
  <2> QED
    BY <1>1, <1>2, <2>1, <2>2, <2>5, <2>6 DEF Kept
<1>13. PublishedRowIsFilled'
  <2> SUFFICES ASSUME NEW s \in Slots, arena'.state[s] # "absent"
               PROVE  bytes'[s] = arena'.holds[s]
    BY DEF PublishedRowIsFilled
  <2>1. arena.holds[s] \notin es /\ arena'.holds[s] = arena.holds[s] /\ arena.state[s] # "absent"
    BY <1>7
  <2>2. s # Row(i)
    BY <1>1, <1>2, <2>1 DEF es
  <2>3. \A j \in todo : req[j] # arena.holds[s]
    BY <1>3, <2>1 DEF es
  <2> QED
    BY <1>2, <2>1, <2>2, <2>3 DEF CInv, PublishedRowIsFilled
<1>14. EvictionsAllAccounted'
  BY <1>7 DEF CInv, EvictionsAllAccounted, Idle, InState
<1> QED
  BY <1>6, <1>9, <1>10, <1>11, <1>12, <1>13, <1>14 DEF CInv

(* The gather reads rows that are filled, and active.                      *)
LEMMA GatherKeeps ==
  ASSUME CInv, Gather
  PROVE  CInv'
<1> USE DEF Gather
<1>1. issued \in Nat /\ completed \in 0 .. issued
  BY DEF CInv, Stream
<1>2. Sound(arena') /\ Host' /\ Placed' /\ Unread' /\ PublishedRowIsFilled' /\ EvictionsAllAccounted'
  BY DEF CInv, Host, Placed, Unread, PublishedRowIsFilled, EvictionsAllAccounted, Row, InState
<1>3. Stream'
  BY <1>1 DEF CInv, Stream
<1>4. Covered'
  <2> SUFFICES ASSUME NEW r \in reads'
               PROVE  /\ r.at \in Nat /\ r.at > completed /\ r.at <= issued + 1
                      /\ r.slot \in Slots /\ r.key \in Experts
                      /\ arena.holds[r.slot] = r.key
                      /\ bytes[r.slot] = r.key
                      /\ Kept(r.slot, r.at)
    BY DEF Covered, Kept
  <2>1. CASE r \in reads
    BY <1>1, <2>1 DEF CInv, Covered
  <2>2. CASE r \notin reads
    <3>1. PICK i \in DOMAIN req : r = [at |-> issued + 1, slot |-> Row(i), key |-> req[i]]
      BY <2>2
    <3>2. /\ r.at = issued + 1 /\ r.slot = Row(i) /\ r.key = req[i]
      BY <3>1
    <3>3. /\ req[i] \in Experts /\ Row(i) \in Slots /\ arena.holds[Row(i)] = req[i]
          /\ arena.state[Row(i)] = "active"
      BY RowsPlaced
    <3>4. bytes[Row(i)] = req[i]
      BY <3>3 DEF CInv, PublishedRowIsFilled
    <3> QED
      BY <1>1, <3>2, <3>3, <3>4 DEF Kept
  <2> QED
    BY <2>1, <2>2
<1> QED
  BY <1>2, <1>3, <1>4 DEF CInv

(* The step's tag is recorded behind its gather.                           *)
LEMMA CommitKeeps ==
  ASSUME CInv, Commit
  PROVE  CInv'
<1> USE DEF Commit, Leave
<1>1. step \in Tags /\ last = step /\ recorded \in [Tags -> Int] /\ step \in Int /\ issued \in Nat
  BY DEF CInv, Host, Stream
<1>2. Sound(arena') /\ Host' /\ Placed' /\ Unread' /\ PublishedRowIsFilled' /\ EvictionsAllAccounted'
  BY DEF CInv, Host, Placed, Unread, PublishedRowIsFilled, EvictionsAllAccounted, InState
<1>3. Stream'
  BY <1>1 DEF CInv, Stream, streamVars, Record
<1>4. Covered'
  <2> SUFFICES ASSUME NEW r \in reads
               PROVE  Kept(r.slot, r.at)'
    BY DEF CInv, Covered, streamVars
  <2>1. r.slot \in Slots /\ Kept(r.slot, r.at)
    BY DEF CInv, Covered
  <2> QED
    BY <1>1, <2>1, RecordKeeps DEF Kept
<1> QED
  BY <1>2, <1>3, <1>4 DEF CInv

(* A step that ends without recording its tag changes nothing of this.     *)
LEMMA AbandonKeeps ==
  ASSUME CInv, Abandon
  PROVE  CInv'
BY DEF Abandon, Leave, CInv, Host, Stream, Placed, Covered, Kept, Unread, PublishedRowIsFilled,
       EvictionsAllAccounted, streamVars, InState

(* The stream moves on: what it has executed needs no row any more.        *)
LEMMA ExecuteKeeps ==
  ASSUME CInv, Execute
  PROVE  CInv'
<1> USE DEF Execute
<1>1. issued \in Nat /\ completed \in 0 .. issued
  BY DEF CInv, Stream
<1>2. Sound(arena') /\ Host' /\ Placed' /\ Unread' /\ PublishedRowIsFilled' /\ EvictionsAllAccounted'
  BY DEF CInv, Host, Placed, Unread, PublishedRowIsFilled, EvictionsAllAccounted, hostVars, Row, InState
<1>3. Stream'
  BY <1>1 DEF CInv, Stream, hostVars
<1>4. Covered'
  BY DEF CInv, Covered, Kept
<1> QED
  BY <1>2, <1>3, <1>4 DEF CInv

-----------------------------------------------------------------------------
(* Every step keeps the invariant.                                         *)
LEMMA StepKeeps ==
  ASSUME CInv, [Next]_vars
  PROVE  CInv'
<1>1. CASE \E q \in Requests : BeginWant(q)
  BY <1>1, BeginWantKeeps
<1>2. CASE HostStep
  BY <1>2, ResolveKeeps, NoSlotKeeps, StallKeeps, FillKeeps, GatherKeeps, CommitKeeps DEF HostStep
<1>3. CASE FillRaises \/ Abandon \/ Execute
  BY <1>3, FillRaisesKeeps, AbandonKeeps, ExecuteKeeps
<1>4. CASE UNCHANGED vars
  BY <1>4 DEF vars, hostVars, streamVars, CInv, Host, Stream, Placed, Covered, Kept, Unread,
              PublishedRowIsFilled, EvictionsAllAccounted, Row, InState
<1> QED
  BY <1>1, <1>2, <1>3, <1>4 DEF Next

(* The invariant holds in every state.                                     *)
LEMMA CacheInvariance == Spec => []CInv
<1>1. CInv /\ [Next]_vars => CInv'
  BY StepKeeps
<1> QED
  BY <1>1, InitCInv, PTL DEF Spec

-----------------------------------------------------------------------------
(* What the stall frees: the active rows are within the budget, or no more *)
(* than the last request's, and everything that retires does so under a    *)
(* tag that is recorded by the time the host can wait for it.              *)
Awaited(s) ==
  arena.state[s] = "retiring" =>
    /\ arena.pending[s] <= last
    /\ arena.pending[s] < last => recorded[arena.pending[s]] \in Nat

WithinBudget ==
  LET n == Cardinality(ActiveSlots(arena)) IN n <= Protected \/ 2 * n <= NSlots

Room ==
  /\ WithinBudget
  /\ \A s \in Slots : Awaited(s)
  /\ recorded \in [Tags -> Nat \cup {-1}]
  /\ pc \in {"want", "stall", "retry"} /\ last # NoTag => recorded[last] \in Nat
  /\ last = NoTag => \A s \in Slots : arena.state[s] = "absent"
  /\ pc \in {"stall", "retry"} => last # NoTag
  /\ pc = "retry" => \A s \in Slots : arena.state[s] # "retiring"

(* Fewer active rows than before are within the budget if those were.      *)
LEMMA BudgetShrinks ==
  ASSUME Sound(arena), Sound(arena'), WithinBudget,
         \A s \in Slots : arena'.state[s] = "active" => arena.state[s] = "active"
  PROVE  WithinBudget'
<1>1. ActiveSlots(arena') \subseteq ActiveSlots(arena)
  BY DEF ActiveSlots, Sound, Agree
<1>2. IsFiniteSet(ActiveSlots(arena)) /\ IsFiniteSet(ActiveSlots(arena'))
  BY SlotsFinite DEF ActiveSlots
<1>3. /\ Cardinality(ActiveSlots(arena')) <= Cardinality(ActiveSlots(arena))
      /\ Cardinality(ActiveSlots(arena')) \in Nat
      /\ Cardinality(ActiveSlots(arena)) \in Nat
  BY <1>1, <1>2, FS_Subset, FS_CardinalityType
<1> QED
  BY <1>3, SlotArenaAssumption DEF WithinBudget
-----------------------------------------------------------------------------
(* The empty cache has room.                                               *)
LEMMA InitRoom == Init => Room
<1> SUFFICES ASSUME Init
             PROVE  Room
  OBVIOUS
<1>1. ActiveSlots(arena) = {}
  BY DEF Init, EmptyArena, ActiveSlots
<1>2. WithinBudget
  BY <1>1, FS_EmptySet, SlotArenaAssumption DEF WithinBudget
<1>3. \A s \in Slots : arena.state[s] = "absent"
  BY DEF Init, EmptyArena
<1> QED
  BY <1>2, <1>3 DEF Init, Room, Awaited

(* A settlement leaves what still retires under the tag it had.            *)
LEMMA SettleRoom ==
  ASSUME CInv, Room, NEW done \in SUBSET Tags, arena' = Settled(arena, done)
  PROVE  /\ WithinBudget'
         /\ \A s \in Slots : arena'.state[s] = "retiring" =>
              /\ arena.state[s] = "retiring"
              /\ arena'.pending[s] = arena.pending[s]
              /\ arena.pending[s] \in Tags
              /\ arena.pending[s] \notin done
         /\ \A s \in Slots : arena.state[s] = "absent" => arena'.state[s] = "absent"
<1>1. Sound(arena)
  BY DEF CInv
<1>2. Sound(arena')
  BY <1>1, SettledIsSound
<1>3. \A s \in Slots :
        /\ arena'.state[s] = "absent" <=> arena.state[s] = "absent"
        /\ arena'.state[s] = "active" => arena.state[s] = "active"
        /\ arena'.state[s] = "retiring" =>
             /\ arena.state[s] = "retiring" /\ arena'.pending[s] = arena.pending[s]
             /\ arena.pending[s] \notin done
  BY <1>1, SettleIs
<1>4. WithinBudget'
  BY <1>1, <1>2, <1>3, BudgetShrinks DEF Room
<1>5. \A s \in Slots : arena.state[s] = "retiring" => arena.pending[s] \in Tags
  BY <1>1 DEF Sound, Agree, Arenas
<1> QED
  BY <1>3, <1>4, <1>5

(* Recording a tag makes no recorded tag unrecorded.                       *)
LEMMA RecordIs ==
  ASSUME recorded \in [Tags -> Nat \cup {-1}], issued \in Nat, NEW t \in Tags
  PROVE  /\ Record(recorded, t) \in [Tags -> Nat \cup {-1}]
         /\ Record(recorded, t)[t] \in Nat
         /\ \A u \in Tags : recorded[u] \in Nat => Record(recorded, t)[u] \in Nat
BY DEF Record

(* A request has the previous step's tag recorded.                         *)
LEMMA BeginWantRoom ==
  ASSUME CInv, Room, NEW q \in Requests, BeginWant(q)
  PROVE  Room'
<1> USE DEF BeginWant
<1>0. /\ Tags = 1 .. MaxClock /\ NoTag = 0 /\ MaxClock \in Nat
      /\ step \in 0 .. MaxClock /\ last \in 0 .. step /\ issued \in Nat
      /\ recorded \in [Tags -> Nat \cup {-1}]
  BY DevRowCacheAssumption, SlotArenaAssumption DEF CInv, Host, Stream, Room
<1>1. CASE last = NoTag
  <2>1. arena' = arena /\ recorded' = recorded
    BY <1>1 DEF PreviousRecorded
  <2>2. WithinBudget'
    BY <2>1 DEF Room, WithinBudget
  <2> QED
    BY <1>1, <2>1, <2>2 DEF Room, Awaited
<1>2. CASE last # NoTag
  <2>1. last \in Tags /\ recorded' = Record(recorded, last) /\ arena' = Settled(arena, Done(recorded'))
    BY <1>0, <1>2 DEF PreviousRecorded
  <2>2. Done(recorded') \in SUBSET Tags
    BY DEF Done
  <2>3. /\ recorded' \in [Tags -> Nat \cup {-1}]
        /\ recorded'[last] \in Nat
        /\ \A u \in Tags : recorded[u] \in Nat => recorded'[u] \in Nat
    BY <1>0, <2>1, RecordIs
  <2>4. /\ WithinBudget'
        /\ \A s \in Slots : arena'.state[s] = "retiring" =>
             /\ arena.state[s] = "retiring"
             /\ arena'.pending[s] = arena.pending[s]
             /\ arena.pending[s] \in Tags
    BY <2>1, <2>2, SettleRoom
  <2>5. \A s \in Slots : Awaited(s)'
    BY <2>3, <2>4 DEF Room, Awaited
  <2> QED
    BY <1>2, <2>3, <2>4, <2>5 DEF Room
<1> QED
  BY <1>1, <1>2

(* What a request demotes retires under its own tag.                       *)
LEMMA ResolveRoom ==
  ASSUME CInv, Room, Resolve
  PROVE  Room'
<1> USE DEF Resolve
<1>0. /\ Sound(arena) /\ req \in Requests /\ step \in Tags /\ last < step
      /\ step \in Nat /\ last \in Nat /\ NoTag = 0 /\ Tags = 1 .. MaxClock
      /\ recorded \in [Tags -> Nat \cup {-1}]
  BY SlotArenaAssumption, DevRowCacheAssumption DEF CInv, Host, Stream, Room
<1>1. PICK c \in Claims(arena, req, step) : arena' = Wanted(arena, req, step, c)
  BY DEF Want
<1>2. /\ LET n == Cardinality(ActiveSlots(arena'))
         IN n <= Protected \/ n <= Cardinality(DOMAIN req)
      /\ \A s \in Slots : arena'.state[s] = "retiring" =>
           \/ arena'.pending[s] = step
           \/ arena.state[s] = "retiring" /\ arena'.pending[s] = arena.pending[s]
  BY <1>0, <1>1, WantIs, RequestsRouted
<1>3. WithinBudget'
  <2>1. 2 * Cardinality(DOMAIN req) <= NSlots /\ NSlots \in Nat
    BY <1>0, AttachAssumption, SlotArenaAssumption
  <2>2. Cardinality(DOMAIN req) \in Nat /\ Cardinality(ActiveSlots(arena')) \in Nat
    <3>1. DOMAIN req \subseteq 1 .. NSlots
      BY <1>0, RequestType, RequestsRouted
    <3>2. IsFiniteSet(DOMAIN req)
      <4>1. IsFiniteSet(1 .. NSlots)
        BY FS_Interval, SlotArenaAssumption
      <4> QED
        BY <3>1, <4>1, FS_Subset
    <3>3. IsFiniteSet(ActiveSlots(arena'))
      BY SlotsFinite DEF ActiveSlots
    <3> QED
      BY <3>2, <3>3, FS_CardinalityType
  <2> QED
    BY <1>2, <2>1, <2>2 DEF WithinBudget
<1>4. ASSUME NEW s \in Slots, arena'.state[s] = "retiring"
      PROVE  arena'.pending[s] <= step
               /\ (arena'.pending[s] < step => recorded[arena'.pending[s]] \in Nat)
  <2>1. CASE arena'.pending[s] = step
    BY <1>0, <2>1
  <2>2. CASE arena.state[s] = "retiring" /\ arena'.pending[s] = arena.pending[s]
    <3>1. arena.pending[s] \in Tags /\ Awaited(s)
      BY <1>0, <2>2 DEF Room, Sound, Agree, Arenas
    <3>2. arena.pending[s] <= last /\ arena.pending[s] \in Nat /\ arena.pending[s] > 0
      BY <1>0, <2>2, <3>1 DEF Awaited
    <3>3. last # NoTag
      BY <1>0, <3>2
    <3>4. recorded[last] \in Nat
      BY <3>3 DEF Room
    <3>5. recorded[arena.pending[s]] \in Nat
      BY <1>0, <2>2, <3>1, <3>2, <3>4 DEF Awaited
    <3> QED
      BY <1>0, <2>2, <3>2, <3>5
  <2> QED
    BY <1>2, <1>4, <2>1, <2>2
<1>5. step # NoTag
  BY <1>0
<1> QED
  BY <1>0, <1>3, <1>4, <1>5 DEF Room, Awaited

(* After the wait every tag has fired, and nothing retires any more.       *)
LEMMA StallRoom ==
  ASSUME CInv, Room, Stall
  PROVE  Room'
<1> USE DEF Stall
<1>0. /\ recorded \in [Tags -> Nat \cup {-1}] /\ last # NoTag /\ recorded[last] \in Nat
      /\ completed \in Nat /\ NoTag \notin Tags /\ Sound(arena)
      /\ last \in Nat /\ Tags = 1 .. MaxClock /\ MaxClock \in Nat
  BY SlotArenaAssumption, DevRowCacheAssumption DEF CInv, Host, Stream, Room
<1>1. Done(recorded) \in SUBSET Tags
  BY DEF Done
<1>2. /\ WithinBudget'
      /\ \A s \in Slots : arena'.state[s] = "retiring" =>
           /\ arena.state[s] = "retiring"
           /\ arena.pending[s] \in Tags
           /\ arena.pending[s] \notin Done(recorded)
  BY <1>1, SettleRoom
<1>3. ASSUME NEW s \in Slots, arena'.state[s] = "retiring"
      PROVE  FALSE
  <2>1. arena.pending[s] \in Tags /\ arena.pending[s] \notin Done(recorded) /\ Awaited(s)
    BY <1>2, <1>3 DEF Room
  <2>2. arena.pending[s] \in PendingTags
    BY <1>0, <2>1 DEF PendingTags
  <2>3. recorded[arena.pending[s]] <= completed
    BY <2>2
  <2>4. arena.pending[s] <= last /\ (arena.pending[s] < last => recorded[arena.pending[s]] \in Nat)
    BY <1>2, <1>3, <2>1 DEF Awaited
  <2>5. recorded[arena.pending[s]] \in Nat
    BY <1>0, <2>1, <2>4
  <2> QED
    BY <1>0, <2>1, <2>3, <2>5 DEF Done
<1> QED
  BY <1>0, <1>2, <1>3 DEF Room, Awaited

(* Unpublishing rows makes room.                                           *)
LEMMA FillRaisesRoom ==
  ASSUME CInv, CInv', Room, FillRaises
  PROVE  Room'
<1> USE DEF FillRaises, Leave
<1> DEFINE es == {req[j] : j \in need}
<1>0. /\ step \in Tags /\ last = step /\ issued \in Nat /\ NoTag \notin Tags
      /\ recorded \in [Tags -> Nat \cup {-1}] /\ Sound(arena) /\ Sound(arena')
  BY SlotArenaAssumption DEF CInv, Host, Stream, Room
<1>1. need \subseteq DOMAIN req
  BY DEF CInv, Host
<1>2. es \in SUBSET Experts /\ \A e \in es : arena.state[SlotOf(arena, e)] = "active"
  BY <1>1, RowsPlaced DEF Row
<1>3. arena' = Discarded(arena, es)
  BY DEF Forget
<1> HIDE DEF es
<1>4. \A s \in Slots :
        \/ arena'.state[s] = "absent"
        \/ arena'.state[s] = arena.state[s] /\ arena'.pending[s] = arena.pending[s]
  BY <1>0, <1>2, <1>3, DiscardIs
<1>5. WithinBudget'
  BY <1>0, <1>4, BudgetShrinks DEF Room
<1>6. /\ recorded' \in [Tags -> Nat \cup {-1}]
      /\ \A u \in Tags : recorded[u] \in Nat => recorded'[u] \in Nat
  BY <1>0, RecordIs
<1>7. \A s \in Slots : Awaited(s)'
  <2> SUFFICES ASSUME NEW s \in Slots
               PROVE  Awaited(s)'
    OBVIOUS
  <2>1. Awaited(s) /\ (arena.state[s] = "retiring" => arena.pending[s] \in Tags)
    BY <1>0 DEF Room, Sound, Agree, Arenas
  <2> QED
    BY <1>4, <1>6, <2>1 DEF Awaited
<1> QED
  BY <1>0, <1>5, <1>6, <1>7 DEF Room

(* The step's tag is recorded; nothing else moves.                         *)
LEMMA CommitRoom ==
  ASSUME CInv, Room, Commit
  PROVE  Room'
<1> USE DEF Commit, Leave
<1>0. /\ step \in Tags /\ last = step /\ issued \in Nat /\ NoTag \notin Tags
      /\ recorded \in [Tags -> Nat \cup {-1}] /\ Sound(arena)
  BY SlotArenaAssumption DEF CInv, Host, Stream, Room
<1>1. /\ recorded' \in [Tags -> Nat \cup {-1}]
      /\ \A u \in Tags : recorded[u] \in Nat => recorded'[u] \in Nat
  BY <1>0, RecordIs
<1>2. \A s \in Slots : Awaited(s)'
  <2> SUFFICES ASSUME NEW s \in Slots
               PROVE  Awaited(s)'
    OBVIOUS
  <2>1. Awaited(s) /\ (arena.state[s] = "retiring" => arena.pending[s] \in Tags)
    BY <1>0 DEF Room, Sound, Agree, Arenas
  <2> QED
    BY <1>1, <2>1 DEF Awaited
<1> QED
  BY <1>0, <1>1, <1>2 DEF Room, WithinBudget

(* The steps that leave the arena and the tags alone.                      *)
LEMMA OthersRoom ==
  ASSUME CInv, Room, NoSlot \/ Fill \/ Gather \/ Abandon \/ Execute \/ UNCHANGED vars
  PROVE  Room'
BY DEF NoSlot, Fill, Gather, Abandon, Leave, Execute, vars, hostVars, streamVars, Room, Awaited,
       WithinBudget

(* There is room in every state.                                           *)
LEMMA RoomInvariance == Spec => [](CInv /\ Room)
<1>1. ASSUME CInv, Room, [Next]_vars
      PROVE  Room'
  <2>1. CInv'
    BY <1>1, StepKeeps
  <2> QED
    BY <1>1, <2>1, BeginWantRoom, ResolveRoom, StallRoom, FillRaisesRoom, CommitRoom, OthersRoom
       DEF Next, HostStep
<1>2. (CInv /\ Room) /\ [Next]_vars => (CInv /\ Room)'
  BY <1>1, StepKeeps
<1> QED
  BY <1>2, InitCInv, InitRoom, PTL DEF Spec

(* With the sizes the attach check admits, no request is ever refused:     *)
(* what the stall waits for is always enough (dev_row_cache.py, want;      *)
(* mxfp4_residency.py, _init_dev_cache).                                  *)
THEOREM StallsFreeEnough == Spec => []StallFreesEnough
<1>1. CInv /\ Room => StallFreesEnough
  <2> SUFFICES ASSUME CInv, Room, pc = "retry" \/ (pc = "want" /\ last = NoTag)
               PROVE  Claims(arena, req, step) # {}
    BY DEF StallFreesEnough
  <2>1. \A s \in Slots : arena.state[s] # "retiring"
    BY DEF Room
  <2>2. req \in Requests /\ step \in Tags /\ Sound(arena) /\ WithinBudget
    BY DEF CInv, Host, Room
  <2>3. Cardinality(ActiveSlots(arena)) + Cardinality(DOMAIN req) <= NSlots
    <3> DEFINE n == Cardinality(ActiveSlots(arena))
               m == Cardinality(DOMAIN req)
    <3>1. n \in Nat /\ m \in Nat
      BY <2>2, SlotsCounted, RequestFinite, RequestsRouted DEF ActiveSlots
    <3>2. 2 * m <= NSlots /\ Protected + m <= NSlots /\ (n <= Protected \/ 2 * n <= NSlots)
      BY <2>2, AttachAssumption DEF WithinBudget
    <3> QED
      BY <3>1, <3>2, SlotArenaAssumption
  <2> QED
    BY <2>1, <2>2, <2>3, RoomIsEnough, RequestsRouted
<1> QED
  BY <1>1, RoomInvariance, PTL

(* A gather reads the expert it was issued for, whatever raises, is        *)
(* abandoned or lags (dev_row_cache.py, want; mxfp4_residency.py).         *)
THEOREM GathersReadTheirExpert == Spec => []GatherReadsItsExpert
<1>1. CInv => GatherReadsItsExpert
  BY DEF CInv, Covered, GatherReadsItsExpert
<1> QED
  BY <1>1, CacheInvariance, PTL

(* A published row holds its expert's bytes, or is about to.               *)
THEOREM PublishedRowsAreFilled == Spec => []PublishedRowIsFilled
<1>1. CInv => PublishedRowIsFilled
  BY DEF CInv
<1> QED
  BY <1>1, CacheInvariance, PTL

(* Every eviction the cache reports is resolved once, or still waiting.    *)
THEOREM EvictionsBalance == Spec => []EvictionsAllAccounted
<1>1. CInv => EvictionsAllAccounted
  BY DEF CInv
<1> QED
  BY <1>1, CacheInvariance, PTL

(* What any step does to the arena is an operation of the allocator.       *)
LEMMA StepsAreOperations ==
  ASSUME CInv, [Next]_vars, arena' # arena
  PROVE  ArenaNext
<1>1. CASE \E q \in Requests : BeginWant(q)
  <2>1. Done(PreviousRecorded) \in SUBSET Tags
    BY DEF Done
  <2>2. arena' = Settled(arena, Done(PreviousRecorded))
    BY <1>1 DEF BeginWant
  <2> QED
    BY <2>1, <2>2 DEF ArenaNext, Settle
<1>2. CASE Resolve
  <2>1. Want(req, step) /\ req \in Requests /\ step \in Tags
    BY <1>2 DEF Resolve, CInv, Host
  <2> QED
    BY <2>1 DEF ArenaNext
<1>3. CASE Stall
  <2>1. Done(recorded) \in SUBSET Tags
    BY DEF Done
  <2>2. arena' = Settled(arena, Done(recorded))
    BY <1>3 DEF Stall
  <2> QED
    BY <2>1, <2>2 DEF ArenaNext, Settle
<1>4. CASE FillRaises
  <2>1. {req[j] : j \in need} \in SUBSET Experts
    <3>1. need \subseteq DOMAIN req /\ req \in Requests
      BY <1>4 DEF FillRaises, CInv, Host
    <3> QED
      BY <3>1, RequestType, RequestsRouted
  <2>2. arena' = Discarded(arena, {req[j] : j \in need})
    BY <1>4 DEF FillRaises, Forget
  <2> QED
    BY <2>1, <2>2 DEF ArenaNext, Discard
<1>5. CASE NoSlot \/ Fill \/ Gather \/ Commit \/ Abandon \/ Execute \/ UNCHANGED vars
  BY <1>5 DEF NoSlot, Fill, Gather, Commit, Abandon, Execute, vars
<1> QED
  BY <1>1, <1>2, <1>3, <1>4, <1>5 DEF Next, HostStep

(* The cache implements the specification of the slot accounting: initial  *)
(* states map to initial states, steps to operations or stutters.          *)
THEOREM CacheImplementsArena == Spec => ImplementsArena
<1>1. Init => ArenaInit
  BY DEF Init, ArenaInit
<1>2. CInv /\ [Next]_vars => [arena' # arena => ArenaNext]_arena
  BY StepsAreOperations
<1> QED
  BY <1>1, <1>2, CacheInvariance, PTL DEF Spec, ImplementsArena
-----------------------------------------------------------------------------
(* The census.  The demand of a step is a sum over the layers.  The fold   *)
(* that computes it takes them in an order that depends on the set of      *)
(* those left only, so that two sums can be compared set by set; where an  *)
(* induction is needed, a smallest set that is wrong is shown not to exist.*)

Pick(s) == CHOOSE x \in s : TRUE

\* g gives the sums of f over the sets in D.
SumsIn(g, f, D) ==
  \A s \in D : g[s] = IF s = {} THEN 0 ELSE f[Pick(s)] + g[s \ {Pick(s)}]

Sums(g, f) == SumsIn(g, f, SUBSET Layers)

Totals == [SUBSET Layers -> Nat]

SameBut(e, f, l) == \A x \in Layers \ {l} : e[x] = f[x]

-----------------------------------------------------------------------------
(* Numbers have a least one.                                               *)
LEMMA LeastIs ==
  ASSUME NEW S, S \subseteq Nat, S # {}
  PROVE  \E m \in S : \A t \in S : m <= t
<1> DEFINE R == {p \in Nat \X Nat : p[1] < p[2]}
<1>1. IsWellFoundedOn(R, Nat)
  BY NatLessThanWellFounded DEF OpToRel
<1> HIDE DEF R
<1>2. PICK m \in S : \A t \in S : ~(<<t, m>> \in R)
  BY <1>1, WFMin
<1>3. \A t \in S : ~(t < m)
  BY <1>2 DEF R
<1> QED
  BY <1>3

(* A set of layers without the one that is picked is smaller.              *)
LEMMA PickIs ==
  ASSUME NEW s \in SUBSET Layers
  PROVE  /\ IsFiniteSet(s) /\ Cardinality(s) \in Nat
         /\ s = {} <=> Cardinality(s) = 0
         /\ s # {} => /\ Pick(s) \in s
                      /\ s \ {Pick(s)} \in SUBSET Layers
                      /\ Cardinality(s \ {Pick(s)}) = Cardinality(s) - 1
<1>1. IsFiniteSet(s)
  BY FS_Subset, StepCensusAssumption
<1>2. Cardinality(s) \in Nat /\ (s = {} <=> Cardinality(s) = 0)
  BY <1>1, FS_CardinalityType, FS_EmptySet
<1>3. s # {} => Pick(s) \in s
  BY DEF Pick
<1>4. s # {} => Cardinality(s \ {Pick(s)}) = Cardinality(s) - 1
  BY <1>1, <1>3, FS_RemoveElement
<1> QED
  BY <1>1, <1>2, <1>3, <1>4

(* There are sums over every set of layers.                                *)
LEMMA SumsExist ==
  ASSUME NEW f \in [Layers -> Nat]
  PROVE  \E g \in Totals : Sums(g, f)
<1> DEFINE Small(n) == {s \in SUBSET Layers : Cardinality(s) <= n}
           Fails(n) == ~\E g \in [Small(n) -> Nat] : SumsIn(g, f, Small(n))
           Bad == {n \in Nat : Fails(n)}
<1>1. Bad = {}
  <2>1. SUFFICES ASSUME Bad # {}
                 PROVE  FALSE
    OBVIOUS
  <2>2. PICK n \in Bad : \A k \in Bad : n <= k
    <3>1. Bad \subseteq Nat
      OBVIOUS
    <3> HIDE DEF Bad
    <3> QED
      BY <2>1, <3>1, LeastIs
  <2>3. n \in Nat /\ Fails(n)
    BY <2>2
  <2>4. CASE n = 0
    <3> DEFINE g == [s \in Small(n) |-> 0]
    <3>1. ASSUME NEW s \in Small(n)
          PROVE  s = {}
      <4>1. Cardinality(s) <= 0 /\ s \in SUBSET Layers
        BY <2>4
      <4>2. Cardinality(s) \in Nat /\ (s = {} <=> Cardinality(s) = 0)
        BY <4>1, PickIs
      <4> HIDE DEF Small
      <4> QED
        BY <4>1, <4>2
    <3>2. g \in [Small(n) -> Nat] /\ SumsIn(g, f, Small(n))
      BY <3>1 DEF Sums, SumsIn
    <3> QED
      BY <2>3, <3>2
  <2>5. CASE n > 0
    <3>1. n - 1 \in Nat /\ n - 1 \notin Bad
      <4> HIDE DEF Bad, Fails
      <4> QED
        BY <2>2, <2>3, <2>5
    <3>2. PICK g \in [Small(n - 1) -> Nat] : SumsIn(g, f, Small(n - 1))
      BY <3>1
    <3> DEFINE h == [s \in Small(n) |-> IF s = {} THEN 0 ELSE f[Pick(s)] + g[s \ {Pick(s)}]]
    <3>3. ASSUME NEW s \in Small(n), s # {}
          PROVE  f[Pick(s)] \in Nat /\ s \ {Pick(s)} \in Small(n - 1)
                   /\ g[s \ {Pick(s)}] \in Nat /\ s \ {Pick(s)} \in Small(n)
      <4>1. /\ Pick(s) \in Layers /\ s \ {Pick(s)} \in SUBSET Layers
            /\ Cardinality(s \ {Pick(s)}) = Cardinality(s) - 1
            /\ Cardinality(s) \in Nat /\ Cardinality(s) <= n
        BY <3>3, PickIs
      <4>2. Cardinality(s \ {Pick(s)}) <= n - 1 /\ Cardinality(s \ {Pick(s)}) <= n
        BY <2>3, <4>1
      <4>3. s \ {Pick(s)} \in Small(n - 1) /\ s \ {Pick(s)} \in Small(n)
        BY <4>1, <4>2
      <4> HIDE DEF Small
      <4> QED
        BY <3>2, <4>1, <4>3
    <3>4. h \in [Small(n) -> Nat]
      <4> HIDE DEF Small
      <4> QED
        BY <3>3
    <3>5. ASSUME NEW s \in Small(n - 1)
          PROVE  h[s] = g[s]
      <4>1. s \in Small(n)
        <5>1. Cardinality(s) \in Nat /\ Cardinality(s) <= n - 1
          BY PickIs
        <5> QED
          BY <2>3, <5>1
      <4>2. g[s] = IF s = {} THEN 0 ELSE f[Pick(s)] + g[s \ {Pick(s)}]
        BY <3>2 DEF Sums, SumsIn
      <4> HIDE DEF Small
      <4> QED
        BY <4>1, <4>2
    <3>6. ASSUME NEW s \in Small(n)
          PROVE  h[s] = IF s = {} THEN 0 ELSE f[Pick(s)] + h[s \ {Pick(s)}]
      <4>1. h[s] = IF s = {} THEN 0 ELSE f[Pick(s)] + g[s \ {Pick(s)}]
        OBVIOUS
      <4> HIDE DEF h, Small
      <4>2. s # {} => h[s \ {Pick(s)}] = g[s \ {Pick(s)}]
        BY <3>3, <3>5
      <4> QED
        BY <4>1, <4>2
    <3> HIDE DEF h, Small
    <3>7. SumsIn(h, f, Small(n))
      BY <3>6 DEF Sums, SumsIn
    <3> QED
      BY <2>3, <3>4, <3>7
  <2> QED
    BY <2>3, <2>4, <2>5
<1> DEFINE N == Cardinality(Layers)
<1>2. N \in Nat
  BY FS_CardinalityType, StepCensusAssumption
<1>3. \A s \in SUBSET Layers : Cardinality(s) <= N
  BY FS_Subset, StepCensusAssumption
<1> HIDE DEF N
<1>4. Small(N) = SUBSET Layers
  BY <1>3
<1>5. ~Fails(N)
  BY <1>1, <1>2
<1> HIDE DEF Small
<1> QED
  BY <1>4, <1>5 DEF Sums, Totals

(* Two summands that differ at one layer have sums that differ by as much, *)
(* over the sets with that layer.                                          *)
LEMMA SumsDiffer ==
  ASSUME NEW e \in [Layers -> Nat], NEW f \in [Layers -> Nat], NEW l \in Layers,
         SameBut(e, f, l),
         NEW g \in Totals, Sums(g, e),
         NEW h, Sums(h, f)
  PROVE  \A s \in SUBSET Layers :
           h[s] = IF l \in s THEN g[s] - e[l] + f[l] ELSE g[s]
<1> DEFINE Wrong(t) == h[t] # IF l \in t THEN g[t] - e[l] + f[l] ELSE g[t]
           Bad == {n \in Nat : \E t \in SUBSET Layers : Wrong(t) /\ Cardinality(t) = n}
<1>1. Bad = {}
  <2>1. SUFFICES ASSUME Bad # {}
                 PROVE  FALSE
    OBVIOUS
  <2>2. PICK n \in Bad : \A k \in Bad : n <= k
    <3>1. Bad \subseteq Nat
      OBVIOUS
    <3> HIDE DEF Bad
    <3> QED
      BY <2>1, <3>1, LeastIs
  <2>3. PICK t \in SUBSET Layers : Wrong(t) /\ Cardinality(t) = n
    BY <2>2
  <2>4. /\ g[t] = IF t = {} THEN 0 ELSE e[Pick(t)] + g[t \ {Pick(t)}]
        /\ h[t] = IF t = {} THEN 0 ELSE f[Pick(t)] + h[t \ {Pick(t)}]
    BY DEF Sums, SumsIn
  <2>5. t # {}
    BY <2>3, <2>4
  <2> DEFINE x == Pick(t)
             u == t \ {Pick(t)}
  <2>6. /\ x \in t /\ u \in SUBSET Layers
        /\ Cardinality(u) = n - 1 /\ Cardinality(u) \in Nat
    <3>1. /\ x \in t /\ u \in SUBSET Layers
          /\ Cardinality(u) = n - 1
      BY <2>3, <2>5, PickIs
    <3> QED
      BY <3>1, PickIs
  <2>7. ~Wrong(u)
    <3>1. Cardinality(u) \notin Bad
      <4>1. n \in Nat
        BY <2>2
      <4> HIDE DEF Bad, u
      <4> QED
        BY <2>2, <2>6, <4>1
    <3> HIDE DEF Wrong, u
    <3> QED
      BY <2>6, <3>1
  <2>8. g[u] \in Nat /\ e[l] \in Nat /\ f[l] \in Nat /\ e[x] \in Nat /\ f[x] \in Nat
    BY <2>6 DEF Totals
  <2>9. l \in u <=> l \in t /\ l # x
    OBVIOUS
  <2>10. g[t] = e[x] + g[u] /\ h[t] = f[x] + h[u]
    BY <2>4, <2>5
  <2>11. x # l => e[x] = f[x]
    BY <2>6 DEF SameBut
  <2> HIDE DEF x, u
  <2>12. CASE x = l
    BY <2>3, <2>6, <2>7, <2>8, <2>9, <2>10, <2>12
  <2>13. CASE x # l
    BY <2>3, <2>6, <2>7, <2>8, <2>9, <2>10, <2>11, <2>13
  <2> QED
    BY <2>12, <2>13
<1>2. ASSUME NEW s \in SUBSET Layers
      PROVE  ~Wrong(s)
  <2>1. Cardinality(s) \in Nat
    BY PickIs
  <2> HIDE DEF Wrong
  <2> QED
    BY <1>1, <2>1
<1> QED
  BY <1>2

(* A sum of nothing is nothing.                                            *)
LEMMA SumsOfNone ==
  ASSUME NEW f, \A x \in Layers : f[x] = 0, NEW g, Sums(g, f),
         NEW s \in SUBSET Layers
  PROVE  g[s] = 0
<1> DEFINE Bad == {n \in Nat : \E t \in SUBSET Layers : g[t] # 0 /\ Cardinality(t) = n}
<1>1. Bad = {}
  <2>1. SUFFICES ASSUME Bad # {}
                 PROVE  FALSE
    OBVIOUS
  <2>2. PICK n \in Bad : \A k \in Bad : n <= k
    <3>1. Bad \subseteq Nat
      OBVIOUS
    <3> HIDE DEF Bad
    <3> QED
      BY <2>1, <3>1, LeastIs
  <2>3. PICK t \in SUBSET Layers : g[t] # 0 /\ Cardinality(t) = n
    BY <2>2
  <2> DEFINE u == t \ {Pick(t)}
  <2>4. g[t] = IF t = {} THEN 0 ELSE f[Pick(t)] + g[u]
    BY DEF Sums, SumsIn
  <2>5. t # {}
    BY <2>3, <2>4
  <2>6. Pick(t) \in Layers /\ u \in SUBSET Layers /\ Cardinality(u) = n - 1
    BY <2>3, <2>5, PickIs
  <2>7. Cardinality(u) \in Nat
    BY <2>6, PickIs
  <2>8. Cardinality(u) \notin Bad
    <3>1. n \in Nat
      BY <2>2
    <3> HIDE DEF Bad, u
    <3> QED
      BY <2>2, <2>6, <2>7, <3>1
  <2>9. g[u] = 0
    BY <2>6, <2>7, <2>8
  <2> QED
    BY <2>3, <2>4, <2>5, <2>6, <2>9
<1>2. Cardinality(s) \in Nat
  BY PickIs
<1> QED
  BY <1>1, <1>2

(* The demand is such a sum.                                               *)
LEMMA DemandIs ==
  ASSUME NEW c, c.cur \in [Layers -> Nat]
  PROVE  \E g \in Totals :
           Sums(g, c.cur) /\ CurrentDemand(c) = g[Layers]
<1>1. PICK g \in Totals : Sums(g, c.cur)
  BY SumsExist
<1>2. PICK h : Sums(h, c.cur) /\ CurrentDemand(c) = h[Layers]
  <2> DEFINE Rec(h) == h = [s \in SUBSET Layers |->
                              IF s = {} THEN 0 ELSE c.cur[Pick(s)] + h[s \ {Pick(s)}]]
             h == CHOOSE h : Rec(h)
  <2>1. Rec(g)
    BY <1>1 DEF Sums, SumsIn, Totals
  <2>2. Rec(h)
    BY <2>1
  <2>3. CurrentDemand(c) = h[Layers]
    BY DEF CurrentDemand, MapThenSumSet, MapThenFoldSet, Pick
  <2> HIDE DEF h
  <2>4. Sums(h, c.cur)
    BY <2>2 DEF Sums, SumsIn
  <2> QED
    BY <2>3, <2>4
<1>3. PICK l \in Layers : TRUE
  BY DecodeStepsAssumption
<1>4. ASSUME NEW f \in [Layers -> Nat], Sums(g, f), Sums(h, f)
      PROVE  h[Layers] = g[Layers] - f[l] + f[l]
  <2>1. SameBut(f, f, l)
    BY DEF SameBut
  <2>2. \A s \in SUBSET Layers : h[s] = IF l \in s THEN g[s] - f[l] + f[l] ELSE g[s]
    BY <1>4, <2>1, SumsDiffer
  <2>3. Layers \in SUBSET Layers
    OBVIOUS
  <2> QED
    BY <2>2, <2>3
<1>5. h[Layers] = g[Layers] - c.cur[l] + c.cur[l]
  BY <1>1, <1>2, <1>4
<1>6. g[Layers] \in Nat /\ c.cur[l] \in Nat
  BY DEF Totals
<1> QED
  BY <1>1, <1>2, <1>5, <1>6

(* A request of one layer moves the demand by what the layer asks more.    *)
LEMMA DemandMoves ==
  ASSUME NEW c, c.cur \in [Layers -> Nat], NEW d, d.cur \in [Layers -> Nat],
         NEW l \in Layers, SameBut(c.cur, d.cur, l)
  PROVE  CurrentDemand(c) \in Nat /\ CurrentDemand(d) = CurrentDemand(c) - c.cur[l] + d.cur[l]
<1>1. PICK g \in Totals : Sums(g, c.cur) /\ CurrentDemand(c) = g[Layers]
  BY DemandIs
<1>2. PICK h \in Totals : Sums(h, d.cur) /\ CurrentDemand(d) = h[Layers]
  BY DemandIs
<1>3. ASSUME NEW e \in [Layers -> Nat], NEW f \in [Layers -> Nat], SameBut(e, f, l),
             Sums(g, e), Sums(h, f)
      PROVE  h[Layers] = g[Layers] - e[l] + f[l]
  <2>1. \A s \in SUBSET Layers : h[s] = IF l \in s THEN g[s] - e[l] + f[l] ELSE g[s]
    BY <1>3, SumsDiffer
  <2> QED
    BY <2>1
<1>4. h[Layers] = g[Layers] - c.cur[l] + d.cur[l]
  BY <1>1, <1>2, <1>3
<1>5. g[Layers] \in Nat
  BY DEF Totals
<1> QED
  BY <1>1, <1>2, <1>4, <1>5

(* The demand when one layer has asked is that layer's.                    *)
LEMMA DemandOfOne ==
  ASSUME NEW d, d.cur \in [Layers -> Nat], NEW l \in Layers, \A x \in Layers \ {l} : d.cur[x] = 0
  PROVE  CurrentDemand(d) = d.cur[l]
<1> DEFINE none == [cur |-> [x \in Layers |-> 0]]
<1>1. none.cur \in [Layers -> Nat] /\ \A x \in Layers : none.cur[x] = 0
  OBVIOUS
<1> HIDE DEF none
<1>2. PICK g \in Totals : Sums(g, none.cur) /\ CurrentDemand(none) = g[Layers]
  BY <1>1, DemandIs
<1>3. CurrentDemand(none) = 0
  <2> DEFINE f == none.cur
  <2>1. \A x \in Layers : f[x] = 0
    BY <1>1
  <2>2. Sums(g, f)
    BY <1>2
  <2> HIDE DEF f
  <2>3. \A s \in SUBSET Layers : g[s] = 0
    BY <2>1, <2>2, SumsOfNone
  <2> QED
    BY <1>2, <2>3
<1>4. SameBut(none.cur, d.cur, l)
  BY <1>1 DEF SameBut
<1>5. CurrentDemand(d) = CurrentDemand(none) - none.cur[l] + d.cur[l]
  BY <1>1, <1>4, DemandMoves
<1> QED
  BY <1>1, <1>3, <1>5

(* The larger of two.                                                      *)
LEMMA MaxOfTwo ==
  ASSUME NEW m \in Nat, NEW n \in Nat
  PROVE  /\ Max({m, n}) \in {m, n} /\ Max({m, n}) \in Nat
         /\ m <= Max({m, n}) /\ n <= Max({m, n})
<1>1. \E x \in {m, n} : \A y \in {m, n} : x >= y
  <2>1. CASE m <= n
    BY <2>1
  <2>2. CASE n <= m
    BY <2>2
  <2> QED
    BY <2>1, <2>2
<1>2. Max({m, n}) \in {m, n} /\ \A y \in {m, n} : Max({m, n}) >= y
  BY <1>1 DEF Max
<1> HIDE DEF Max
<1> QED
  BY <1>2

-----------------------------------------------------------------------------
Censuses ==
  [cur : [Layers -> Nat], lastLayer : Layers \cup {0},
   perStep : Nat, perStepMax : Nat, maxWant : Nat]

Typed ==
  /\ counts \in Censuses
  /\ passed \in Layers \cup {0}
  /\ before \in Layers \cup {0}
  /\ truth \in Nat /\ joined \in Nat
  /\ finished \in Seq(Nat) /\ groups \in Seq(Nat)

\* The last layer that asked, in this step or in an earlier one.
Latest == IF passed > 0 THEN passed ELSE before

(* The census knows the last layer that asked, has heard nothing of the     *)
(* layers above it since, and holds every row not yet set apart.           *)
Follows ==
  /\ passed = 0 => truth = 0
  /\ counts.lastLayer = Latest
  /\ Latest # 0 => counts.cur[Latest] > 0
  /\ \A l \in Layers : l > Latest => counts.cur[l] = 0
  /\ CurrentDemand(counts) = joined + truth

\* m is the largest member of s; 0 when it has none.
Worst(m, s) ==
  /\ \A i \in 1 .. Len(s) : s[i] <= m
  /\ m = 0 \/ \E i \in 1 .. Len(s) : s[i] = m

Reports ==
  /\ Worst(counts.perStepMax, groups)
  /\ groups # <<>> => counts.perStep = groups[Len(groups)]

\* A finished step was set apart with its group or is still being counted.
StepsCovered ==
  \A i \in 1 .. Len(finished) :
    finished[i] <= counts.perStepMax \/ finished[i] <= joined + truth

CensusInv == Typed /\ Follows /\ Reports /\ StepsCovered

(* d is what the census c becomes with layer l asking for n rows.           *)
CountsAsk(c, d, l, n) ==
  /\ d \in Censuses
  /\ d.lastLayer = l /\ d.cur[l] = n
  /\ CurrentDemand(c) \in Nat
  /\ StepEnded(c, l) =>
       /\ \A x \in Layers \ {l} : d.cur[x] = 0
       /\ CurrentDemand(d) = n
       /\ d.perStep = CurrentDemand(c)
       /\ d.perStepMax = Max({c.perStepMax, CurrentDemand(c)})
  /\ ~StepEnded(c, l) =>
       /\ \A x \in Layers \ {l} : d.cur[x] = c.cur[x]
       /\ CurrentDemand(d) = CurrentDemand(c) - c.cur[l] + n
       /\ d.perStep = c.perStep /\ d.perStepMax = c.perStepMax

(* What the census makes of a request.                                     *)
LEMMA CountedIs ==
  ASSUME NEW c \in Censuses, NEW l \in Layers, NEW n \in Nat
  PROVE  CountsAsk(c, Counted(c, l, n), l, n)
<1> DEFINE d == Counted(c, l, n)
           ended == StepEnded(c, l)
<1>1. c.cur \in [Layers -> Nat] /\ c.perStep \in Nat /\ c.perStepMax \in Nat /\ c.maxWant \in Nat
  BY DEF Censuses
<1>2. CurrentDemand(c) \in Nat
  <2>1. SameBut(c.cur, c.cur, l)
    BY DEF SameBut
  <2> QED
    BY <1>1, <2>1, DemandMoves
<1>3. /\ d.cur = [x \in Layers |-> IF x = l THEN n ELSE IF ended THEN 0 ELSE c.cur[x]]
      /\ d.lastLayer = l
      /\ d.perStep = IF ended THEN CurrentDemand(c) ELSE c.perStep
      /\ d.perStepMax = IF ended THEN Max({c.perStepMax, CurrentDemand(c)}) ELSE c.perStepMax
      /\ d.maxWant = Max({c.maxWant, n})
      /\ d = [cur |-> d.cur, lastLayer |-> d.lastLayer, perStep |-> d.perStep,
              perStepMax |-> d.perStepMax, maxWant |-> d.maxWant]
  BY DEF Counted
<1> HIDE DEF d, ended
<1>4. d.cur \in [Layers -> Nat] /\ d.cur[l] = n
  BY <1>1, <1>3
<1>5. Max({c.perStepMax, CurrentDemand(c)}) \in Nat /\ Max({c.maxWant, n}) \in Nat
  BY <1>1, <1>2, MaxOfTwo
<1>6. d \in Censuses
  BY <1>1, <1>2, <1>3, <1>4, <1>5 DEF Censuses
<1>7. CASE ended
  <2>1. \A x \in Layers \ {l} : d.cur[x] = 0
    BY <1>3, <1>7
  <2>2. CurrentDemand(d) = n
    BY <1>4, <2>1, DemandOfOne
  <2> QED
    BY <1>2, <1>3, <1>4, <1>6, <1>7, <2>1, <2>2 DEF CountsAsk, d, ended
<1>8. CASE ~ended
  <2>1. \A x \in Layers \ {l} : d.cur[x] = c.cur[x]
    BY <1>3, <1>8
  <2>2. SameBut(c.cur, d.cur, l)
    BY <2>1 DEF SameBut
  <2>3. CurrentDemand(d) = CurrentDemand(c) - c.cur[l] + n
    BY <1>1, <1>4, <2>2, DemandMoves
  <2> QED
    BY <1>2, <1>3, <1>4, <1>6, <1>8, <2>1, <2>3 DEF CountsAsk, d, ended
<1> QED
  BY <1>7, <1>8 DEF d

(* The largest of a sequence and of one more member.                       *)
LEMMA WorstAppends ==
  ASSUME NEW s \in Seq(Nat), NEW m \in Nat, NEW n \in Nat, Worst(m, s)
  PROVE  Worst(Max({m, n}), Append(s, n))
<1> DEFINE M == Max({m, n})
           t == Append(s, n)
<1>1. M \in {m, n} /\ M \in Nat /\ m <= M /\ n <= M
  BY MaxOfTwo
<1>2. /\ Len(t) = Len(s) + 1 /\ Len(s) \in Nat /\ t[Len(s) + 1] = n
      /\ \A i \in 1 .. Len(s) : t[i] = s[i] /\ s[i] \in Nat
  OBVIOUS
<1> HIDE DEF M, t
<1>3. \A i \in 1 .. Len(t) : i \in 1 .. Len(s) \/ i = Len(s) + 1
  BY <1>2
<1>4. \A i \in 1 .. Len(t) : t[i] <= M
  <2> TAKE i \in 1 .. Len(t)
  <2>1. CASE i \in 1 .. Len(s)
    <3>1. t[i] = s[i] /\ s[i] \in Nat /\ s[i] <= m
      BY <1>2, <2>1 DEF Worst
    <3> QED
      BY <1>1, <3>1
  <2>2. CASE i = Len(s) + 1
    BY <1>1, <1>2, <2>2
  <2> QED
    BY <1>3, <2>1, <2>2
<1>5. M = 0 \/ \E i \in 1 .. Len(t) : t[i] = M
  <2>1. CASE M = n
    <3>1. Len(s) + 1 \in 1 .. Len(t)
      BY <1>2
    <3> QED
      BY <1>2, <2>1, <3>1
  <2>2. CASE M = m
    <3>1. \A i \in 1 .. Len(s) : i \in 1 .. Len(t) /\ t[i] = s[i]
      BY <1>2
    <3>2. m = 0 \/ \E i \in 1 .. Len(s) : s[i] = m
      BY DEF Worst
    <3> QED
      BY <2>2, <3>1, <3>2
  <2> QED
    BY <1>1, <2>1, <2>2
<1> QED
  BY <1>4, <1>5 DEF Worst, M, t

LEMMA AskKeepsCensusInv ==
  ASSUME CensusInv, NEW l \in Layers, NEW n \in 1 .. MaxAsk, Ask(l, n)
  PROVE  CensusInv'
<1>1. Typed /\ Follows /\ Reports /\ StepsCovered
  BY DEF CensusInv
<1>2. /\ l > passed
      /\ counts' = Counted(counts, l, n) /\ passed' = l /\ truth' = truth + n
      /\ before' = before /\ finished' = finished
      /\ (passed = 0 /\ l <= before) =>
           groups' = Append(groups, joined) /\ joined' = 0
      /\ ~(passed = 0 /\ l <= before) => groups' = groups /\ joined' = joined
  BY DEF Ask
<1>3. n \in Nat /\ n > 0 /\ l \in Nat /\ l > 0 /\ counts \in Censuses
      /\ truth \in Nat /\ joined \in Nat /\ passed \in Nat /\ before \in Nat
      /\ (Latest # 0 => Latest \in Layers) /\ Latest \in Nat
      /\ (passed > 0 => Latest = passed) /\ (passed = 0 => Latest = before)
  BY <1>1, StepCensusAssumption, DecodeStepsAssumption DEF Typed, Latest
<1>4. CountsAsk(counts, counts', l, n)
  BY <1>2, <1>3, CountedIs
<1>5. StepEnded(counts, l) <=> (passed = 0 /\ l <= before)
  <2>1. StepEnded(counts, l) <=> (Latest # 0 /\ l <= Latest)
    BY <1>1, <1>3 DEF StepEnded, Follows
  <2> QED
    BY <1>2, <1>3, <2>1
<1>6. CurrentDemand(counts) = joined + truth /\ (passed = 0 => truth = 0)
  BY <1>1 DEF Follows
<1>7. /\ counts.perStepMax \in Nat /\ groups \in Seq(Nat) /\ finished \in Seq(Nat)
      /\ \A x \in Layers : x \in Nat
      /\ \A i \in 1 .. Len(finished) : finished[i] \in Nat
  BY <1>1, <1>3, StepCensusAssumption DEF Typed, Censuses
<1>8. CASE StepEnded(counts, l)
  <2>1. /\ groups' = Append(groups, joined) /\ joined' = 0 /\ passed = 0 /\ truth = 0
    BY <1>2, <1>5, <1>6, <1>8
  <2>2. /\ counts' \in Censuses /\ counts'.lastLayer = l /\ counts'.cur[l] = n
        /\ \A x \in Layers \ {l} : counts'.cur[x] = 0
        /\ CurrentDemand(counts') = n
        /\ counts'.perStep = joined
        /\ counts'.perStepMax = Max({counts.perStepMax, joined})
    BY <1>3, <1>4, <1>6, <1>8, <2>1 DEF CountsAsk
  <2>3. Typed'
    BY <1>1, <1>2, <1>3, <2>1, <2>2 DEF Typed
  <2>4. Latest' = l
    BY <1>2, <1>3 DEF Latest
  <2>5. Follows'
    <3>1. \A x \in Layers : x > l => x \in Layers \ {l}
      BY <1>3
    <3>2. CurrentDemand(counts)' = joined' + truth'
      BY <1>2, <1>3, <2>1, <2>2
    <3> QED
      BY <1>2, <1>3, <2>2, <2>4, <3>1, <3>2 DEF Follows
  <2>6. Reports'
    <3>1. Worst(Max({counts.perStepMax, joined}), Append(groups, joined))
      BY <1>1, <1>3, <1>7, WorstAppends DEF Reports
    <3>2. /\ Len(Append(groups, joined)) = Len(groups) + 1
          /\ Append(groups, joined)[Len(groups) + 1] = joined
      BY <1>7
    <3>3. Worst(counts.perStepMax, groups)'
      BY <2>1, <2>2, <3>1 DEF Worst
    <3> QED
      BY <2>1, <2>2, <3>2, <3>3 DEF Reports
  <2>7. StepsCovered'
    <3>1. /\ counts.perStepMax <= counts'.perStepMax /\ joined <= counts'.perStepMax
          /\ counts'.perStepMax \in Nat
      <4> DEFINE m == counts.perStepMax
                 M == Max({m, joined})
      <4>1. m \in Nat /\ joined \in Nat
        BY <1>3, <1>7
      <4> HIDE DEF m
      <4>2. M \in Nat /\ m <= M /\ joined <= M
        BY <4>1, MaxOfTwo
      <4> HIDE DEF M
      <4>3. counts'.perStepMax = M
        BY <2>2 DEF m, M
      <4> QED
        BY <4>2, <4>3 DEF m
    <3> SUFFICES ASSUME NEW i \in 1 .. Len(finished)
                 PROVE  finished[i] <= counts'.perStepMax
      BY <1>2 DEF StepsCovered
    <3>2. finished[i] <= counts.perStepMax \/ finished[i] <= joined
      BY <1>1, <1>3, <2>1 DEF StepsCovered
    <3> QED
      BY <1>3, <1>7, <3>1, <3>2
  <2> QED
    BY <2>3, <2>5, <2>6, <2>7 DEF CensusInv
<1>9. CASE ~StepEnded(counts, l)
  <2>1. groups' = groups /\ joined' = joined
    BY <1>2, <1>5, <1>9
  <2>2. /\ counts' \in Censuses /\ counts'.lastLayer = l /\ counts'.cur[l] = n
        /\ \A x \in Layers \ {l} : counts'.cur[x] = counts.cur[x]
        /\ CurrentDemand(counts') = CurrentDemand(counts) - counts.cur[l] + n
        /\ counts'.perStep = counts.perStep /\ counts'.perStepMax = counts.perStepMax
    BY <1>4, <1>9 DEF CountsAsk
  <2>3. Typed'
    BY <1>1, <1>2, <1>3, <2>1, <2>2 DEF Typed
  <2>4. Latest' = l /\ l > Latest
    BY <1>2, <1>3, <1>5, <1>9 DEF Latest
  <2>5. Follows'
    <3>1. \A x \in Layers : x > l => x \in Layers \ {l} /\ x > Latest
      BY <1>3, <1>7, <2>4
    <3>2. \A x \in Layers : x > l => counts'.cur[x] = 0
      BY <1>1, <2>2, <3>1 DEF Follows
    <3>3. counts.cur[l] = 0
      BY <1>1, <2>4 DEF Follows
    <3>4. CurrentDemand(counts)' = joined' + truth'
      BY <1>2, <1>3, <1>6, <2>1, <2>2, <3>3
    <3> QED
      BY <1>2, <1>3, <2>2, <2>4, <3>2, <3>4 DEF Follows
  <2>6. Reports'
    BY <1>1, <2>1, <2>2 DEF Reports, Worst
  <2>7. StepsCovered'
    <3> SUFFICES ASSUME NEW i \in 1 .. Len(finished)
                 PROVE  \/ finished[i] <= counts.perStepMax
                        \/ finished[i] <= joined + (truth + n)
      BY <1>2, <2>1, <2>2 DEF StepsCovered
    <3>1. finished[i] <= counts.perStepMax \/ finished[i] <= joined + truth
      BY <1>1 DEF StepsCovered
    <3> QED
      BY <1>3, <1>7, <3>1
  <2> QED
    BY <2>3, <2>5, <2>6, <2>7 DEF CensusInv
<1> QED
  BY <1>8, <1>9

LEMMA NextStepKeepsCensusInv == CensusInv /\ NextStep => CensusInv'
<1> SUFFICES ASSUME CensusInv, NextStep
             PROVE  CensusInv'
  OBVIOUS
<1>1. Typed /\ Follows /\ Reports /\ StepsCovered
  BY DEF CensusInv
<1>2. /\ counts' = counts /\ groups' = groups
      /\ passed' = 0 /\ truth' = 0 /\ joined' = joined + truth
      /\ before' = (IF passed > 0 THEN passed ELSE before)
      /\ finished' = Append(finished, truth)
  BY DEF NextStep
<1>3. /\ finished \in Seq(Nat) /\ truth \in Nat /\ joined \in Nat /\ Len(finished) \in Nat
      /\ counts.perStepMax \in Nat
  BY <1>1 DEF Typed, Censuses
<1>4. /\ finished' \in Seq(Nat) /\ Len(finished') = Len(finished) + 1
      /\ finished'[Len(finished) + 1] = truth
      /\ \A i \in 1 .. Len(finished) : finished'[i] = finished[i] /\ finished[i] \in Nat
  BY <1>2, <1>3
<1>5. Typed'
  BY <1>1, <1>2, <1>3, <1>4 DEF Typed
<1>6. Latest' = Latest
  BY <1>2 DEF Latest
<1>7. Follows'
  <2>1. CurrentDemand(counts)' = joined' + truth'
    BY <1>1, <1>2, <1>3 DEF Follows
  <2> QED
    BY <1>1, <1>2, <1>6, <2>1 DEF Follows
<1>8. Reports'
  BY <1>1, <1>2 DEF Reports, Worst
<1>9. StepsCovered'
  <2> SUFFICES ASSUME NEW i \in 1 .. Len(finished) + 1
               PROVE  finished'[i] <= counts.perStepMax \/ finished'[i] <= joined' + truth'
    BY <1>2, <1>4 DEF StepsCovered
  <2>1. joined' + truth' = joined + truth
    BY <1>2, <1>3
  <2>2. CASE i \in 1 .. Len(finished)
    <3>1. finished[i] <= counts.perStepMax \/ finished[i] <= joined + truth
      BY <1>1, <2>2 DEF StepsCovered
    <3> QED
      BY <1>4, <2>1, <2>2, <3>1
  <2>3. CASE i = Len(finished) + 1
    BY <1>3, <1>4, <2>1, <2>3
  <2> QED
    BY <1>3, <2>2, <2>3
<1> QED
  BY <1>5, <1>7, <1>8, <1>9 DEF CensusInv

LEMMA CensusInvariance == StepsSpec => []CensusInv
<1>1. StepsInit => CensusInv
  <2> SUFFICES ASSUME StepsInit
               PROVE  CensusInv
    OBVIOUS
  <2>1. /\ counts = [cur |-> [l \in Layers |-> 0], lastLayer |-> 0,
                     perStep |-> 0, perStepMax |-> 0, maxWant |-> 0]
        /\ passed = 0 /\ before = 0 /\ truth = 0 /\ joined = 0
        /\ finished = <<>> /\ groups = <<>>
    BY DEF StepsInit, NewCensus
  <2>2. Typed
    BY <2>1, EmptySeq DEF Typed, Censuses
  <2>3. Follows
    <3>1. PICK l \in Layers : TRUE
      BY DecodeStepsAssumption
    <3>2. counts.cur \in [Layers -> Nat] /\ \A x \in Layers : counts.cur[x] = 0
      BY <2>1
    <3>3. CurrentDemand(counts) = counts.cur[l]
      BY <3>2, DemandOfOne
    <3> QED
      BY <2>1, <3>2, <3>3 DEF Follows, Latest
  <2>4. Reports /\ StepsCovered
    BY <2>1, EmptySeq DEF Reports, Worst, StepsCovered
  <2> QED
    BY <2>2, <2>3, <2>4 DEF CensusInv
<1>2. CensusInv /\ [StepsNext]_stepsVars => CensusInv'
  <2> SUFFICES ASSUME CensusInv, [StepsNext]_stepsVars
               PROVE  CensusInv'
    OBVIOUS
  <2>1. CASE NextStep
    BY <2>1, NextStepKeepsCensusInv
  <2>2. ASSUME NEW l \in Layers, NEW n \in 1 .. MaxAsk, Ask(l, n)
        PROVE  CensusInv'
    BY <2>2, AskKeepsCensusInv
  <2>3. CASE UNCHANGED stepsVars
    BY <2>3 DEF stepsVars, CensusInv, Typed, Follows, Latest, Reports, Worst, StepsCovered
  <2> QED
    BY <2>1, <2>2, <2>3 DEF StepsNext
<1> QED
  BY <1>1, <1>2, PTL DEF StepsSpec

(* The census holds the demand of a whole run of steps, whichever layers   *)
(* ask in each of them.                                                    *)
THEOREM DemandIsOfWholeSteps == StepsSpec => []DemandIsWholeSteps
<1>1. CensusInv => DemandIsWholeSteps
  BY DEF CensusInv, Follows, DemandIsWholeSteps
<1> QED
  BY <1>1, CensusInvariance, PTL

(* The last and the worst step it reports are such runs of steps.           *)
THEOREM ReportsAreOfWholeSteps == StepsSpec => []ReportsAreWholeSteps
<1>1. CensusInv => ReportsAreWholeSteps
  <2> SUFFICES ASSUME CensusInv, groups # <<>>
               PROVE  /\ counts.perStep = groups[Len(groups)]
                      /\ counts.perStepMax = Max({groups[i] : i \in DOMAIN groups})
    BY DEF ReportsAreWholeSteps
  <2> DEFINE m == counts.perStepMax
             S == {groups[i] : i \in DOMAIN groups}
  <2>1. groups \in Seq(Nat) /\ m \in Nat
    BY DEF CensusInv, Typed, Censuses
  <2>2. counts.perStep = groups[Len(groups)] /\ Worst(m, groups)
    BY DEF CensusInv, Reports
  <2>3. DOMAIN groups = 1 .. Len(groups) /\ Len(groups) \in Nat /\ Len(groups) > 0
    BY <2>1
  <2>4. \A i \in 1 .. Len(groups) : groups[i] \in Nat /\ groups[i] <= m
    BY <2>1, <2>2 DEF Worst
  <2>5. \E i \in 1 .. Len(groups) : groups[i] = m
    <3>1. CASE m = 0
      <4>1. 1 \in 1 .. Len(groups) /\ groups[1] = 0
        BY <2>3, <2>4, <3>1
      <4> QED
        BY <3>1, <4>1
    <3>2. CASE m # 0
      BY <2>2, <3>2 DEF Worst
    <3> QED
      BY <3>1, <3>2
  <2> HIDE DEF m
  <2>6. m \in S /\ S \subseteq Nat /\ \A y \in S : y <= m
    BY <2>3, <2>4, <2>5
  <2> HIDE DEF S
  <2>7. Max(S) = m
    <3>1. \A x \in S : (\A y \in S : x >= y) => x = m
      BY <2>1, <2>6
    <3>2. \A y \in S : m >= y
      BY <2>1, <2>6
    <3> QED
      BY <2>6, <3>1, <3>2 DEF Max
  <2> QED
    BY <2>2, <2>7 DEF m, S
<1> QED
  BY <1>1, CensusInvariance, PTL

(* No finished step asked for more than the census accounts for, in the    *)
(* worst step reported or in the demand still being counted.               *)
THEOREM WorstStepIsSeen == StepsSpec => []NoStepIsMissed
<1>1. CensusInv => NoStepIsMissed
  <2> SUFFICES ASSUME CensusInv, NEW i \in DOMAIN finished
               PROVE  finished[i] <= Max({counts.perStepMax, CurrentDemand(counts)})
    BY DEF NoStepIsMissed
  <2> DEFINE m == counts.perStepMax
             d == CurrentDemand(counts)
             M == Max({m, d})
  <2>1. /\ m \in Nat /\ d \in Nat /\ d = joined + truth
        /\ finished \in Seq(Nat) /\ finished[i] \in Nat /\ i \in 1 .. Len(finished)
    BY DEF CensusInv, Typed, Follows, Censuses
  <2>2. finished[i] <= m \/ finished[i] <= d
    BY <2>1 DEF CensusInv, StepsCovered
  <2> HIDE DEF m, d
  <2>3. M \in Nat /\ m <= M /\ d <= M
    BY <2>1, MaxOfTwo
  <2> HIDE DEF M
  <2>4. finished[i] <= M
    BY <2>1, <2>2, <2>3
  <2> QED
    BY <2>4 DEF M, m, d
<1> QED
  BY <1>1, CensusInvariance, PTL

=============================================================================
