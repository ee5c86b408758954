------------------------------ MODULE HaveSkip ------------------------------
(***************************************************************************)
(* The engines' device slots (src/kernel/mxfp4_pipelined.py and            *)
(* mxfp4_residency.py): SlotStore, _claim, _prime, _fetch, _invalidate,    *)
(* _gather, _commit and _forget.                                           *)
(*                                                                         *)
(* Engines, one to a layer, fetch the rows of the experts they want into   *)
(* k slots, which several may share.  The gather skips a slot when the     *)
(* address wanted is the one it has.  In a pinned engine an address stands *)
(* for an expert.  In a tiered one the cold rows come from a cache that    *)
(* puts them where it likes, so the address of a row that has been         *)
(* refilled may be the one the slot has; the engine keeps a mirror of what *)
(* its slots hold, and poisons have with it.                               *)
(*                                                                         *)
(* A pinned engine's decode step may be captured and replayed.  Capturing  *)
(* runs the host's half of _fetch, the claim, and records the device's; a  *)
(* replay runs the device's half, and claims nothing.                      *)
(*                                                                         *)
(* A fetch is one step: the host runs it in one piece, and the copies of   *)
(* the slots run in the order they are issued.  The caches behind it are   *)
(* modelled by what they promise: each row asked for is at the address     *)
(* they return until the gather has read it (DevRowCache, ColdTier).       *)
(***************************************************************************)
CONSTANTS Layers,
          NoLayer,     \* the owner of a fresh store: None
          Experts,
          FirstExpert, \* 0
          NoExpert,    \* -1
          Addresses,   \* of every row: hot stacks, pinned arenas, caches
          NoAddress,   \* -1
          Slots,       \* 1 .. k
          Stores,
          StoreOf,     \* the store an engine was given or made
          Tiered,      \* the layers with a tier behind them
          Captured,    \* the layers whose decode step a graph may replay
          Hot          \* rows that stay: their address, by <<layer, expert>>

Keys == Layers \X Experts
Nothing == <<NoLayer, NoExpert>>
HotAddresses == {Hot[key] : key \in DOMAIN Hot}
HotKey(a) == CHOOSE key \in DOMAIN Hot : Hot[key] = a

(* What the constructors see to: a pinned engine has a row for every       *)
(* expert, and no row is two experts'.  A tiered engine refuses to be      *)
(* captured.  Any engines of one geometry may share a store                *)
(* (SlotStore.check).                                                      *)
ASSUME HaveSkipAssumption ==
  /\ NoLayer \notin Layers /\ NoExpert \notin Experts /\ NoAddress \notin Addresses
  /\ FirstExpert \in Experts
  /\ StoreOf \in [Layers -> Stores]
  /\ Tiered \subseteq Layers
  /\ Captured \subseteq Layers \ Tiered
  /\ DOMAIN Hot \subseteq Keys
  /\ (Layers \ Tiered) \X Experts \subseteq DOMAIN Hot
  /\ \A key \in DOMAIN Hot :
       /\ Hot[key] \in Addresses
       /\ \A other \in DOMAIN Hot : Hot[other] = Hot[key] => other = key

VARIABLES
  row,        \* whose bytes each row has
  owner,      \* of each store: the engine whose rows the slots hold
  have,       \*                the address each slot was filled from
  want,       \*                want_buf
  bytes,      \*                whose bytes each slot has
  eid, addr,  \* the mirrors of the tiered engines
  primed,     \* the engines that exist
  graphs,     \* the graphs captured: an engine, and whether it took over
  computing   \* the engine whose kernels may read its slots

vars == <<row, owner, have, want, bytes, eid, addr, primed, graphs, computing>>

\* A store not owned yet keeps nothing; what its memory has is anybody's.
Init ==
  /\ \E cold \in [Addresses \ HotAddresses -> Keys \cup {Nothing}] :
       row = [a \in Addresses |-> IF a \in HotAddresses THEN HotKey(a) ELSE cold[a]]
  /\ owner = [st \in Stores |-> NoLayer]
  /\ have = [st \in Stores |-> [s \in Slots |-> NoAddress]]
  /\ want = [st \in Stores |-> [s \in Slots |-> FirstExpert]]
  /\ bytes = [st \in Stores |-> [s \in Slots |-> Nothing]]
  /\ eid = [l \in Layers |-> [s \in Slots |-> NoExpert]]
  /\ addr = [l \in Layers |-> [s \in Slots |-> NoAddress]]
  /\ primed = {}
  /\ graphs = {}
  /\ computing = NoLayer

-----------------------------------------------------------------------------
(* _claim: taking the store over poisons have, and _forget the mirror.     *)

TakesOver(l) == owner[StoreOf[l]] # l

Owned(l) == [owner EXCEPT ![StoreOf[l]] = l]

HaveUnless(poisoned, l) ==
  IF poisoned THEN [s \in Slots |-> NoAddress] ELSE have[StoreOf[l]]

HaveClaimed(l) == HaveUnless(TakesOver(l), l)

EidClaimed(l) == IF TakesOver(l) THEN [s \in Slots |-> NoExpert] ELSE eid[l]
AddrClaimed(l) == IF TakesOver(l) THEN [s \in Slots |-> NoAddress] ELSE addr[l]

(* The rows may move as the caches like, but for the ones that stay.       *)
RowsMove ==
  \E cold \in [Addresses \ HotAddresses -> Keys \cup {Nothing}] :
    row' = [a \in Addresses |-> IF a \in HotAddresses THEN row[a] ELSE cold[a]]

(* _resolve_src: an address with the bytes of every expert wanted; a row   *)
(* that stays is read where it is.                                         *)
Resolves(l, wanted, src) ==
  /\ RowsMove
  /\ \A s \in Slots :
       /\ row'[src[s]] = <<l, wanted[s]>>
       /\ <<l, wanted[s]>> \in DOMAIN Hot => src[s] = Hot[<<l, wanted[s]>>]

\* Mutant: the slots are trusted by address, as in a pinned engine.
HaveKept(l, wanted) == HaveClaimed(l)

(* _invalidate: a tiered engine makes have anew from its mirror.           *)
HaveInvalidated(l, wanted) ==
  IF l \in Tiered
  THEN [s \in Slots |-> IF wanted[s] # EidClaimed(l)[s] THEN NoAddress ELSE AddrClaimed(l)[s]]
  ELSE HaveClaimed(l)

Gathered(l, src, has) ==
  [bytes EXCEPT ![StoreOf[l]] =
     [s \in Slots |-> IF src[s] = has[s] THEN bytes[StoreOf[l]][s] ELSE row'[src[s]]]]

Committed(l, wanted, src) ==
  /\ have' = [have EXCEPT ![StoreOf[l]] = src]
  /\ eid'  = IF l \in Tiered THEN [eid EXCEPT ![l] = wanted] ELSE eid
  /\ addr' = IF l \in Tiered THEN [addr EXCEPT ![l] = src] ELSE addr

(* The constructor's _prime asks every slot for expert 0, and does not     *)
(* invalidate.                                                             *)
Prime(l) ==
  LET wanted == [s \in Slots |-> FirstExpert]
  IN /\ l \notin primed
     /\ \E src \in [Slots -> Addresses] :
          /\ Resolves(l, wanted, src)
          /\ bytes' = Gathered(l, src, HaveClaimed(l))
          /\ Committed(l, wanted, src)
     /\ owner' = Owned(l)
     /\ want' = [want EXCEPT ![StoreOf[l]] = wanted]
     /\ primed' = primed \cup {l}
     /\ computing' = l
     /\ UNCHANGED graphs

Fetch(l, wanted) ==
  /\ l \in primed
  /\ \E src \in [Slots -> Addresses] :
       /\ Resolves(l, wanted, src)
       /\ bytes' = Gathered(l, src, HaveInvalidated(l, wanted))
       /\ Committed(l, wanted, src)
  /\ owner' = Owned(l)
  /\ want' = [want EXCEPT ![StoreOf[l]] = wanted]
  /\ computing' = l
  /\ UNCHANGED <<primed, graphs>>

(* A read fails: the engine has claimed the store, and gathers nothing.    *)
FetchRaises(l, wanted) ==
  /\ l \in primed \cap Tiered
  /\ RowsMove
  /\ owner' = Owned(l)
  /\ have' = [have EXCEPT ![StoreOf[l]] = HaveClaimed(l)]
  /\ eid' = [eid EXCEPT ![l] = EidClaimed(l)]
  /\ addr' = [addr EXCEPT ![l] = AddrClaimed(l)]
  /\ want' = [want EXCEPT ![StoreOf[l]] = wanted]
  /\ computing' = NoLayer
  /\ UNCHANGED <<bytes, primed, graphs>>

(* A decode step captured: the device has done nothing of it yet.          *)
Capture(l) ==
  /\ l \in primed \cap Captured
  /\ graphs' = graphs \cup {<<l, TakesOver(l)>>}
  /\ owner' = Owned(l)
  /\ UNCHANGED <<row, have, want, bytes, eid, addr, primed, computing>>

Replay(l, poisons, wanted) ==
  /\ <<l, poisons>> \in graphs
  /\ \E src \in [Slots -> Addresses] :
       /\ Resolves(l, wanted, src)
       /\ bytes' = Gathered(l, src, HaveUnless(poisons, l))
       /\ Committed(l, wanted, src)
  /\ want' = [want EXCEPT ![StoreOf[l]] = wanted]
  /\ computing' = l
  /\ UNCHANGED <<owner, primed, graphs>>

(* Prefetchers and other users of the caches.                              *)
Elsewhere ==
  /\ RowsMove
  /\ UNCHANGED <<owner, have, want, bytes, eid, addr, primed, graphs, computing>>

Next ==
  \/ \E l \in Layers : Prime(l) \/ Capture(l)
  \/ \E l \in Layers, wanted \in [Slots -> Experts] :
       \/ Fetch(l, wanted)
       \/ FetchRaises(l, wanted)
       \/ \E poisons \in BOOLEAN : Replay(l, poisons, wanted)
  \/ Elsewhere

Spec == Init /\ [][Next]_vars

-----------------------------------------------------------------------------
\* No replay can take the store of a tiered engine without its knowledge.
MirrorIsKept(l) == l \in Tiered => \A other \in Captured : StoreOf[other] # StoreOf[l]

ReadsItsExperts(l) ==
  computing = l => \A s \in Slots : bytes[StoreOf[l]][s] = <<l, want[StoreOf[l]][s]>>

(* The kernels of an engine read, slot by slot, the bytes of the experts   *)
(* it wants: a slot was skipped only if it had them, whatever the caches   *)
(* have done to the rows and the other layers to the slots in between.     *)
(* (_invalidate: without it "a freshly-evicted-and-refilled slot is        *)
(* silently skipped and the previous expert's weights are used".)  It      *)
(* holds of a pinned engine on any store, replays included, and of a       *)
(* tiered one on a store that no captured engine shares.                   *)
SlotsHoldTheirExperts ==
  \A l \in Layers : MirrorIsKept(l) => ReadsItsExperts(l)

(* The same of every engine: an engine taking the buffer over must FORGET  *)
(* what it believed was resident (SlotStore, mxfp4_pipelined.py:109-111).  *)
(* False of a tiered engine whose store a replay has taken.                *)
TakeoverForgets == \A l \in Layers : ReadsItsExperts(l)
=============================================================================
