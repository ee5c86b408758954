------------------------------ MODULE LazyHeaps ------------------------------
(***************************************************************************)
(* Which row the cold tier evicts, and which it demotes                    *)
(* (src/kernel/nvme_residency.py).  ColdTier leaves the choice open; here  *)
(* it is what matters.  The code keeps two heaps of the ranks that rows    *)
(* had when they were pushed, finds out that an entry is stale when it     *)
(* comes to the top, and rebuilds a heap that has grown too long.  The     *)
(* scans that the heaps replaced are still in the source: they say what    *)
(* the heaps must choose.                                                  *)
(*                                                                         *)
(* Every action of ColdTier is here, with what it does to ranks and heaps. *)
(* A loop over a heap, or over the keys to push on one, takes a step per   *)
(* turn.  It runs under the lock, and reads nothing that a thread without  *)
(* the lock writes, so nothing else happens meanwhile.                     *)
(*                                                                         *)
(* A heap is the bag of its entries, tuples that compare left to right:    *)
(*   vheap: <<0 if reclaimable else 1, freq, last_use, slot, key>>         *)
(*   dheap: <<freq, last_use, pubseq, key>>                                *)
(***************************************************************************)
EXTENDS ColdTier

INSTANCE BagsExt

CONSTANT HeapLimit          \* _VHEAP_SLACK * hot_rows: a longer heap is rebuilt

ASSUME LazyHeapsAssumption ==
  /\ Keys \subseteq Nat     \* the code compares keys as tuples
  /\ HeapLimit \in Nat

VARIABLES
  clock,     \* _clock
  freq,      \* _freq
  last,      \* _last_use
  seq,       \* _pubseq; 0 for a key that is not there
  nextSeq,   \* _pubseq_next
  order,     \* the keys of _slot_of, in insertion order
  vheap,     \* _vheap
  dheap,     \* _dheap
  held,      \* the entries that the running loop keeps aside
  loop,      \* "none", or the loop that is running
  list       \* its keys: those chosen so far, or those still to push

ranks == <<clock, freq, last>>
publications == <<seq, nextSeq, order>>
heaps == <<vheap, dheap, held>>
heapVars == <<ranks, publications, heaps, loop, list>>
allVars == <<vars, heapVars>>

\* Tuples of numbers compare from left to right.
Before(e, f) ==
  \E i \in DOMAIN e : e[i] < f[i] /\ \A j \in 1 .. i - 1 : e[j] = f[j]

Tops(heap) == {e \in BagToSet(heap) : \A f \in BagToSet(heap) : ~Before(f, e)}

(* _reclaimable while a loop over keys runs: those it has still to come to *)
(* are as they were.                                                       *)
Marked ==
  CASE loop = "resurrect" -> reclaimable \cup ToSet(Tail(list))
    [] loop = "reclaim"   -> reclaimable \ ToSet(Tail(list))
    [] OTHER              -> reclaimable

-----------------------------------------------------------------------------
(* The victim heap.                                                        *)

VEntry(soft, s, k) == <<IF k \in soft THEN 0 ELSE 1, freq[k], last[k], s, k>>

VCompacted(of, soft) == SetToBag({VEntry(soft, s, of[s]) : s \in {u \in Slots : of[u] # NoKey}})

VPushed(of, soft, s, k) ==
  BagAdd(IF BagCardinality(vheap) > HeapLimit THEN VCompacted(of, soft) ELSE vheap,
         VEntry(soft, s, k))

\* What a search finds at the top: the slot has moved on, or its rank has.
SlotMoved(e) == keyOf[e[4]] # e[5]

Current(e) == ~SlotMoved(e) /\ e = VEntry(reclaimable, e[4], e[5])

-----------------------------------------------------------------------------
(* The demotion heap.                                                      *)

DEntry(at, k) == <<freq[k], last[k], at[k], k>>

DCompacted(ks, at, soft) == SetToBag({DEntry(at, k) : k \in ks \ soft})

\* Mutant: the key is pushed on the rebuilt heap, which already has it.
DPushedTwice(ks, at, soft, k) ==
  IF ProtectedRows >= HotRows THEN dheap
  ELSE BagAdd(IF BagCardinality(dheap) > HeapLimit THEN DCompacted(ks, at, soft) ELSE dheap,
              DEntry(at, k))

DPushed(ks, at, soft, k) ==
  IF ProtectedRows >= HotRows THEN dheap
  ELSE IF BagCardinality(dheap) > HeapLimit THEN DCompacted(ks, at, soft)
  ELSE BagAdd(dheap, DEntry(at, k))

\* The row of an entry was evicted, published again, or is reclaimable already.
Dead(e) == ~Resident(e[4]) \/ seq[e[4]] # e[3] \/ e[4] \in reclaimable

-----------------------------------------------------------------------------
HeapInit ==
  /\ Init
  /\ clock = 0
  /\ freq = [k \in Keys |-> 0]
  /\ last = [k \in Keys |-> 0]
  /\ seq = [k \in Keys |-> 0]
  /\ nextSeq = 1
  /\ order = <<>>
  /\ vheap = EmptyBag
  /\ dheap = EmptyBag
  /\ held = EmptyBag
  /\ loop = "none"
  /\ list = <<>>

Resting == loop = "none"

\* A request counts every key it asks for.
Touch(ks) ==
  /\ clock' = clock + 1
  /\ freq' = [k \in Keys |-> IF k \in ks THEN freq[k] + 1 ELSE freq[k]]
  /\ last' = [k \in Keys |-> IF k \in ks THEN clock + 1 ELSE last[k]]

\* Reclaimable rows among those of q are active again, and pushed one by one.
Resurrect(q, gone) ==
  /\ list' = Only(q, reclaimable \ gone)
  /\ loop' = IF list' = <<>> THEN "none" ELSE "resurrect"

ResurrectNext ==
  /\ loop = "resurrect"
  /\ dheap' = DPushed(ToSet(order), seq, Marked, Head(list))
  /\ list' = Tail(list)
  /\ loop' = IF list' = <<>> THEN "none" ELSE loop
  /\ UNCHANGED <<vars, ranks, publications, vheap, held>>

\* A row stops being resident: its slot may be filled again.
Unpublish(k) ==
  /\ seq' = [seq EXCEPT ![k] = 0]
  /\ order' = Only(order, Keys \ {k})
  /\ UNCHANGED nextSeq

\* ensure: the request is counted, and its hits are resurrected.
Ask(t, q) ==
  /\ Resting
  /\ Begin(t, q)
  /\ Touch(ToSet(q))
  /\ Resurrect(q, {})
  /\ UNCHANGED <<publications, heaps>>

MeetRow(t) ==
  /\ Resting
  /\ PlanHit(t)
  /\ Resurrect(<<Head(local[t].todo)>>, {})
  /\ UNCHANGED <<ranks, publications, heaps>>

TakeFree(t) ==
  /\ Resting
  /\ ClaimFree(t)
  /\ Resurrect(<<Head(local[t].todo)>>, {})
  /\ UNCHANGED <<ranks, publications, heaps>>

-----------------------------------------------------------------------------
(* _victim: the search, entry by entry.                                    *)

StartSearch(t) ==
  /\ Resting
  /\ Claiming(t)
  /\ free = <<>>
  /\ loop' = "search"
  /\ UNCHANGED <<vars, ranks, publications, heaps, list>>

Searching(t) == loop = "search" /\ Claiming(t)

(* A stale entry is dropped, or filed again at the rank its row has; a     *)
(* current one of a slot that must not be taken is held aside.             *)
SearchOn(t) ==
  /\ Searching(t)
  /\ \E e \in Tops(vheap) :
       \/ /\ SlotMoved(e)
          /\ vheap' = BagRemove(vheap, e)
          /\ UNCHANGED held
       \/ /\ ~SlotMoved(e) /\ ~Current(e)
          /\ vheap' = BagAdd(BagRemove(vheap, e), VEntry(reclaimable, e[4], e[5]))
          /\ UNCHANGED held
       \/ /\ Current(e) /\ e[4] \notin Evictable(t)
          /\ vheap' = BagRemove(vheap, e)
          /\ held' = BagAdd(held, e)
  /\ UNCHANGED <<vars, ranks, publications, dheap, loop, list>>

EndSearch ==
  /\ vheap' = vheap (+) held
  /\ held' = EmptyBag
  /\ UNCHANGED <<ranks, dheap>>

\* The entry of the slot that is taken stays in the heap.
TakeVictim(t) ==
  /\ Searching(t)
  /\ \E e \in Tops(vheap) :
       /\ Current(e)
       /\ e[4] \in Evictable(t)
       /\ Evict(t, e[4])
       /\ Unpublish(e[5])
       /\ Resurrect(<<Head(local[t].todo)>>, {e[5]})
  /\ EndSearch

FindNone(t) ==
  /\ Searching(t)
  /\ vheap = EmptyBag
  /\ GiveUp(t)
  /\ loop' = "none"
  /\ EndSearch
  /\ UNCHANGED <<publications, list>>

-----------------------------------------------------------------------------
(* The other operations.                                                   *)

Land(t) ==
  /\ Resting
  /\ local[t].pc = "drain"
  /\ lock = NoThread
  /\ \E f \in local[t].flight :
       /\ PublishRow(t, f)
       /\ seq' = [seq EXCEPT ![f.key] = nextSeq]
       /\ order' = Append(order, f.key)
       /\ vheap' = VPushed(keyOf', reclaimable, f.slot, f.key)
       /\ dheap' = DPushed(ToSet(order'), seq', reclaimable, f.key)
  /\ nextSeq' = nextSeq + 1
  /\ UNCHANGED <<ranks, held, loop, list>>

Look(t) ==
  /\ Resting
  /\ Await(t)
  /\ Resurrect(<<Head(local[t].waits).key>>, {})
  /\ UNCHANGED <<ranks, publications, heaps>>

AskAgain(t) ==
  /\ Resting
  /\ Refetch(t)
  /\ Touch({Head(local[t].todo)})
  /\ UNCHANGED <<publications, heaps, loop, list>>

Drop(k) ==
  /\ Resting
  /\ Invalidate(k)
  /\ Unpublish(k)
  /\ UNCHANGED <<ranks, heaps, loop, list>>

\* What leaves ranks and heaps alone.
Quiet ==
  /\ Resting
  /\ \/ \E t \in Threads : \/ PlanElsewhere(t) \/ Unblock(t) \/ EndPlan(t) \/ PopFences(t)
                           \/ Submit(t) \/ ReclaimUnsubmitted(t) \/ FillFails(t) \/ EndFill(t)
     \/ QueueCopies \/ Fence \/ ReadRows \/ Copy
  /\ UNCHANGED heapVars

-----------------------------------------------------------------------------
(* _demote_locked, at the end of a demand call.                            *)

NothingToDemote(t) ==
  /\ Resting
  /\ Demoting(t)
  /\ Excess = 0
  /\ Reclassify(t, {})
  /\ UNCHANGED heapVars

StartDemotion(t) ==
  /\ Resting
  /\ Demoting(t)
  /\ Excess > 0
  /\ loop' = "demote"
  /\ list' = <<>>
  /\ UNCHANGED <<vars, ranks, publications, heaps>>

DemoteOn ==
  /\ loop = "demote"
  /\ Len(list) < Excess
  /\ \E e \in Tops(dheap) :
       \/ /\ Dead(e)
          /\ dheap' = BagRemove(dheap, e)
          /\ UNCHANGED <<held, list>>
       \/ /\ ~Dead(e) /\ e # DEntry(seq, e[4])
          /\ dheap' = BagAdd(BagRemove(dheap, e), DEntry(seq, e[4]))
          /\ UNCHANGED <<held, list>>
       \/ /\ ~Dead(e) /\ e = DEntry(seq, e[4]) /\ slotOf[e[4]] \in window
          /\ dheap' = BagRemove(dheap, e)
          /\ held' = BagAdd(held, e)
          /\ UNCHANGED list
       \/ /\ ~Dead(e) /\ e = DEntry(seq, e[4]) /\ slotOf[e[4]] \notin window
          /\ dheap' = BagRemove(dheap, e)
          /\ list' = Append(list, e[4])
          /\ UNCHANGED held
  /\ UNCHANGED <<vars, ranks, publications, vheap, loop>>

EndDemotion(t) ==
  /\ loop = "demote"
  /\ Demoting(t)
  /\ dheap = EmptyBag \/ Len(list) >= Excess
  /\ Reclassify(t, ToSet(list))
  /\ dheap' = dheap (+) held
  /\ held' = EmptyBag
  /\ loop' = IF list = <<>> THEN "none" ELSE "reclaim"
  /\ UNCHANGED <<ranks, publications, vheap, list>>

\* Mutant: the victims' improved ranks are not pushed.
ReclaimSilently ==
  /\ loop = "reclaim"
  /\ list' = Tail(list)
  /\ loop' = IF list' = <<>> THEN "none" ELSE loop
  /\ UNCHANGED <<vars, ranks, publications, heaps>>

ReclaimNext ==
  /\ loop = "reclaim"
  /\ vheap' = VPushed(keyOf, Marked, slotOf[Head(list)], Head(list))
  /\ list' = Tail(list)
  /\ loop' = IF list' = <<>> THEN "none" ELSE loop
  /\ UNCHANGED <<vars, ranks, publications, dheap, held>>

-----------------------------------------------------------------------------
HeapNext ==
  \/ \E t \in Threads : \E q \in Requests[t] : Ask(t, q)
  \/ \E t \in Threads :
       \/ MeetRow(t) \/ TakeFree(t) \/ StartSearch(t) \/ SearchOn(t) \/ TakeVictim(t)
       \/ FindNone(t) \/ Land(t) \/ Look(t) \/ AskAgain(t)
       \/ NothingToDemote(t) \/ StartDemotion(t) \/ EndDemotion(t)
  \/ ResurrectNext \/ DemoteOn \/ ReclaimNext
  \/ Quiet
  \/ \E k \in Keys : Drop(k)

HeapSpec == HeapInit /\ [][HeapNext]_allVars

-----------------------------------------------------------------------------
(* Properties.                                                             *)

\* _victim_scan: the least rank among the slots that may be taken, the lowest
\* slot among equals.
ScanRank(s) == <<IF keyOf[s] \in reclaimable THEN 0 ELSE 1, freq[keyOf[s]], last[keyOf[s]], s>>

VictimScan(t) ==
  CHOOSE s \in Evictable(t) : \A u \in Evictable(t) : ~Before(ScanRank(u), ScanRank(s))

(* The search takes the slot the scan would take, and finds none only when *)
(* there is none: no stale entry hides a row that should go first, however *)
(* ranks have changed since it was pushed, and no row has dropped out.     *)
VictimAsScanned ==
  \A t \in Threads : Searching(t) =>
    /\ \A e \in Tops(vheap) :
         Current(e) /\ e[4] \in Evictable(t) => e[4] = VictimScan(t)
    /\ vheap = EmptyBag => Evictable(t) = {}

(* nsmallest of _demote_scan_locked: by frequency and last use, and stable *)
(* over _slot_of, so that ties go by insertion.                            *)
DemotionRank(k) == <<freq[k], last[k], CHOOSE i \in DOMAIN order : order[i] = k>>

(* The demotion heap yields the rows of the scan, in the scan's order,     *)
(* which is the order in which reclaimable rows are overwritten: no row is *)
(* missing from the heap, and none is in it twice.                         *)
DemotionAsScanned ==
  loop = "demote" =>
    /\ ToSet(list) \subseteq Demotable
    /\ \A i, j \in DOMAIN list : i < j => Before(DemotionRank(list[i]), DemotionRank(list[j]))
    /\ \A k \in ToSet(list), u \in Demotable \ ToSet(list) :
         Before(DemotionRank(k), DemotionRank(u))
    /\ dheap = EmptyBag => Demotable \subseteq ToSet(list)
=============================================================================
