------------------------------- MODULE ColdTier -------------------------------
(***************************************************************************)
(* The pinned-DRAM row cache of src/kernel/nvme_residency.py under its     *)
(* concurrency contract: one demand thread (the forward pass) and any      *)
(* number of speculative prefetchers call ensure on one tier.  A call      *)
(* plans under the lock (resolve hits, note keys filled elsewhere, reserve *)
(* slots), drops the lock, waits for the device copies still reading its   *)
(* slots, submits the disk reads, publishes each row as its read lands,    *)
(* and reclaims what failed; a demand call then waits for the keys filled  *)
(* elsewhere and demotes.  The demand thread's caller may queue copies out *)
(* of the rows, without blocking, and fence them.                          *)
(*                                                                         *)
(* An event is set in the step that removes its key from _pending, and     *)
(* only there; so an event is fired when no pending entry has it.  Which   *)
(* of the eligible rows is the victim (LFU, then LRU) is left open here,   *)
(* save that reclaimable rows go first.                                    *)
(***************************************************************************)
EXTENDS Integers, FiniteSets, FiniteSetsExt, Sequences, SequencesExt

CONSTANTS Keys, HotRows, ProtectedRows,
          Demand,           \* the demand thread
          Prefetchers,      \* the speculative threads
          Requests,         \* each thread's requests, sequences of distinct keys
          MaxRequests,      \* bound on the calls each thread makes
          NoKey, NoThread

Threads == Prefetchers \cup {Demand}
Slots   == 0 .. HotRows - 1
NoSlot  == -1

ASSUME ColdTierAssumption ==
  /\ HotRows \in Nat \ {0}
  /\ ProtectedRows \in 1 .. HotRows
  /\ MaxRequests \in [Threads -> Nat]
  /\ NoKey \notin Keys
  /\ NoThread \notin Threads
  /\ Demand \notin Prefetchers
  /\ IsFiniteSet(Prefetchers)
  /\ \A t \in Threads : \A q \in Requests[t] :
       q \in Seq(Keys) /\ IsInjective(q) /\ Len(q) \in 1 .. HotRows

VARIABLES
  slotOf,       \* _slot_of
  keyOf,        \* _key_of
  free,         \* _free, a stack
  reserved,     \* _reserved
  pending,      \* _pending, a dict in insertion order, as [key, ev] records
  window,       \* _demand_protected
  reclaimable,  \* _reclaimable
  gen,          \* _gen
  fence,        \* _fence: the device copy a slot's next fill waits for, or 0
  lock,         \* the thread that holds _lock
  local,        \* each thread's call: where it is, and its locals
  bytes,        \* the row a slot's bytes are; NoKey while they are partial
  copies        \* device copies queued, done, and the rows those between read

tierVars == <<slotOf, keyOf, free, reserved, pending, window, reclaimable, gen>>
vars == <<tierVars, fence, lock, local, bytes, copies>>

Nowhere == [k \in Keys |-> NoSlot]

Idle(n) ==
  [pc |-> "idle", calls |-> n, keys |-> {}, todo |-> <<>>, resolved |-> Nowhere,
   batch |-> <<>>, flight |-> {}, waits |-> <<>>, ev |-> 0, sync |-> 0,
   failed |-> FALSE, nested |-> FALSE]

Resident(k) == slotOf[k] # NoSlot

PendingEvents == {pending[i].ev : i \in DOMAIN pending}

\* Mutant: a key another call is filling goes unnoticed.
PendingUnseen(k) == FALSE

Pending(k) == \E i \in DOMAIN pending : pending[i].key = k

EventOf(k) == pending[CHOOSE i \in DOMAIN pending : pending[i].key = k].ev

Fired(ev) == ev \notin PendingEvents

\* threading.Event(): an object no one else refers to.
NewEvent ==
  LET held == PendingEvents
                \cup (UNION {{local[t].waits[i].ev : i \in DOMAIN local[t].waits} : t \in Threads})
                \cup {local[t].ev : t \in Threads}
  IN CHOOSE n \in 1 .. Cardinality(held) + 1 : n \notin held

\* Mutant: the event of a fill that did not land is never set.
UnsetEvents(ks) == pending

\* A comprehension over a list: the elements of s that are in S, in their order.
Only(s, S) ==
  LET at == {i \in DOMAIN s : s[i] \in S}
  IN [n \in 1 .. Cardinality(at) |->
        s[CHOOSE i \in at : Cardinality({j \in at : j < i}) = n - 1]]

\* Taking keys out of _pending sets their events.
Woken(ks) == Only(pending, {p \in ToSet(pending) : p.key \notin ks})

Init ==
  /\ slotOf = Nowhere
  /\ keyOf = [s \in Slots |-> NoKey]
  /\ free = [i \in 1 .. HotRows |-> i - 1]
  /\ reserved = {}
  /\ pending = <<>>
  /\ window = {}
  /\ reclaimable = {}
  /\ gen = [s \in Slots |-> 0]
  /\ fence = [s \in Slots |-> 0]
  /\ lock = NoThread
  /\ local = [t \in Threads |-> Idle(0)]
  /\ bytes = [s \in Slots |-> NoKey]
  /\ copies = [queued |-> 0, done |-> 0, reading |-> {}]

-----------------------------------------------------------------------------
(* The plan, under the lock.                                               *)

\* Mutant: the window keeps the rows of earlier requests.
GrowingWindow(t, hits) == IF t = Demand THEN window \cup {slotOf[k] : k \in hits} ELSE window

FreshWindow(t, hits) == IF t = Demand THEN {slotOf[k] : k \in hits} ELSE window

\* Entry: a demand call replaces the window, then every hit is resolved.
Begin(t, q) ==
  /\ lock = NoThread
  /\ local[t].pc = "idle"
  /\ local[t].calls < MaxRequests[t]
  /\ lock' = t
  /\ LET hits == {k \in ToSet(q) : Resident(k)}
         kept == [k \in Keys |-> IF k \in hits THEN slotOf[k] ELSE NoSlot]
     IN /\ local' = [local EXCEPT ![t] =
                       [Idle(@.calls + 1) EXCEPT
                          !.pc = "plan", !.resolved = kept, !.keys = ToSet(q),
                          !.todo = Only(q, {k \in Keys : ~Resident(k)})]]
        /\ reclaimable' = reclaimable \ hits
        /\ window' = FreshWindow(t, hits)
  /\ UNCHANGED <<slotOf, keyOf, free, reserved, pending, gen, fence, bytes, copies>>

Planning(t) == lock = t /\ local[t].pc = "plan" /\ local[t].todo # <<>>

\* The key turns up resident: the lock was dropped since the hits were resolved.
Hit(t, k) ==
  /\ window' = IF t = Demand THEN window \cup {slotOf[k]} ELSE window
  /\ local' = [local EXCEPT ![t].pc = "plan", ![t].todo = Tail(@),
                            ![t].resolved[k] = slotOf[k]]

\* Another call is filling the key: wait for it later, or leave it to that call.
Elsewhere(t, k) ==
  LET w == [key |-> k, ev |-> EventOf(k)]
  IN local' = [local EXCEPT
       ![t].pc = "plan", ![t].todo = Tail(@),
       ![t].waits = IF t # Demand THEN @
                    ELSE IF local[t].nested THEN <<w>> \o @ ELSE Append(@, w)]

PlanHit(t) ==
  /\ Planning(t)
  /\ Resident(Head(local[t].todo))
  /\ Hit(t, Head(local[t].todo))
  /\ reclaimable' = reclaimable \ {Head(local[t].todo)}
  /\ UNCHANGED <<slotOf, keyOf, free, reserved, pending, gen, fence, lock, bytes, copies>>

PlanElsewhere(t) ==
  /\ Planning(t)
  /\ ~Resident(Head(local[t].todo))
  /\ Pending(Head(local[t].todo))
  /\ Elsewhere(t, Head(local[t].todo))
  /\ UNCHANGED <<tierVars, fence, lock, bytes, copies>>

\* In _claim_slot: from the plan, or woken up there with the lock taken again.
Claiming(t) ==
  \/ /\ Planning(t)
     /\ ~Resident(Head(local[t].todo))
     /\ ~Pending(Head(local[t].todo))
  \/ lock = t /\ local[t].pc = "claim"

(* own, the rows a call has resolved, is the range of its resolved map: in *)
(* a nested call those of the outer one too, which the window holds.       *)
Own(t) == {local[t].resolved[k] : k \in Keys}

\* Mutant: the demand window does not count.
EvictableWindow(t) == {s \in Slots : keyOf[s] # NoKey /\ s \notin Own(t) \cup reserved}

Evictable(t) ==
  {s \in Slots : keyOf[s] # NoKey /\ s \notin Own(t) \cup window \cup reserved}

Victims(t) ==
  LET soft == {s \in Evictable(t) : keyOf[s] \in reclaimable}
  IN IF soft # {} THEN soft ELSE Evictable(t)

\* Mutant: the generation stays.
SameGeneration(s) == gen

\* A claim that evicts moves the slot's generation; so does an invalidation.
NextGeneration(s) == [gen EXCEPT ![s] = @ + 1]

Reserve(t, k, s) ==
  /\ reserved' = reserved \cup {s}
  /\ pending' = Append(pending, [key |-> k, ev |-> NewEvent])
  /\ window' = IF t = Demand THEN window \cup {s} ELSE window
  /\ local' = [local EXCEPT ![t].pc = "plan", ![t].todo = Tail(@),
                            ![t].resolved[k] = s,
                            ![t].batch = Append(@, [key |-> k, slot |-> s])]

\* Mutant: the slot is used without another look at the key.
UseSlotBlindly(t, s, left, out) ==
  /\ free' = left
  /\ reclaimable' = reclaimable \ out
  /\ Reserve(t, Head(local[t].todo), s)

(* The claimed slot is reserved, unless the key came up while the lock was *)
(* dropped; the slot then goes back on the free list, which left is.  out  *)
(* is the keys the claim evicted.                                          *)
UseSlot(t, s, left, out) ==
  LET k == Head(local[t].todo)
  IN \/ /\ Resident(k) /\ k \notin out
        /\ Hit(t, k)
        /\ free' = Append(left, s)
        /\ reclaimable' = reclaimable \ (out \cup {k})
        /\ UNCHANGED <<reserved, pending>>
     \/ /\ ~Resident(k) /\ Pending(k)
        /\ Elsewhere(t, k)
        /\ free' = Append(left, s)
        /\ reclaimable' = reclaimable \ out
        /\ UNCHANGED <<reserved, pending, window>>
     \/ /\ Resident(k) => k \in out
        /\ ~Pending(k)
        /\ free' = left
        /\ reclaimable' = reclaimable \ out
        /\ Reserve(t, k, s)

ClaimFree(t) ==
  /\ Claiming(t)
  /\ free # <<>>
  /\ UseSlot(t, Last(free), Front(free), {})
  /\ UNCHANGED <<slotOf, keyOf, gen, fence, lock, bytes, copies>>

Evict(t, s) ==
  /\ slotOf' = [slotOf EXCEPT ![keyOf[s]] = NoSlot]
  /\ keyOf' = [keyOf EXCEPT ![s] = NoKey]
  /\ gen' = NextGeneration(s)
  /\ UseSlot(t, s, free, {keyOf[s]})
  /\ UNCHANGED <<fence, lock, bytes, copies>>

ClaimVictim(t) ==
  /\ Claiming(t)
  /\ free = <<>>
  /\ \E s \in Victims(t) : Evict(t, s)

(* Nothing evictable: a speculative call stops planning, a demand call     *)
(* waits for the oldest fill under way.  (With no fill under way it would  *)
(* raise; DemandNeverRefused says that this does not happen.)              *)
GiveUp(t) ==
  /\ \/ /\ t # Demand
        /\ local' = [local EXCEPT ![t].todo = <<>>]
        /\ UNCHANGED lock
     \/ /\ t = Demand
        /\ pending # <<>>
        /\ local' = [local EXCEPT ![t].pc = "blocked", ![t].ev = pending[1].ev]
        /\ lock' = NoThread
  /\ UNCHANGED <<tierVars, fence, bytes, copies>>

NoVictim(t) ==
  /\ Claiming(t)
  /\ free = <<>>
  /\ Victims(t) = {}
  /\ GiveUp(t)

\* blockers[0].wait(timeout=30): the event or the time-out, then the lock again.
Unblock(t) ==
  /\ local[t].pc = "blocked"
  /\ lock = NoThread
  /\ lock' = t
  /\ local' = [local EXCEPT ![t].pc = "claim", ![t].ev = 0]
  /\ UNCHANGED <<tierVars, fence, bytes, copies>>

\* Mutant: the keys filled elsewhere are not waited for.
FilledUnawaited(t) == IF t = Demand THEN [local[t] EXCEPT !.pc = "using", !.batch = <<>>]
                                    ELSE Idle(local[t].calls)

\* Where a call goes once it has nothing left to fill.
Filled(t) == IF t = Demand THEN [local[t] EXCEPT !.pc = "waits", !.batch = <<>>]
                           ELSE Idle(local[t].calls)

EndPlan(t) ==
  /\ lock = t
  /\ local[t].pc = "plan"
  /\ local[t].todo = <<>>
  /\ lock' = NoThread
  /\ local' = [local EXCEPT ![t] = IF @.batch = <<>> THEN Filled(t)
                                                     ELSE [@ EXCEPT !.pc = "fences"]]
  /\ UNCHANGED <<tierVars, fence, bytes, copies>>

-----------------------------------------------------------------------------
(* The fill, outside the lock.                                             *)

BatchSlots(t) == {local[t].batch[i].slot : i \in DOMAIN local[t].batch}

\* Mutant: the fences are dropped and not waited for.
NoReader(t) == 0

\* The last device copy that may still be reading a slot of the batch.
LastReader(t) == Max({fence[s] : s \in BatchSlots(t)})

PopFences(t) ==
  /\ local[t].pc = "fences"
  /\ lock = NoThread
  /\ fence' = [s \in Slots |-> IF s \in BatchSlots(t) THEN 0 ELSE fence[s]]
  /\ local' = [local EXCEPT ![t].pc = "submit",
                            ![t].sync = LastReader(t)]
  /\ UNCHANGED <<tierVars, lock, bytes, copies>>

\* The reads start once the fenced copies are done; submitting one may raise.
Submit(t) ==
  /\ local[t].pc = "submit"
  /\ copies.done >= local[t].sync
  /\ \E n \in 0 .. Len(local[t].batch) :
       LET sent == {local[t].batch[i] : i \in 1 .. n}
       IN /\ bytes' = [s \in Slots |-> IF \E f \in sent : f.slot = s THEN NoKey ELSE bytes[s]]
          /\ local' = [local EXCEPT
               ![t].pc = IF n = Len(local[t].batch) THEN "drain" ELSE "unsubmit",
               ![t].flight = sent,
               ![t].failed = n < Len(local[t].batch),
               ![t].sync = 0]
  /\ UNCHANGED <<tierVars, fence, lock, copies>>

\* Mutant: a slot that was not filled is not put back.
FreeWithout(slots) == free

FreeWith(slots) == free \o SetToSeq(slots \ ToSet(free))

\* Reclaim reserved rows that were not filled, and wake whoever waits for them.
Reclaim(gone) ==
  LET slots == {f.slot : f \in gone}
      keys  == {f.key : f \in gone}
  IN /\ keyOf' = [s \in Slots |-> IF s \in slots THEN NoKey ELSE keyOf[s]]
     /\ reserved' = reserved \ slots
     /\ window' = window \ slots
     /\ free' = FreeWith(slots)
     /\ pending' = Woken(keys)
     /\ UNCHANGED <<slotOf, reclaimable, gen>>

\* Mutant: reads in flight are reclaimed with the rest.
EverythingReserved(t) == ToSet(local[t].batch)

Unsubmitted(t) == ToSet(local[t].batch) \ local[t].flight

ReclaimUnsubmitted(t) ==
  /\ local[t].pc = "unsubmit"
  /\ lock = NoThread
  /\ Reclaim(Unsubmitted(t))
  /\ local' = [local EXCEPT ![t].pc = "drain",
                            ![t].batch = Only(@, local[t].flight)]
  /\ UNCHANGED <<fence, lock, bytes, copies>>

\* A read landed: its row is published at once.
PublishRow(t, f) ==
  /\ bytes' = [bytes EXCEPT ![f.slot] = f.key]
  /\ keyOf' = [keyOf EXCEPT ![f.slot] = f.key]
  /\ slotOf' = [slotOf EXCEPT ![f.key] = f.slot]
  /\ reserved' = reserved \ {f.slot}
  /\ pending' = Woken({f.key})
  /\ local' = [local EXCEPT ![t].flight = @ \ {f},
                            ![t].batch = Only(@, ToSet(@) \ {f})]
  /\ UNCHANGED <<free, window, reclaimable, gen, fence, lock, copies>>

Publish(t) ==
  /\ local[t].pc = "drain"
  /\ lock = NoThread
  /\ \E f \in local[t].flight : PublishRow(t, f)

\* A read failed: noted, and the drain goes on.
FillFails(t) ==
  /\ local[t].pc = "drain"
  /\ \E f \in local[t].flight :
       local' = [local EXCEPT ![t].flight = @ \ {f}, ![t].failed = TRUE]
  /\ UNCHANGED <<tierVars, fence, lock, bytes, copies>>

\* Every read has come back: reclaim what never landed, and raise, or go on.
EndFill(t) ==
  /\ local[t].pc = "drain"
  /\ local[t].flight = {}
  /\ lock = NoThread
  /\ Reclaim(ToSet(local[t].batch))
  /\ local' = [local EXCEPT ![t] = IF @.failed THEN Idle(@.calls) ELSE Filled(t)]
  /\ UNCHANGED <<fence, lock, bytes, copies>>

-----------------------------------------------------------------------------
(* A demand call's keys filled elsewhere, and the demotion pass.           *)

\* A set event proves nothing: look again, and refetch what is not there.
Await(t) ==
  /\ local[t].pc = "waits"
  /\ local[t].waits # <<>>
  /\ Fired(Head(local[t].waits).ev)
  /\ lock = NoThread
  /\ LET k == Head(local[t].waits).key
     IN IF Resident(k)
        THEN /\ reclaimable' = reclaimable \ {k}
             /\ window' = window \cup {slotOf[k]}
             /\ local' = [local EXCEPT ![t].waits = Tail(@), ![t].resolved[k] = slotOf[k]]
        ELSE /\ local' = [local EXCEPT ![t].pc = "refetch", ![t].waits = Tail(@),
                                       ![t].todo = <<k>>]
             /\ UNCHANGED <<reclaimable, window>>
  /\ UNCHANGED <<slotOf, keyOf, free, reserved, pending, gen, fence, lock, bytes, copies>>

\* The nested call: one key, the same window.
Refetch(t) ==
  /\ local[t].pc = "refetch"
  /\ lock = NoThread
  /\ lock' = t
  /\ local' = [local EXCEPT ![t].pc = "plan", ![t].nested = TRUE]
  /\ UNCHANGED <<tierVars, fence, bytes, copies>>

Demotable == {k \in Keys : Resident(k) /\ k \notin reclaimable /\ slotOf[k] \notin window}

Excess ==
  LET over == Cardinality({k \in Keys : Resident(k)}) - Cardinality(reclaimable) - ProtectedRows
  IN IF ProtectedRows >= HotRows \/ over < 0 THEN 0 ELSE over

Demoting(t) ==
  /\ local[t].pc = "waits"
  /\ local[t].waits = <<>>
  /\ lock = NoThread

Reclassify(t, ks) ==
  /\ reclaimable' = reclaimable \cup ks
  /\ local' = [local EXCEPT ![t].pc = "using"]
  /\ UNCHANGED <<slotOf, keyOf, free, reserved, pending, window, gen, fence, lock,
                 bytes, copies>>

Demote(t) ==
  /\ Demoting(t)
  /\ \E ks \in SUBSET Demotable :
       /\ Cardinality(ks) = Min({Excess, Cardinality(Demotable)})
       /\ Reclassify(t, ks)

-----------------------------------------------------------------------------
(* The demand thread's caller.                                             *)

Held == local[Demand].keys

\* Queue a non-blocking copy out of every row; then record its event.
QueueCopies ==
  /\ local[Demand].pc = "using"
  /\ copies' = [queued |-> copies.queued + 1, done |-> copies.done,
                reading |-> copies.reading \cup
                  {[at |-> copies.queued + 1, slot |-> local[Demand].resolved[k], key |-> k] : k \in Held}]
  /\ local' = [local EXCEPT ![Demand].pc = "fencing"]
  /\ UNCHANGED <<tierVars, fence, lock, bytes>>

Fence ==
  /\ local[Demand].pc = "fencing"
  /\ lock = NoThread
  /\ fence' = [s \in Slots |-> IF \E k \in Held : local[Demand].resolved[k] = s THEN copies.queued
                                                               ELSE fence[s]]
  /\ local' = [local EXCEPT ![Demand] = Idle(@.calls)]
  /\ UNCHANGED <<tierVars, lock, bytes, copies>>

\* Or read the rows in place and be done with them.
ReadRows ==
  /\ local[Demand].pc = "using"
  /\ local' = [local EXCEPT ![Demand] = Idle(@.calls)]
  /\ UNCHANGED <<tierVars, fence, lock, bytes, copies>>

Copy ==
  /\ copies.done < copies.queued
  /\ copies' = [copies EXCEPT !.done = @ + 1,
                              !.reading = {r \in @ : r.at > copies.done + 1}]
  /\ UNCHANGED <<tierVars, fence, lock, local, bytes>>

\* A consumer drops a row it cannot use; refused in flight and in the window.
Invalidate(k) ==
  /\ lock = NoThread
  /\ local[Demand].pc = "idle"
  /\ Resident(k)
  /\ slotOf[k] \notin reserved \cup window
  /\ slotOf' = [slotOf EXCEPT ![k] = NoSlot]
  /\ keyOf' = [keyOf EXCEPT ![slotOf[k]] = NoKey]
  /\ reclaimable' = reclaimable \ {k}
  /\ gen' = NextGeneration(slotOf[k])
  /\ free' = IF slotOf[k] \in ToSet(free) THEN free ELSE Append(free, slotOf[k])
  /\ UNCHANGED <<reserved, pending, window, fence, lock, local, bytes, copies>>

-----------------------------------------------------------------------------
Call(t) ==
  \/ PlanHit(t) \/ PlanElsewhere(t) \/ ClaimFree(t) \/ ClaimVictim(t) \/ NoVictim(t)
  \/ Unblock(t) \/ EndPlan(t) \/ PopFences(t) \/ Submit(t) \/ ReclaimUnsubmitted(t)
  \/ EndFill(t) \/ Await(t) \/ Refetch(t) \/ Demote(t)

Next ==
  \/ \E t \in Threads : Call(t) \/ Publish(t) \/ FillFails(t)
  \/ \E t \in Threads : \E q \in Requests[t] : Begin(t, q)
  \/ QueueCopies \/ Fence \/ ReadRows \/ Copy
  \/ \E k \in Keys : Invalidate(k)

Spec == Init /\ [][Next]_vars

(* A thread in a call keeps going, and a read in flight lands or fails.     *)
(* Strongly fair: between two 30 s waits of a blocked demand call the lock  *)
(* is free again and again, and whoever wants it gets it.  The caller gets  *)
(* round to reading its rows, and queued copies get done.                   *)
FairSpec ==
  /\ Spec
  /\ \A t \in Threads : SF_vars(Call(t) \/ Publish(t) \/ FillFails(t))
  /\ WF_vars(QueueCopies \/ Fence \/ ReadRows)
  /\ WF_vars(Copy)

-----------------------------------------------------------------------------
(* Properties.                                                             *)

Batch(t) == ToSet(local[t].batch)

(* The two maps are inverses, and a slot is in exactly one place: occupied, *)
(* once on the free list, or reserved.  No interleaving of claims, failed   *)
(* fills, lost races for a key and invalidations loses or doubles a slot.   *)
EverySlotInOnePlace ==
  LET occupied == {s \in Slots : keyOf[s] # NoKey}
      unused   == ToSet(free)
  IN /\ \A k \in Keys : Resident(k) => keyOf[slotOf[k]] = k
     /\ \A s \in occupied : slotOf[keyOf[s]] = s
     /\ IsInjective(free)
     /\ occupied \cup unused \cup reserved = Slots
     /\ occupied \cap unused = {} /\ occupied \cap reserved = {} /\ unused \cap reserved = {}

(* A key is being filled by at most one call, into a slot no other call is  *)
(* filling, and is not resident meanwhile; and every pending event belongs  *)
(* to a call that will still set it, so that no waiter waits for nothing.   *)
OneFillPerKey ==
  LET open == UNION {{<<t, f>> : f \in Batch(t)} : t \in Threads}
  IN /\ \A x, y \in open : x # y => x[2].key # y[2].key /\ x[2].slot # y[2].slot
     /\ \A x \in open : ~Resident(x[2].key) /\ x[2].slot \in reserved
     /\ {x[2].key : x \in open} = {pending[i].key : i \in DOMAIN pending}

\* Nothing is seen as resident while its slot holds partial or other bytes.
ResidentBytesAreItsOwn == \A s \in Slots : keyOf[s] # NoKey => bytes[s] = keyOf[s]

(* The demand window: from the moment a demand call has resolved a row it is *)
(* not filling itself until its caller is done with it, the row stays where  *)
(* it is, whatever the prefetchers claim and however often the call waits,   *)
(* and does not lose its capacity.                                           *)
WindowHolds ==
  LET d == local[Demand]
  IN /\ \A k \in Keys :
          d.resolved[k] # NoSlot /\ ~d.failed /\ k \notin {f.key : f \in Batch(Demand)}
            => slotOf[k] = d.resolved[k] /\ slotOf[k] \in window
     /\ d.pc \in {"using", "fencing"} => \A k \in d.keys : d.resolved[k] # NoSlot
     /\ \A k \in reclaimable : Resident(k) /\ slotOf[k] \notin window

\* A queued device copy finds, when it runs, the row it was queued for.
CopyReadsItsRow == \A r \in copies.reading : bytes[r.slot] = r.key

\* A demand call that fits the pool is never refused a slot: it can wait.
DemandNeverRefused ==
  ~ (Claiming(Demand) /\ free = <<>> /\ Victims(Demand) = {} /\ pending = <<>>)

(* A row that leaves its slot moves the slot's generation, so that validate *)
(* never accepts a reference taken before.                                  *)
GenerationMovesWithContents ==
  [][\A s \in Slots : keyOf[s] # NoKey /\ keyOf'[s] # keyOf[s] => gen'[s] > gen[s]]_vars

\* Every call ends: no waiter sleeps on an event nobody will set.
CallsEnd == \A t \in Threads : local[t].pc # "idle" ~> local[t].pc = "idle"

(* What _claim_slot's docstring says of the wait: it is for a fill that is  *)
(* in flight, and so ends at disk speed.                                    *)
BlockedOnAFillInFlight ==
  local[Demand].pc = "blocked" /\ ~Fired(local[Demand].ev)
    => \A f \in Batch(Demand) : EventOf(f.key) # local[Demand].ev

(* The cache this implements: a set of rows within the capacity, and rows   *)
(* granted to the demand thread that do not leave while it holds them.      *)
Cache == INSTANCE RowCache WITH
  Capacity <- HotRows,
  resident <- {k \in Keys : Resident(k)},
  asked    <- local[Demand].keys,
  granted  <- local[Demand].pc \in {"using", "fencing"}

ImplementsRowCache == Cache!Spec
=============================================================================
