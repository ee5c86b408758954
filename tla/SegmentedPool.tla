---------------------------- MODULE SegmentedPool ----------------------------
(***************************************************************************)
(* The elastic row pool of src/kernel/segmented_pool.py: a list of device  *)
(* row caches (segments), each with its own arena and buffer, so that a    *)
(* whole buffer can be given back.  The pool places keys and remembers in  *)
(* _where which segment it put them in; replacement is each segment's own, *)
(* so _where may name a segment that has displaced the row meanwhile.      *)
(*                                                                         *)
(* One request of the pool makes several requests of its segments, all     *)
(* under one tag: one per segment for the hits, one for every miss.  The   *)
(* caller then fills the rows it is told to, issues a gather of the placed *)
(* rows to the GPU stream and records the tag, as the comment on StepTag   *)
(* (dev_row_cache.py:60-61) asks of it and the residency engine does with  *)
(* a single cache: the record waits for nothing.  The dry steps of the     *)
(* benches that drive the pool (p2_g4_tribrid.py:233-255) synchronise the  *)
(* device before it, the case in which Execute comes first; the timed ones *)
(* do not wait either, but record before they issue the gathers            *)
(* (p2_g3_elastic.py:158-164), which no tag can then cover.                *)
(*                                                                         *)
(* As in DevRowCache, a tag recorded when n gathers had been issued is     *)
(* done once n have executed.  A key stands for a (layer, expert) pair;    *)
(* the segments' census of steps (StepCensus) does not influence what is   *)
(* modelled here.                                                          *)
(***************************************************************************)
EXTENDS SlotArena, Sequences

CONSTANTS Segments,      \* segments the pool is built with
          MaxSegments,   \* bound on the length of the list
          Period,        \* a common multiple of the numbers of segments
          Budgets,       \* the budgets callers pass
          RoutedSize,    \* routed: the size of request a segment is made for
          SyncedShrink,  \* the caller synchronises the device before it shrinks
          Gone           \* an entry of the list that was shrunk away

Caches == [arena : Arenas, last : Tags \cup {NoTag}, bytes : [Slots -> Experts \cup {NoExpert}]]

(* The protected budget is the one a segment sets for itself, and two rows *)
(* are the least it takes (dev_row_cache.py:140-144).  With two, the guard *)
(* of the pool's own constructor (segmented_pool.py:37) never fires; that  *)
(* a request may be larger than routed, and a segment smaller than two     *)
(* requests, nothing checks.                                               *)
ASSUME SegmentedPoolAssumption ==
  /\ NSlots >= 2
  /\ RoutedSize \in Nat \ {0}
  /\ Protected = IF NSlots > RoutedSize THEN NSlots - RoutedSize ELSE 1
  /\ Gone \notin Caches
  /\ Tags = 1 .. MaxClock
  /\ NoTag = 0
  /\ MaxSegments \in Nat
  /\ Segments \in 1 .. MaxSegments
  /\ Period \in Nat \ {0} /\ \A n \in 1 .. MaxSegments : Period % n = 0
  /\ Budgets \subseteq Nat
  /\ SyncedShrink \in BOOLEAN

VARIABLES
  segs,        \* _segs: arena, last tag, and the expert whose bytes each row holds
  where,       \* _where; 0 for a key that is not in it
  rr,          \* _rr, of which only remainders are used: kept modulo Period
  pc,          \* where the caller is
  step,        \* requests made so far: the tag of the one being served
  calls,       \* requests the running one has still to make of the segments
  placed,      \* its result so far: key, segment and slot
  need,        \* the keys it must fill
  recorded,    \* per tag, the gathers issued when it was recorded, or -1
  issued,      \* gathers issued
  completed,   \* gathers executed
  reads        \* the rows the gathers in flight will read

poolVars   == <<segs, where, rr>>
callVars   == <<pc, step, calls, placed, need>>
streamVars == <<issued, completed, reads>>
vars == <<poolVars, callVars, recorded, streamVars>>

\* The elements of a set of numbers, in ascending order.
Ascending(S) ==
  CHOOSE f \in [1 .. Cardinality(S) -> S] : \A i, j \in DOMAIN f : i < j => f[i] < f[j]

\* What a sequence has at some of its positions, in its order.
Part(q, at) == [n \in 1 .. Cardinality(at) |-> q[Ascending(at)[n]]]

NewSegment == [arena |-> EmptyArena, last |-> NoTag, bytes |-> [s \in Slots |-> NoExpert]]

Alive == {i \in DOMAIN segs : segs[i] # Gone}

Done(rec) == {t \in Tags : rec[t] \in 0 .. completed}

Record(rec, t) == [rec EXCEPT ![t] = IF @ = -1 THEN issued ELSE @]

\* Mutant: a step that never recorded its tag is left alone.
RecordedAsItIs(i) == recorded

\* A segment's last tag is recorded if its step has not come to that yet.
Recorded(i) == IF segs[i].last = NoTag THEN recorded ELSE Record(recorded, segs[i].last)

-----------------------------------------------------------------------------
\* Mutant: a key is looked for in one segment only.
IsHitHere(key) == where[key] \in Alive /\ where[key] = rr + 1

IsHit(key) == where[key] # 0 /\ where[key] \in Alive

HitsAt(q) == {k \in DOMAIN q : IsHit(q[k])}

MissesAt(q) == DOMAIN q \ HitsAt(q)

\* The hits on segment i.
HitsIn(q, i) == {k \in HitsAt(q) : where[q[k]] = i}

(* One request for every segment that holds hits, in the order in which    *)
(* the routed set first names it.  turn is the rotation's counter when the *)
(* request is made.                                                        *)
HitCalls(q) ==
  LET firsts == Part(q, {k \in HitsAt(q) : k = Lowest(HitsIn(q, where[q[k]]))})
  IN [n \in DOMAIN firsts |->
        [seg |-> where[firsts[n]], keys |-> Part(q, HitsIn(q, where[firsts[n]])),
         turn |-> rr]]

\* The misses the budget lets in; none when every segment is gone.
Admitted(q, budget) ==
  IF Alive = {} THEN 0
  ELSE IF budget < Cardinality(MissesAt(q)) THEN budget ELSE Cardinality(MissesAt(q))

\* One request for every admitted miss, rotating over the segments alive.
MissCalls(q, budget) ==
  [n \in 1 .. Admitted(q, budget) |->
     [seg |-> Ascending(Alive)[((rr + n) % Cardinality(Alive)) + 1],
      keys |-> <<Part(q, MissesAt(q))[n]>>,
      turn |-> (rr + n) % Period]]

\* want(): the routed set is split over the segments.
Want(q, budget) ==
  /\ pc = "idle"
  /\ step < MaxClock
  /\ step' = step + 1
  /\ calls' = HitCalls(q) \o MissCalls(q, budget)
  /\ pc' = "ask"
  /\ UNCHANGED <<poolVars, placed, need, recorded, streamVars>>

\* Mutant: a key found in _where is taken to be resident.
ToFillIfNew(keys, c) == {keys[k] : k \in {j \in DOMAIN c : where[keys[j]] = 0}}

ToFill(keys, c) == {keys[k] : k \in DOMAIN c}

(* A segment serves the request: a is its arena after the release of what  *)
(* has been read, c the map of its claim loop.                             *)
Place(a, c) ==
  LET i    == Head(calls).seg
      keys == Head(calls).keys
  IN /\ segs' = [segs EXCEPT ![i].arena = Wanted(a, keys, step, c), ![i].last = step]
     /\ placed' = placed \cup
          {[key |-> keys[k], seg |-> i, slot |-> Assigned(a, keys, c)[k]] : k \in DOMAIN keys}
     /\ need' = need \cup ToFill(keys, c)
     /\ where' = [key \in Experts |-> IF \E k \in DOMAIN keys : keys[k] = key
                                        THEN i ELSE where[key]]
     /\ rr' = Head(calls).turn
     /\ calls' = Tail(calls)
     /\ pc' = "ask"
     /\ UNCHANGED step

Released(i, rec) ==
  IF segs[i].last = NoTag THEN segs[i].arena ELSE Settled(segs[i].arena, Done(rec))

(* The next segment is asked.  (One that was never asked before would      *)
(* raise rather than stall; but it is asked for a single row, and is       *)
(* empty.)                                                                 *)
Ask ==
  /\ pc = "ask"
  /\ calls # <<>>
  /\ LET i == Head(calls).seg
         a == Released(i, Recorded(i))
     IN /\ recorded' = Recorded(i)
        /\ \/ \E c \in Claims(a, Head(calls).keys, step) : Place(a, c)
           \/ /\ Claims(a, Head(calls).keys, step) = {}
              /\ segs' = [segs EXCEPT ![i].arena = a]
              /\ pc' = "stall"
              /\ UNCHANGED <<where, rr, step, calls, placed, need>>
  /\ UNCHANGED streamVars

\* The request is over; its results are gone with it.
Leave ==
  /\ pc' = "idle"
  /\ calls' = <<>>
  /\ placed' = {}
  /\ need' = {}
  /\ UNCHANGED step

(* The retry finds no slot either, and raises through the pool to its      *)
(* caller.  The rows that the request has placed already stay placed.      *)
Raise(a) ==
  /\ Claims(a, Head(calls).keys, step) = {}
  /\ segs' = [segs EXCEPT ![Head(calls).seg].arena = a]
  /\ rr' = Head(calls).turn
  /\ Leave
  /\ UNCHANGED where

\* The stall: every tag the segment's rows wait for, and its last one.
Stall ==
  /\ pc = "stall"
  /\ LET i       == Head(calls).seg
         pending == {segs[i].arena.pending[s] : s \in Slots} \ {NoTag}
         a       == Settled(segs[i].arena, Done(recorded))
     IN /\ \A t \in pending \cup {segs[i].last} : recorded[t] <= completed
        /\ \/ \E c \in Claims(a, Head(calls).keys, step) : Place(a, c)
           \/ Raise(a)
  /\ UNCHANGED <<recorded, streamVars>>

-----------------------------------------------------------------------------
\* The bytes of segment i once the caller has filled what it was told to.
Filled(i) ==
  [s \in Slots |->
     LET fresh == {p \in placed : p.seg = i /\ p.slot = s /\ p.key \in need}
     IN IF fresh = {} THEN segs[i].bytes[s] ELSE (CHOOSE p \in fresh : TRUE).key]

(* The caller fills and issues the gather.  (Were two rows to fill placed  *)
(* in one slot, one of them would be lost: either choice shows it.)        *)
Gather ==
  /\ pc = "ask"
  /\ calls = <<>>
  /\ segs' = [i \in DOMAIN segs |->
                IF i \in Alive THEN [segs[i] EXCEPT !.bytes = Filled(i)] ELSE Gone]
  /\ issued' = issued + 1
  /\ reads' = reads \cup {[at |-> issued + 1, seg |-> p.seg, slot |-> p.slot, key |-> p.key] :
                            p \in placed}
  /\ pc' = "commit"
  /\ UNCHANGED <<where, rr, step, calls, placed, need, recorded, completed>>

\* The tag is recorded behind the gather, which need not have executed.
Commit ==
  /\ pc = "commit"
  /\ recorded' = Record(recorded, step)
  /\ Leave
  /\ UNCHANGED <<poolVars, streamVars>>

\* The caller raises between its gather and its record.
Abandon ==
  /\ pc = "commit"
  /\ Leave
  /\ UNCHANGED <<poolVars, recorded, streamVars>>

\* The stream executes the oldest gather.
Execute ==
  /\ completed < issued
  /\ completed' = completed + 1
  /\ reads' = {r \in reads : r.at > completed + 1}
  /\ UNCHANGED <<poolVars, callVars, recorded, issued>>

-----------------------------------------------------------------------------
Population(i) == Cardinality({key \in Experts : where[key] = i})

\* The n segments with the fewest keys, by index among equals.
Emptiest(n) ==
  {i \in Alive :
     Cardinality({j \in Alive : \/ Population(j) < Population(i)
                                \/ Population(j) = Population(i) /\ j < i}) < n}

\* The tags of the doomed segments, recorded where they were not.
LastTags(doomed) == {segs[i].last : i \in doomed} \ {NoTag}

(* shrink(n): each doomed segment's last tag is recorded if need be and    *)
(* waited for, its keys are dropped and its buffer released.  The elastic  *)
(* bench, its caller, has synchronised the device before it shrinks        *)
(* (p2_g3_elastic.py:167); shrink itself does not ask for that.            *)
Shrink(n) ==
  /\ pc = "idle"
  /\ SyncedShrink => completed = issued
  /\ LET doomed == Emptiest(n)
         rec    == [t \in Tags |-> IF t \in LastTags(doomed) THEN Record(recorded, t)[t]
                                                             ELSE recorded[t]]
     IN /\ \A t \in LastTags(doomed) : rec[t] <= completed
        /\ recorded' = rec
        /\ segs' = [i \in DOMAIN segs |-> IF i \in doomed THEN Gone ELSE segs[i]]
        /\ where' = [key \in Experts |-> IF where[key] \in doomed THEN 0 ELSE where[key]]
  /\ UNCHANGED <<rr, callVars, streamVars>>

\* grow(n): the first n gaps are refilled, then the list gets longer.
Grow(n) ==
  /\ pc = "idle"
  /\ LET gaps  == DOMAIN segs \ Alive
         taken == {i \in gaps : Cardinality({j \in gaps : j < i}) < n}
         more  == n - Cardinality(taken)
     IN /\ Len(segs) + more <= MaxSegments
        /\ segs' = [i \in 1 .. Len(segs) + more |->
                      IF i \in taken \/ i > Len(segs) THEN NewSegment ELSE segs[i]]
  /\ UNCHANGED <<where, rr, callVars, recorded, streamVars>>

Init ==
  /\ segs = [i \in 1 .. Segments |-> NewSegment]
  /\ where = [key \in Experts |-> 0]
  /\ rr = 0
  /\ pc = "idle"
  /\ step = 0
  /\ calls = <<>>
  /\ placed = {}
  /\ need = {}
  /\ recorded = [t \in Tags |-> -1]
  /\ issued = 0
  /\ completed = 0
  /\ reads = {}

Next ==
  \/ \E q \in Requests, budget \in Budgets : Want(q, budget)
  \/ Ask
  \/ Stall
  \/ Gather
  \/ Commit
  \/ Abandon
  \/ Execute
  \/ \E n \in 1 .. MaxSegments : Shrink(n) \/ Grow(n)

Spec == Init /\ [][Next]_vars

-----------------------------------------------------------------------------
(* A placed row holds its key's bytes from the fill until the step's       *)
(* gather has read it: hits on rows that were displaced are refilled, and  *)
(* no row of a step is given away, neither to another key of the same step *)
(* nor to a later one.  (want, segmented_pool.py:92-146.)                  *)
GatherReadsItsExpert ==
  \A r \in reads : r.seg \in Alive => segs[r.seg].bytes[r.slot] = r.key

(* No key has rows in two segments, and _where knows the one it has: a     *)
(* request never fills a second copy, and rows_resident is the upper bound *)
(* the code says it is.                                                    *)
WhereCoversResidents ==
  \A i \in Alive : \A s \in Slots :
    segs[i].arena.holds[s] # NoExpert => where[segs[i].arena.holds[s]] = i

(* Whatever a request stalls on has been recorded by then, abandoned steps *)
(* included, and waiting for it frees enough rows: want never raises.      *)
StallFreesEnough ==
  pc = "stall" =>
    LET c == Head(calls)
        a == Settled(segs[c.seg].arena, {t \in Tags : recorded[t] # -1})
    IN Claims(a, c.keys, step) # {}

(* shrink releases a buffer only when its readers are done: what its       *)
(* docstring says the wait for the segment's last tag is for.              *)
ReadersKeepTheirBuffer == \A r \in reads : r.seg \in Alive
=============================================================================
