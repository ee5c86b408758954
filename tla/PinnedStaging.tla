---------------------------- MODULE PinnedStaging ----------------------------
(***************************************************************************)
(* How small integer tables reach the kernels (src/kernel/nf4_grouped.py): *)
(* to_device_i32 with its two memos, the ring of pinned slots that serves  *)
(* eager calls, the pinned arena that serves calls under CUDA graph        *)
(* capture, and the table memo of build_group_tiles.                       *)
(*                                                                         *)
(* One host thread calls; the copies and kernels it queues run later, in   *)
(* order on each stream.  A copy reads its pinned source when it runs; a   *)
(* captured copy reads it again on every replay.  The device memory of a   *)
(* tensor nobody refers to is given to the next tensor of its stream, as   *)
(* PyTorch's allocator does.                                               *)
(*                                                                         *)
(* A request is the sequence of the host sequences of one call.  The ring, *)
(* the host reuse and the prebound launch are on, as by default; a request *)
(* without any number, which uploads nothing, is left out.  The arena      *)
(* exists before a capture begins: every call touches it.                  *)
(***************************************************************************)
EXTENDS Integers, FiniteSets, Sequences, SequencesExt, FiniteSetsExt

CONSTANTS Streams,
          CaptureStream,      \* torch.cuda.graph captures on this stream
          ReplayStream,       \* and the graphs are replayed on this one
          Requests,           \* what is asked for on each stream
          RingSlots,          \* GNF4_PINNED_RING_SLOTS
          SlotInts,           \* GNF4_PINNED_RING_SLOT_INTS
          ArenaInts,          \* GNF4_PIN_ARENA_INTS
          MemoSize,           \* _UPLOAD_MEMO_SIZE, and the size of _ValueMemo
          Buffers,            \* device memory, numbered
          MaxHeld,            \* bound on the tables one kernel takes
          MaxQueue,           \* bound on the operations queued on a stream
          MaxUploads,         \* bound on the copies to the device
          MaxCaptures,        \* bound on the captures begun
          MaxArena            \* bound on the growth of the arena

ASSUME PinnedStagingAssumption ==
  /\ CaptureStream \in Streams /\ ReplayStream \in Streams
  /\ \A st \in Streams : \A r \in Requests[st] : r \in Seq(Seq(Nat)) /\ FlattenSeq(r) # <<>>
  /\ {RingSlots, SlotInts, ArenaInts, MemoSize, MaxHeld, MaxQueue} \subseteq Nat \ {0}
  /\ Buffers \subseteq Nat
  /\ {MaxUploads, MaxCaptures, MaxArena} \subseteq Nat

VARIABLES
  ring,     \* the pinned slots and the one to take next
  arena,    \* the pinned buffers, the current one last, and how much is owned
  fast,     \* _UPLOAD_FAST, the newest entry first
  memo,     \* _UPLOAD_MEMO, the newest entry last
  tiles,    \* _TILE_MEMO, at most one entry
  held,     \* the tables that the caller has for its next kernel
  capture,  \* whether the host is capturing, and what so far
  graphs,   \* the operations of each finished graph
  uploads,  \* copies queued or done for callers
  captures, \* captures begun
  queue,    \* the operations queued on each stream
  dev,      \* contents of the device memory
  home      \* the stream or the capture whose pool the memory belongs to

memos == <<fast, memo, tiles>>
device == <<queue, dev>>
vars == <<ring, arena, memos, held, capture, graphs, uploads, captures, device, home>>

NoCapture == [on |-> FALSE, ops |-> <<>>]
Capturing == capture.on
Nowhere == <<"unused">>
StreamPool(st) == <<"stream", st>>
CapturePool == <<"capture", captures>>

Lens(r) == [i \in DOMAIN r |-> Len(r[i])]
Total(r) == Len(FlattenSeq(r))

-----------------------------------------------------------------------------
(* Device memory.                                                          *)

Referenced == {e.buf : e \in ToSet(fast) \cup ToSet(memo) \cup ToSet(tiles) \cup ToSet(held)}

\* The memory that a new tensor of a pool gets: what the pool has back first.
FreshBuffers(pool) ==
  LET mine == {b \in Buffers : home[b] = pool /\ b \notin Referenced}
      new  == {b \in Buffers : home[b] = Nowhere}
  IN IF mine # {} THEN {Min(mine)} ELSE IF new # {} THEN {Min(new)} ELSE {}

CountUpload == uploads < MaxUploads /\ uploads' = uploads + 1

\* A copy or a kernel goes to the stream, or into the graph under capture.
Enqueued(st, ops) ==
  IF Capturing
  THEN /\ Len(capture.ops) + Len(ops) <= MaxQueue
       /\ capture' = [capture EXCEPT !.ops = @ \o ops]
       /\ queue' = queue
  ELSE /\ Len(queue[st]) + Len(ops) <= MaxQueue
       /\ queue' = [queue EXCEPT ![st] = @ \o ops]
       /\ capture' = capture

-----------------------------------------------------------------------------
(* The memos.                                                              *)

UploadKey(r, st) == <<Lens(r), FlattenSeq(r), st>>

Entry(key, r, b) == [key |-> key, lens |-> Lens(r), buf |-> b]

\* Where a memo has the key.
Found(entries, key) == {i \in DOMAIN entries : entries[i].key = key}

FastPut(e) == SubSeq(<<e>> \o fast, 1, Min({MemoSize, Len(fast) + 1}))

MemoPut(e) ==
  LET all == Append(memo, e)
  IN IF Len(all) > MemoSize THEN Tail(all) ELSE all

MovedToEnd(i) == Append(RemoveAt(memo, i), memo[i])

(* What the caller gets: views of the memory, cut at the lengths.  The     *)
(* memo of build_group_tiles asks neither for the stream nor for a         *)
(* capture, so what it gives may be foreign to the call.                   *)
Holds(st, r, e, foreign) ==
  held' = Append(held, [buf |-> e.buf, lens |-> e.lens, want |-> r, on |-> st, foreign |-> foreign])

\* The pool that a call on st takes memory from.
PoolOf(st) == IF Capturing THEN CapturePool ELSE StreamPool(st)

-----------------------------------------------------------------------------
(* One upload.  form says how the caller's sequences come: "tiles" from    *)
(* build_group_tiles, "lists" as plain lists, "other" as anything else,    *)
(* which the value memo does not take.                                     *)

Forms == {"tiles", "lists", "other"}

MayCall(st, r, form) ==
  /\ Len(held) < MaxHeld
  /\ \A t \in ToSet(held) : t.on = st
  /\ Capturing => st = CaptureStream

TileMissed(r, form) == form = "tiles" => Found(tiles, r) = {}
FastMissed(r, st, form) == form = "other" \/ Found(fast, UploadKey(r, st)) = {}

TilesAfter(r, e, form) ==
  tiles' = IF form = "tiles" THEN <<[e EXCEPT !.key = r]>> ELSE tiles

FastAfter(e, form) == fast' = IF form = "other" THEN fast ELSE FastPut(e)

TileHit(st, r) ==
  /\ MayCall(st, r, "tiles")
  /\ \E i \in Found(tiles, r) : Holds(st, r, tiles[i], home[tiles[i].buf] # PoolOf(st))
  /\ UNCHANGED <<ring, arena, memos, capture, graphs, uploads, captures, device, home>>

FastHit(st, r, form) ==
  /\ MayCall(st, r, form)
  /\ ~Capturing
  /\ TileMissed(r, form)
  /\ form # "other"
  /\ \E i \in Found(fast, UploadKey(r, st)) :
       Holds(st, r, fast[i], FALSE) /\ TilesAfter(r, fast[i], form)
  /\ UNCHANGED <<ring, arena, fast, memo, capture, graphs, uploads, captures, device, home>>

MemoHit(st, r, form) ==
  /\ MayCall(st, r, form)
  /\ ~Capturing
  /\ TileMissed(r, form)
  /\ FastMissed(r, st, form)
  /\ \E i \in Found(memo, UploadKey(r, st)) :
       /\ Holds(st, r, memo[i], FALSE)
       /\ memo' = MovedToEnd(i)
       /\ FastAfter(memo[i], form)
       /\ TilesAfter(r, memo[i], form)
  /\ UNCHANGED <<ring, arena, capture, graphs, uploads, captures, device, home>>

MissesAll(st, r, form) ==
  /\ ~Capturing
  /\ TileMissed(r, form)
  /\ FastMissed(r, st, form)
  /\ Found(memo, UploadKey(r, st)) = {}

Uploaded(st, r, form, b) ==
  LET e == Entry(UploadKey(r, st), r, b)
  IN /\ Holds(st, r, e, FALSE)
     /\ home' = [home EXCEPT ![b] = StreamPool(st)]
     /\ memo' = MemoPut(e)
     /\ FastAfter(e, form)
     /\ TilesAfter(r, e, form)

\* Mutant: the event is not asked.
WritableUnasked(s) == s \in DOMAIN ring.slot

(* A slot may be rewritten when its event, recorded right after the copy   *)
(* out of it, has completed: no stream has that copy in its queue.         *)
Writable(s) ==
  \A st \in Streams : \A op \in ToSet(queue[st]) :
    ~(op.op = "copy" /\ op.pinned = "ring" /\ op.slot = s)

(* _PinnedRing.stage; the host waits here while the slot is in flight.     *)
Stage(st, r, form) ==
  LET s == ring.next
  IN /\ MayCall(st, r, form)
     /\ MissesAll(st, r, form)
     /\ Total(r) <= SlotInts
     /\ Writable(s)
     /\ CountUpload
     /\ ring' = [slot |-> [ring.slot EXCEPT ![s] = FlattenSeq(r)], next |-> (s + 1) % RingSlots]
     /\ \E b \in FreshBuffers(StreamPool(st)) :
          /\ Enqueued(st, <<[op |-> "copy", pinned |-> "ring", slot |-> s, first |-> 1,
                             count |-> Total(r), buf |-> b]>>)
          /\ Uploaded(st, r, form, b)
     /\ UNCHANGED <<arena, graphs, captures, dev>>

(* A table larger than a slot: the copy from pageable memory waits for all *)
(* that is queued before it.                                               *)
CopyPageable(st, r, form) ==
  /\ MayCall(st, r, form)
  /\ MissesAll(st, r, form)
  /\ Total(r) > SlotInts
  /\ queue[st] = <<>>
  /\ CountUpload
  /\ \E b \in FreshBuffers(StreamPool(st)) :
       /\ dev' = [dev EXCEPT ![b] = FlattenSeq(r)]
       /\ Uploaded(st, r, form, b)
  /\ UNCHANGED <<ring, arena, capture, graphs, captures, queue>>

-----------------------------------------------------------------------------
(* Under capture: the arena.                                               *)

Host == Last(arena.host)

Fits(r) == arena.off + Total(r) <= Len(Host)

Written(buffer, first, ints) ==
  [i \in DOMAIN buffer |-> IF i \in first .. first + Len(ints) - 1 THEN ints[i - first + 1] ELSE buffer[i]]

TakeSlice(st, r, form) ==
  /\ MayCall(st, r, form)
  /\ Capturing
  /\ TileMissed(r, form)
  /\ Fits(r)
  /\ CountUpload
  /\ arena' = [host |-> [arena.host EXCEPT ![Len(arena.host)] = Written(@, arena.off + 1, FlattenSeq(r))],
               off  |-> arena.off + Total(r)]
  /\ \E b \in FreshBuffers(CapturePool) :
       LET e == Entry(r, r, b)
       IN /\ Enqueued(st, <<[op |-> "copy", pinned |-> "arena", slot |-> Len(arena.host),
                             first |-> arena.off + 1, count |-> Total(r), buf |-> b]>>)
          /\ home' = [home EXCEPT ![b] = CapturePool]
          /\ Holds(st, r, e, FALSE)
          /\ TilesAfter(r, e, form)
  /\ UNCHANGED <<ring, fast, memo, graphs, captures, dev>>

\* The memory of a capture that failed is given back, what a memo holds apart.
Released ==
  [b \in Buffers |-> IF home[b] = CapturePool /\ b \notin {e.buf : e \in ToSet(tiles)} THEN Nowhere ELSE home[b]]

(* The arena has no room: the call raises, and the capture is void.        *)
Refuse(st, r, form) ==
  /\ MayCall(st, r, form)
  /\ Capturing
  /\ TileMissed(r, form)
  /\ ~Fits(r)
  /\ capture' = NoCapture
  /\ held' = <<>>
  /\ home' = Released
  /\ UNCHANGED <<ring, arena, memos, graphs, uploads, captures, device>>

\* _grow: the old buffer is kept, what is owned is carried over.
Grown(need) ==
  [arena EXCEPT !.host =
     Append(@, [i \in 1 .. Max({2 * Len(Host), need}) |-> IF i <= arena.off THEN Host[i] ELSE 0])]

(* reserve: at any time but under capture, where it raises.                *)
Reserve(more) ==
  /\ ~Capturing
  /\ arena.off + more > Len(Host)
  /\ Max({2 * Len(Host), arena.off + more}) <= MaxArena
  /\ arena' = Grown(arena.off + more)
  /\ UNCHANGED <<ring, memos, held, capture, graphs, uploads, captures, device, home>>

-----------------------------------------------------------------------------
(* The callers, the captures and the streams.                              *)

Launch ==
  /\ held # <<>>
  /\ Enqueued(held[1].on, <<[op |-> "kernel", reads |-> held]>>)
  /\ held' = <<>>
  /\ UNCHANGED <<ring, arena, memos, graphs, uploads, captures, dev, home>>

(* torch.cuda.graph waits for the device before it captures.               *)
BeginCapture ==
  /\ ~Capturing /\ held = <<>>
  /\ captures < MaxCaptures
  /\ \A st \in Streams : queue[st] = <<>>
  /\ capture' = [on |-> TRUE, ops |-> <<>>]
  /\ captures' = captures + 1
  /\ UNCHANGED <<ring, arena, memos, held, graphs, uploads, device, home>>

EndCapture ==
  /\ Capturing /\ held = <<>> /\ capture.ops # <<>>
  /\ graphs' = Append(graphs, capture.ops)
  /\ capture' = NoCapture
  /\ UNCHANGED <<ring, arena, memos, held, uploads, captures, device, home>>

Replay(g) ==
  /\ ~Capturing /\ held = <<>>
  /\ Len(queue[ReplayStream]) + Len(graphs[g]) <= MaxQueue
  /\ queue' = [queue EXCEPT ![ReplayStream] = @ \o graphs[g]]
  /\ UNCHANGED <<ring, arena, memos, held, capture, graphs, uploads, captures, dev, home>>

Pinned(op) ==
  IF op.pinned = "ring" THEN ring.slot[op.slot]
  ELSE SubSeq(arena.host[op.slot], op.first, op.first + op.count - 1)

Execute(st) ==
  /\ queue[st] # <<>>
  /\ LET op == Head(queue[st])
     IN dev' = IF op.op = "copy" THEN [dev EXCEPT ![op.buf] = Pinned(op)] ELSE dev
  /\ queue' = [queue EXCEPT ![st] = Tail(@)]
  /\ UNCHANGED <<ring, arena, memos, held, capture, graphs, uploads, captures, home>>

-----------------------------------------------------------------------------
Init ==
  /\ ring = [slot |-> [s \in 0 .. RingSlots - 1 |-> <<>>], next |-> 0]
  /\ arena = [host |-> <<[i \in 1 .. ArenaInts |-> 0]>>, off |-> 0]
  /\ fast = <<>> /\ memo = <<>> /\ tiles = <<>>
  /\ held = <<>>
  /\ capture = NoCapture
  /\ graphs = <<>>
  /\ uploads = 0 /\ captures = 0
  /\ queue = [st \in Streams |-> <<>>]
  /\ dev = [b \in Buffers |-> <<>>]
  /\ home = [b \in Buffers |-> Nowhere]

Next ==
  \/ \E st \in Streams : \E r \in Requests[st] :
       \/ TileHit(st, r)
       \/ \E form \in Forms :
            \/ FastHit(st, r, form)
            \/ MemoHit(st, r, form)
            \/ Stage(st, r, form)
            \/ CopyPageable(st, r, form)
            \/ TakeSlice(st, r, form)
            \/ Refuse(st, r, form)
  \/ \E r \in Requests[CaptureStream] : Reserve(Total(r))
  \/ Launch
  \/ BeginCapture
  \/ EndCapture
  \/ \E g \in DOMAIN graphs : Replay(g)
  \/ \E st \in Streams : Execute(st)

Spec == Init /\ [][Next]_vars

-----------------------------------------------------------------------------
\* The tables that the kernel at the head of a stream's queue reads.
ReadNow(st) ==
  IF queue[st] # <<>> /\ Head(queue[st]).op = "kernel" THEN ToSet(Head(queue[st]).reads) ELSE {}

HasItsValues(t) == dev[t.buf] = FlattenSeq(t.want) /\ t.lens = Lens(t.want)

(* A kernel about to run finds in device memory the numbers its call was   *)
(* given, cut as they were given: eager or captured, on the first run or   *)
(* on a replay, whichever memo answered.  ("identical values on every      *)
(* path", the docstring of to_device_i32.)                                 *)
KernelsReadTheirValues == \A st \in Streams : \A t \in ReadNow(st) : HasItsValues(t)

(* The same of every table but those that the memo of build_group_tiles,   *)
(* which asks for neither, gives to another stream than the one it was     *)
(* uploaded for, or into or out of a capture: whatever that memo gives     *)
(* away, it spoils no other table.                                         *)
OwnTablesRead == \A st \in Streams : \A t \in ReadNow(st) : ~t.foreign => HasItsValues(t)

=============================================================================
