------------------------- MODULE PinnedStagingProofs -------------------------
(***************************************************************************)
(* A kernel finds the numbers its call passed, for every number of         *)
(* streams, slots, memo entries and captures, in every table but those     *)
(* that the memo of build_group_tiles gives away to another stream, or     *)
(* into or out of a capture.  No more is true.                             *)
(*                                                                         *)
(* The argument: each tensor is memory of one pool, and only the stream,   *)
(* or the capture, of that pool writes it.  So what a kernel will find     *)
(* depends on its own queue alone: on the last copy before it to the       *)
(* memory it reads, and on what the copy's pinned source holds.  Memory    *)
(* is given out again when nobody on the host refers to it; then the       *)
(* kernels that still read it are earlier in the same queue.               *)
(***************************************************************************)
EXTENDS PinnedStaging, SequenceTheorems, WellFoundedInduction, TLAPS

\* A table of the call's own stream or capture.
Trusted(t) == ~t.foreign

Pools == {Nowhere} \cup {StreamPool(st) : st \in Streams} \cup {<<"capture", k>> : k \in Nat}

Tables == [buf : Buffers, lens : Seq(Nat), want : Seq(Seq(Nat)), on : Streams, foreign : BOOLEAN]

CopyOps == [op : {"copy"}, pinned : {"ring", "arena"}, slot : Nat, first : Nat, count : Nat, buf : Buffers]
KernelOps == [op : {"kernel"}, reads : Seq(Tables)]
Ops == CopyOps \cup KernelOps

UploadKeys == Seq(Nat) \X Seq(Nat) \X Streams
Entries == [key : UploadKeys, lens : Seq(Nat), buf : Buffers]
TileEntries == [key : Seq(Seq(Nat)), lens : Seq(Nat), buf : Buffers]

Typed ==
  /\ ring = [slot |-> [s \in 0 .. RingSlots - 1 |-> ring.slot[s]], next |-> ring.next]
  /\ ring.next \in 0 .. RingSlots - 1
  /\ arena \in [host : Seq(Seq(Nat)), off : Nat]
  /\ arena.host # <<>> /\ arena.off <= Len(Host)
  /\ fast \in Seq(Entries) /\ memo \in Seq(Entries) /\ tiles \in Seq(TileEntries)
  /\ held \in Seq(Tables)
  /\ capture \in [on : BOOLEAN, ops : Seq(Ops)]
  /\ graphs \in Seq(Seq(Ops))
  /\ captures \in Nat /\ (Capturing => captures > 0)
  /\ queue \in [Streams -> Seq(Ops)]
  /\ dev = [b \in Buffers |-> dev[b]]
  /\ home \in [Buffers -> Pools]

-----------------------------------------------------------------------------
\* What a copy reads and where it puts it, given what the memories hold.
Now == [ring |-> ring.slot, host |-> arena.host, dev |-> dev]

Source(m, op) ==
  IF op.pinned = "ring" THEN m.ring[op.slot]
  ELSE SubSeq(m.host[op.slot], op.first, op.first + op.count - 1)

Copies(op, b) == op.op = "copy" /\ op.buf = b

Reads(op, b) == op.op = "kernel" /\ \E t \in ToSet(op.reads) : Trusted(t) /\ t.buf = b

Touches(op, b) == Copies(op, b) \/ Reads(op, b)

\* The first n operations of q write v to b, and nothing after it.
Brings(m, q, n, b, v) ==
  \E j \in 1 .. n : /\ Copies(q[j], b) /\ Source(m, q[j]) = v
                    /\ \A k \in j + 1 .. n : ~Copies(q[k], b)

\* When the first n operations of q have run, b holds v.
Finds(m, q, n, b, v) ==
  \/ Brings(m, q, n, b, v)
  \/ m.dev[b] = v /\ \A k \in 1 .. n : ~Copies(q[k], b)

\* Memory of a capture that has ended.
Sealed(b) ==
  \E k \in 1 .. captures : home[b] = <<"capture", k>> /\ (Capturing => k # captures)

-----------------------------------------------------------------------------
\* The copy's pinned source is not written again while it may be read.
Owned(a, op) ==
  /\ op.slot \in DOMAIN a.host
  /\ op.first > 0
  /\ op.first + op.count - 1 <= Len(a.host[op.slot])
  /\ op.slot = Len(a.host) => op.first + op.count - 1 <= a.off

FromArena(a, op) == op.op = "copy" => op.pinned = "arena" /\ Owned(a, op)

SourceOwned(a, op) ==
  FromArena(a, op) \/ (op.op = "copy" /\ op.pinned = "ring" /\ op.slot \in 0 .. RingSlots - 1)

SourcesOwned ==
  /\ \A st \in Streams : \A i \in DOMAIN queue[st] : SourceOwned(arena, queue[st][i])
  /\ \A g \in DOMAIN graphs : \A i \in DOMAIN graphs[g] : FromArena(arena, graphs[g][i])
  /\ \A i \in DOMAIN capture.ops : FromArena(arena, capture.ops[i])

(* Who touches what: a stream the memory of its own pool, the replaying    *)
(* one that of finished captures, a capture its own.                       *)
PoolsApart ==
  /\ \A st \in Streams : \A i \in DOMAIN queue[st], b \in Buffers :
       Touches(queue[st][i], b) =>
         home[b] = StreamPool(st) \/ (st = ReplayStream /\ Sealed(b))
  /\ \A g \in DOMAIN graphs : \A i \in DOMAIN graphs[g], b \in Buffers :
       Touches(graphs[g][i], b) => Sealed(b)
  /\ \A i \in DOMAIN capture.ops, b \in Buffers :
       Touches(capture.ops[i], b) => home[b] = CapturePool
  /\ ~Capturing => capture.ops = <<>>

\* A tensor a caller on st gets: its memory, with v once the queue has run.
Ready(st, b, v) ==
  /\ st \in Streams /\ b \in Buffers /\ home[b] = StreamPool(st)
  /\ Finds(Now, queue[st], Len(queue[st]), b, v)

ReadyInCapture(b, v) ==
  /\ b \in Buffers /\ home[b] = CapturePool
  /\ Brings(Now, capture.ops, Len(capture.ops), b, v)

(* A table for build_group_tiles: right in the pool it was uploaded in.    *)
TileRight(e) ==
  /\ home[e.buf] # Nowhere
  /\ e.lens = Lens(e.key)
  /\ \A k \in Nat : home[e.buf] = <<"capture", k>> => k <= captures
  /\ \A st \in Streams : home[e.buf] = StreamPool(st) => Ready(st, e.buf, FlattenSeq(e.key))
  /\ Capturing /\ home[e.buf] = CapturePool => ReadyInCapture(e.buf, FlattenSeq(e.key))

MemosRight ==
  /\ \A e \in ToSet(fast) \cup ToSet(memo) :
       e.lens = e.key[1] /\ Ready(e.key[3], e.buf, e.key[2])
  /\ \A e \in ToSet(tiles) : TileRight(e)

HeldRight ==
  \A t \in ToSet(held) :
    /\ home[t.buf] # Nowhere
    /\ t.on = held[1].on
    /\ Trusted(t) =>
         /\ t.lens = Lens(t.want)
         /\ IF Capturing THEN ReadyInCapture(t.buf, FlattenSeq(t.want))
                         ELSE Ready(t.on, t.buf, FlattenSeq(t.want))

QueuesRight ==
  \A st \in Streams : \A i \in DOMAIN queue[st] :
    queue[st][i].op = "kernel" =>
      \A t \in ToSet(queue[st][i].reads) :
        Trusted(t) => t.lens = Lens(t.want) /\ Finds(Now, queue[st], i - 1, t.buf, FlattenSeq(t.want))

SelfContained(m, q) ==
  \A i \in DOMAIN q :
    q[i].op = "kernel" =>
      \A t \in ToSet(q[i].reads) :
        Trusted(t) => t.lens = Lens(t.want) /\ Brings(m, q, i - 1, t.buf, FlattenSeq(t.want))

GraphsRight ==
  SelfContained(Now, capture.ops) /\ \A g \in DOMAIN graphs : SelfContained(Now, graphs[g])

IInv ==
  Typed /\ SourcesOwned /\ PoolsApart /\ MemosRight /\ HeldRight /\ QueuesRight /\ GraphsRight

-----------------------------------------------------------------------------
(* Numbers have a least one.                                               *)
LEMMA LeastIs ==
  ASSUME NEW S, S \subseteq Nat, S # {}
  PROVE  \E m \in S : \A t \in S : m <= t
<1> DEFINE R == {p \in Nat \X Nat : p[1] < p[2]}
<1>1. IsWellFoundedOn(R, Nat)
  BY NatLessThanWellFounded DEF OpToRel
<1> HIDE DEF R
<1>2. PICK m \in S : \A t \in S : ~(<<t, m>> \in R)
  BY <1>1, WFMin
<1>3. \A t \in S : ~(t < m)
  BY <1>2 DEF R
<1> QED
  BY <1>3

(* A request's sequences, one after the other, are a sequence: there is no *)
(* shortest beginning of it for which they are not.                        *)
LEMMA FlatIs ==
  ASSUME NEW r \in Seq(Seq(Nat)), r # <<>>
  PROVE  FlattenSeq(r) \in Seq(Nat)
<1> DEFINE n == Len(r)
           After(f, i) == IF i = 1 THEN r[i] ELSE f[i - 1] \o r[i]
           Joins(f, k) == f \in [1 .. k -> Seq(Nat)] /\ \A i \in 1 .. k : f[i] = After(f, i)
           Bad == {k \in Nat : k <= n /\ ~\E f : Joins(f, k)}
<1>1. n \in Nat /\ n > 0 /\ \A i \in 1 .. n : r[i] \in Seq(Nat)
  OBVIOUS
<1>2. Bad = {}
  <2>1. SUFFICES ASSUME Bad # {}
                 PROVE  FALSE
    OBVIOUS
  <2>2. PICK k \in Bad : \A j \in Bad : k <= j
    <3>1. Bad \subseteq Nat
      OBVIOUS
    <3> HIDE DEF Bad
    <3> QED
      BY <2>1, <3>1, LeastIs
  <2>3. k \in Nat /\ k <= n /\ ~\E f : Joins(f, k)
    OBVIOUS
  <2>4. k # 0
    <3>1. Joins([i \in 1 .. 0 |-> <<>>], 0)
      OBVIOUS
    <3> QED
      BY <2>3, <3>1
  <2>5. PICK f : Joins(f, k - 1)
    <3>1. k - 1 \in Nat /\ k - 1 <= n /\ ~(k <= k - 1) /\ k - 1 \notin Bad
      <4>1. k - 1 \in Nat /\ k - 1 <= n /\ ~(k <= k - 1)
        BY <1>1, <2>3, <2>4
      <4> HIDE DEF Bad
      <4> QED
        BY <2>2, <4>1
    <3> HIDE DEF Joins, n
    <3> QED
      BY <3>1
  <2> DEFINE g == [i \in 1 .. k |-> IF i = k THEN After(f, k) ELSE f[i]]
  <2>6. After(f, k) \in Seq(Nat)
    <3>1. CASE k = 1
      BY <1>1, <2>3, <3>1
    <3>2. CASE k # 1
      <4>1. f[k - 1] \in Seq(Nat) /\ r[k] \in Seq(Nat)
        BY <1>1, <2>3, <2>4, <2>5, <3>2
      <4> QED
        BY <3>2, <4>1
    <3> QED
      BY <3>1, <3>2
  <2>7. g \in [1 .. k -> Seq(Nat)]
    <3> HIDE DEF After
    <3> QED
      BY <2>3, <2>4, <2>5, <2>6
  <2>8. ASSUME NEW i \in 1 .. k
        PROVE  g[i] = After(g, i)
    <3>1. CASE i = k
      BY <2>3, <2>4, <3>1
    <3>2. CASE i # k
      <4>1. g[i] = f[i] /\ f[i] = After(f, i)
        <5>1. g[i] = f[i]
          BY <3>2
        <5>2. k \in Nat /\ i \in 1 .. k - 1
          BY <2>3, <3>2
        <5> HIDE DEF After, g
        <5> QED
          BY <2>5, <5>1, <5>2
      <4>2. i # 1 => i - 1 \in 1 .. k /\ i - 1 # k
        BY <2>3, <3>2
      <4>3. i # 1 => g[i - 1] = f[i - 1]
        BY <4>2
      <4> HIDE DEF g
      <4> QED
        BY <4>1, <4>3
    <3> QED
      BY <3>1, <3>2
  <2> QED
    BY <2>3, <2>7, <2>8
<1>3. PICK f : Joins(f, n)
  <2>1. n \in Nat /\ n <= n
    BY <1>1
  <2>2. n \notin Bad
    <3> HIDE DEF Bad, n
    <3> QED
      BY <1>2
  <2> HIDE DEF Joins, n
  <2> QED
    BY <2>1, <2>2
<1> DEFINE Step(h) == [i \in 1 .. n |-> After(h, i)]
           h == CHOOSE h : h = Step(h)
<1>4. f = Step(f)
  BY <1>3
<1>5. h = Step(h)
  BY <1>4
<1>6. FlattenSeq(r) = h[n]
  BY <1>1 DEF FlattenSeq
<1> DEFINE Odd == {i \in 1 .. n : h[i] \notin Seq(Nat)}
<1> HIDE DEF h
<1>7. \A i \in 1 .. n : h[i] = After(h, i)
  BY <1>5
<1>8. Odd = {}
  <2>1. SUFFICES ASSUME Odd # {}
                 PROVE  FALSE
    OBVIOUS
  <2>2. PICK i \in Odd : \A j \in Odd : i <= j
    <3>1. Odd \subseteq Nat
      OBVIOUS
    <3> HIDE DEF Odd
    <3> QED
      BY <2>1, <3>1, LeastIs
  <2>3. CASE i = 1
    BY <1>1, <1>7, <2>3
  <2>4. CASE i # 1
    <3>1. i - 1 \in 1 .. n /\ i - 1 \notin Odd /\ i \in 1 .. n
      BY <1>1, <2>2, <2>4
    <3>2. h[i - 1] \in Seq(Nat) /\ r[i] \in Seq(Nat)
      BY <1>1, <3>1
    <3>3. h[i] = h[i - 1] \o r[i] /\ h[i] \notin Seq(Nat)
      BY <1>7, <2>4, <3>1
    <3> QED
      BY <3>2, <3>3
  <2> QED
    BY <2>3, <2>4
<1>9. n \in 1 .. n /\ n \notin Odd
  BY <1>1, <1>8
<1> QED
  BY <1>6, <1>9

-----------------------------------------------------------------------------
(* What a memo holds after it has changed.                                 *)
LEMMA MembersOf ==
  ASSUME NEW S, NEW s \in Seq(S), NEW e \in S
  PROVE  /\ ToSet(s) \subseteq S
         /\ Append(s, e) \in Seq(S) /\ ToSet(Append(s, e)) \subseteq ToSet(s) \cup {e}
         /\ s # <<>> => Tail(s) \in Seq(S) /\ ToSet(Tail(s)) \subseteq ToSet(s)
<1>1. ToSet(s) \subseteq S
  BY DEF ToSet
<1>2. Append(s, e) \in Seq(S) /\ ToSet(Append(s, e)) \subseteq ToSet(s) \cup {e}
  BY DEF ToSet
<1>3. ASSUME s # <<>>
      PROVE  Tail(s) \in Seq(S) /\ ToSet(Tail(s)) \subseteq ToSet(s)
  BY <1>3 DEF ToSet
<1> QED
  BY <1>1, <1>2, <1>3

LEMMA MovedMembers ==
  ASSUME NEW S, NEW s \in Seq(S), NEW i \in DOMAIN s
  PROVE  /\ Append(RemoveAt(s, i), s[i]) \in Seq(S)
         /\ ToSet(Append(RemoveAt(s, i), s[i])) \subseteq ToSet(s)
<1> DEFINE a == SubSeq(s, 1, i - 1)
           z == SubSeq(s, i + 1, Len(s))
<1>1. i \in 1 .. Len(s) /\ Len(s) \in Nat /\ s[i] \in S /\ s[i] \in ToSet(s)
  BY DEF ToSet
<1>2. a \in Seq(S) /\ \A k \in 1 .. Len(a) : a[k] \in ToSet(s)
  <2>1. a \in Seq(S) /\ Len(a) = i - 1 /\ \A k \in 1 .. i - 1 : a[k] = s[k] /\ k \in DOMAIN s
    BY <1>1
  <2> QED
    BY <2>1 DEF ToSet
<1>3. z \in Seq(S) /\ \A k \in 1 .. Len(z) : z[k] \in ToSet(s)
  <2>1. z \in Seq(S) /\ Len(z) = Len(s) - i
    BY <1>1
  <2>2. \A k \in 1 .. Len(s) - i : z[k] = s[i + k] /\ i + k \in DOMAIN s
    BY <1>1
  <2> QED
    BY <2>1, <2>2 DEF ToSet
<1> HIDE DEF a, z
<1>4. a \o z \in Seq(S) /\ \A k \in 1 .. Len(a \o z) : (a \o z)[k] \in ToSet(s)
  BY <1>2, <1>3
<1>5. RemoveAt(s, i) = a \o z
  BY DEF RemoveAt, a, z
<1> DEFINE m == a \o z
<1>6. m \in Seq(S) /\ \A k \in 1 .. Len(m) : m[k] \in ToSet(s)
  BY <1>4
<1> HIDE DEF m
<1>7. Append(m, s[i]) \in Seq(S) /\ \A k \in 1 .. Len(m) + 1 : Append(m, s[i])[k] \in ToSet(s)
  BY <1>1, <1>6
<1>8. DOMAIN Append(m, s[i]) = 1 .. Len(m) + 1
  BY <1>1, <1>6
<1> QED
  BY <1>5, <1>7, <1>8 DEF m, ToSet

LEMMA FrontMembers ==
  ASSUME NEW S, NEW s \in Seq(S), NEW e \in S, NEW n \in 0 .. Len(s) + 1
  PROVE  /\ SubSeq(<<e>> \o s, 1, n) \in Seq(S)
         /\ ToSet(SubSeq(<<e>> \o s, 1, n)) \subseteq ToSet(s) \cup {e}
<1> DEFINE a == <<e>> \o s
<1>1. a \in Seq(S) /\ Len(a) = Len(s) + 1 /\ \A k \in 1 .. Len(s) + 1 : a[k] \in ToSet(s) \cup {e}
  <2>1. a \in Seq(S) /\ Len(a) = Len(s) + 1 /\ a[1] = e
    OBVIOUS
  <2>2. \A k \in 1 .. Len(s) + 1 : k # 1 => a[k] = s[k - 1] /\ k - 1 \in DOMAIN s
    OBVIOUS
  <2> QED
    BY <2>1, <2>2 DEF ToSet
<1> HIDE DEF a
<1>2. /\ SubSeq(a, 1, n) \in Seq(S) /\ DOMAIN SubSeq(a, 1, n) = 1 .. n
      /\ \A k \in 1 .. n : SubSeq(a, 1, n)[k] = a[k] /\ k \in 1 .. Len(s) + 1
  BY <1>1
<1> QED
  BY <1>1, <1>2 DEF ToSet, a

-----------------------------------------------------------------------------
(* What the operations before the n-th do to b depends on them, on the     *)
(* sources of their copies to b, and on what b holds.                      *)
LEMMA FindsSame ==
  ASSUME NEW m, NEW m2, NEW q, NEW q2, NEW n \in Nat, NEW b, NEW v,
         \A k \in 1 .. n : q2[k] = q[k],
         \A k \in 1 .. n : Copies(q[k], b) => Source(m2, q[k]) = Source(m, q[k])
  PROVE  /\ Brings(m, q, n, b, v) => Brings(m2, q2, n, b, v)
         /\ m2.dev[b] = m.dev[b] /\ Finds(m, q, n, b, v) => Finds(m2, q2, n, b, v)
<1>1. \A j \in 1 .. n : \A k \in j + 1 .. n : k \in 1 .. n
  OBVIOUS
<1>2. Brings(m, q, n, b, v) => Brings(m2, q2, n, b, v)
  BY <1>1 DEF Brings
<1> QED
  BY <1>2 DEF Finds

(* Operations that do not write b do not matter.                           *)
LEMMA FindsPast ==
  ASSUME NEW m, NEW q, NEW n \in Nat, NEW l \in Nat, n <= l, NEW b, NEW v,
         \A k \in n + 1 .. l : ~Copies(q[k], b)
  PROVE  /\ Brings(m, q, n, b, v) => Brings(m, q, l, b, v)
         /\ Finds(m, q, n, b, v) => Finds(m, q, l, b, v)
<1>1. \A k \in 1 .. l : k \in 1 .. n \/ k \in n + 1 .. l
  OBVIOUS
<1>2. Brings(m, q, n, b, v) => Brings(m, q, l, b, v)
  <2>1. SUFFICES ASSUME NEW j \in 1 .. n, Copies(q[j], b), Source(m, q[j]) = v,
                        \A k \in j + 1 .. n : ~Copies(q[k], b)
                 PROVE  Brings(m, q, l, b, v)
    BY DEF Brings
  <2>2. j \in 1 .. l /\ \A k \in j + 1 .. l : k \in j + 1 .. n \/ k \in n + 1 .. l
    OBVIOUS
  <2> QED
    BY <2>1, <2>2 DEF Brings
<1>3. (\A k \in 1 .. n : ~Copies(q[k], b)) => \A k \in 1 .. l : ~Copies(q[k], b)
  BY <1>1
<1> QED
  BY <1>2, <1>3 DEF Finds

(* A copy brings what it reads.                                            *)
LEMMA CopyBrings ==
  ASSUME NEW m, NEW q, NEW n \in Nat, n > 0, NEW b, Copies(q[n], b)
  PROVE  Brings(m, q, n, b, Source(m, q[n]))
<1>1. n \in 1 .. n /\ \A k \in n + 1 .. n : FALSE
  OBVIOUS
<1> QED
  BY <1>1 DEF Brings

(* What a sequence of operations brings, it brings wherever it runs.       *)
LEMMA BringsLater ==
  ASSUME NEW m, NEW g, NEW q, NEW n \in Nat, NEW l \in Nat, NEW b, NEW v,
         \A k \in 1 .. n : q[l + k] = g[k],
         Brings(m, g, n, b, v)
  PROVE  Brings(m, q, l + n, b, v)
<1>1. PICK j \in 1 .. n : /\ Copies(g[j], b) /\ Source(m, g[j]) = v
                          /\ \A k \in j + 1 .. n : ~Copies(g[k], b)
  BY DEF Brings
<1>2. l + j \in 1 .. l + n /\ q[l + j] = g[j]
  OBVIOUS
<1>3. ASSUME NEW k \in l + j + 1 .. l + n
      PROVE  ~Copies(q[k], b)
  <2>1. k - l \in 1 .. n /\ k - l \in j + 1 .. n /\ l + (k - l) = k
    OBVIOUS
  <2>2. q[l + (k - l)] = g[k - l]
    BY <2>1
  <2> QED
    BY <1>1, <2>1, <2>2
<1> QED
  BY <1>1, <1>2, <1>3 DEF Brings

(* The first operation runs.                                               *)
LEMMA FindsRun ==
  ASSUME NEW m, NEW m2, NEW q, NEW q2, NEW n \in Nat, n > 0, NEW b, NEW v,
         \A k \in 1 .. n - 1 : q2[k] = q[k + 1],
         \A k \in 1 .. n : Source(m2, q[k]) = Source(m, q[k]),
         Copies(q[1], b) => m2.dev[b] = Source(m, q[1]),
         ~Copies(q[1], b) => m2.dev[b] = m.dev[b],
         Finds(m, q, n, b, v)
  PROVE  Finds(m2, q2, n - 1, b, v)
<1>1. n - 1 \in Nat /\ \A k \in 1 .. n - 1 : k + 1 \in 1 .. n
  OBVIOUS
<1>2. CASE Brings(m, q, n, b, v)
  <2>1. PICK j \in 1 .. n : /\ Copies(q[j], b) /\ Source(m, q[j]) = v
                            /\ \A k \in j + 1 .. n : ~Copies(q[k], b)
    BY <1>2 DEF Brings
  <2>2. CASE j = 1
    <3>1. m2.dev[b] = v
      BY <2>1, <2>2
    <3>2. \A k \in 1 .. n - 1 : k + 1 \in j + 1 .. n
      BY <2>2
    <3> QED
      BY <2>1, <3>1, <3>2 DEF Finds
  <2>3. CASE j # 1
    <3>1. j - 1 \in 1 .. n - 1 /\ (j - 1) + 1 = j /\ j \in 1 .. n
      BY <2>3
    <3>2. q2[j - 1] = q[j]
      BY <3>1
    <3>3. \A k \in j - 1 + 1 .. n - 1 : k \in 1 .. n - 1 /\ k + 1 \in j + 1 .. n
      BY <3>1
    <3>4. \A k \in j - 1 + 1 .. n - 1 : ~Copies(q2[k], b)
      BY <2>1, <3>3
    <3>5. Brings(m2, q2, n - 1, b, v)
      BY <2>1, <3>1, <3>2, <3>4 DEF Brings
    <3> QED
      BY <3>5 DEF Finds
  <2> QED
    BY <2>2, <2>3
<1>3. CASE m.dev[b] = v /\ \A k \in 1 .. n : ~Copies(q[k], b)
  <2>1. 1 \in 1 .. n
    OBVIOUS
  <2>2. m2.dev[b] = v
    BY <1>3, <2>1
  <2>3. \A k \in 1 .. n - 1 : ~Copies(q2[k], b)
    BY <1>1, <1>3
  <2> QED
    BY <2>2, <2>3 DEF Finds
<1> QED
  BY <1>2, <1>3 DEF Finds

-----------------------------------------------------------------------------
(* The pools are told apart.                                               *)
LEMMA PoolsDiffer ==
  /\ \A s, t : StreamPool(s) = StreamPool(t) => s = t
  /\ \A s : StreamPool(s) # Nowhere
  /\ \A s, k : StreamPool(s) # <<"capture", k>>
  /\ \A k : <<"capture", k>> # Nowhere
  /\ \A j, k : <<"capture", j>> = <<"capture", k>> => j = k
<1>1. \A s, t : StreamPool(s) = StreamPool(t) => s = t
  <2> SUFFICES ASSUME NEW s, NEW t, StreamPool(s) = StreamPool(t)
               PROVE  s = t
    OBVIOUS
  <2>1. StreamPool(s)[2] = s /\ StreamPool(t)[2] = t
    BY DEF StreamPool
  <2> QED
    BY <2>1
<1>2. \A s : StreamPool(s) # Nowhere
  BY DEF StreamPool, Nowhere
<1>3. \A s, k : StreamPool(s) # <<"capture", k>>
  <2> SUFFICES ASSUME NEW s, NEW k, StreamPool(s) = <<"capture", k>>
               PROVE  FALSE
    OBVIOUS
  <2>1. StreamPool(s)[1] = "stream" /\ <<"capture", k>>[1] = "capture"
    BY DEF StreamPool
  <2> QED
    BY <2>1
<1>4. \A k : <<"capture", k>> # Nowhere
  BY DEF Nowhere
<1>5. \A j, k : <<"capture", j>> = <<"capture", k>> => j = k
  OBVIOUS
<1> QED
  BY <1>1, <1>2, <1>3, <1>4, <1>5

(* A new tensor's memory is nobody's, or its pool's and not referred to.   *)
LEMMA FreshIs ==
  ASSUME NEW pool, NEW b \in FreshBuffers(pool)
  PROVE  b \in Buffers /\ (home[b] = Nowhere \/ (home[b] = pool /\ b \notin Referenced))
<1> DEFINE mine == {c \in Buffers : home[c] = pool /\ c \notin Referenced}
           new  == {c \in Buffers : home[c] = Nowhere}
<1>1. ASSUME NEW S \in SUBSET Buffers, S # {}
      PROVE  Min(S) \in S
  <2>1. S \subseteq Nat
    BY PinnedStagingAssumption
  <2>2. \E x \in S : \A y \in S : x <= y
    BY <1>1, <2>1, LeastIs
  <2> QED
    BY <2>2 DEF Min
<1>2. FreshBuffers(pool) = IF mine # {} THEN {Min(mine)} ELSE IF new # {} THEN {Min(new)} ELSE {}
  BY DEF FreshBuffers
<1>3. CASE mine # {}
  <2>1. b = Min(mine) /\ mine \in SUBSET Buffers
    BY <1>2, <1>3
  <2>2. b \in mine
    BY <1>1, <1>3, <2>1
  <2> QED
    BY <2>2
<1>4. CASE mine = {}
  <2>1. new # {} /\ b = Min(new) /\ new \in SUBSET Buffers
    BY <1>2, <1>4
  <2>2. b \in new
    BY <1>1, <2>1
  <2> QED
    BY <2>2
<1> QED
  BY <1>3, <1>4

(* Operations are copies or kernels.                                       *)
LEMMA OpIs ==
  ASSUME NEW o \in Ops
  PROVE  /\ o.op = "copy" => o \in CopyOps /\ o.buf \in Buffers /\ Touches(o, o.buf)
         /\ o.op = "kernel" => /\ o \in KernelOps /\ o.reads \in Seq(Tables)
                               /\ \A t \in ToSet(o.reads) : t \in Tables /\ t.buf \in Buffers
                                                            /\ (Trusted(t) => Touches(o, t.buf))
         /\ o.op \in {"copy", "kernel"}
<1>1. CASE o \in CopyOps
  BY <1>1 DEF CopyOps, Touches, Copies
<1>2. CASE o \in KernelOps
  <2>1. o.op = "kernel" /\ o.reads \in Seq(Tables)
    BY <1>2 DEF KernelOps
  <2>2. \A t \in ToSet(o.reads) : t \in Tables
    BY <2>1 DEF ToSet
  <2> QED
    BY <1>2, <2>1, <2>2 DEF Tables, Touches, Reads
<1> QED
  BY <1>1, <1>2 DEF Ops

(* Tables and memo entries as the calls make them.                         *)
LEMMA RequestIs ==
  ASSUME NEW st \in Streams, NEW r \in Requests[st]
  PROVE  /\ r \in Seq(Seq(Nat)) /\ Lens(r) \in Seq(Nat)
         /\ FlattenSeq(r) \in Seq(Nat) /\ Total(r) \in Nat /\ Total(r) > 0
         /\ Total(r) = Len(FlattenSeq(r))
<1>1. r \in Seq(Seq(Nat)) /\ FlattenSeq(r) # <<>>
  BY PinnedStagingAssumption
<1>2. r # <<>>
  BY <1>1 DEF FlattenSeq
<1>3. FlattenSeq(r) \in Seq(Nat)
  BY <1>1, <1>2, FlatIs
<1>4. Lens(r) \in Seq(Nat)
  <2>1. Lens(r) = [i \in 1 .. Len(r) |-> Len(r[i])] /\ Len(r) \in Nat
    BY <1>1 DEF Lens
  <2>2. \A i \in 1 .. Len(r) : Len(r[i]) \in Nat
    BY <1>1
  <2> QED
    BY <2>1, <2>2
<1> QED
  BY <1>1, <1>3, <1>4 DEF Total

LEMMA EntryIs ==
  ASSUME NEW st \in Streams, NEW r \in Requests[st], NEW b \in Buffers
  PROVE  LET e == Entry(UploadKey(r, st), r, b)
         IN /\ e \in Entries /\ e.buf = b /\ e.lens = Lens(r)
            /\ e.key = UploadKey(r, st)
            /\ e.key[1] = Lens(r) /\ e.key[2] = FlattenSeq(r) /\ e.key[3] = st
<1>1. UploadKey(r, st) \in UploadKeys
  BY RequestIs DEF UploadKey, UploadKeys
<1> QED
  BY <1>1, RequestIs DEF Entry, Entries, UploadKey

-----------------------------------------------------------------------------
\* What the host refers to is as it was.
ReadyKept ==
  /\ \A s \in Streams, c \in Referenced : \A v : Ready(s, c, v) => Ready(s, c, v)'
  /\ \A e \in ToSet(tiles) : home'[e.buf] = home[e.buf]

\* What the memo of build_group_tiles has for the capture is as it was.
CaptureKept ==
  /\ \A k \in Nat : k <= captures => k <= captures'
  /\ \A e \in ToSet(tiles) : Capturing' /\ home[e.buf] = CapturePool' =>
       /\ Capturing /\ home[e.buf] = CapturePool
       /\ \A v : ReadyInCapture(e.buf, v) => ReadyInCapture(e.buf, v)'

LEMMA TileKept ==
  ASSUME ReadyKept, CaptureKept, NEW e \in ToSet(tiles), TileRight(e)
  PROVE  TileRight(e)'
<1>1. home'[e.buf] = home[e.buf] /\ e.buf \in Referenced
  BY DEF ReadyKept, Referenced
<1>2. home[e.buf] # Nowhere /\ e.lens = Lens(e.key)
      /\ \A k \in Nat : home[e.buf] = <<"capture", k>> => k <= captures'
  BY DEF TileRight, CaptureKept
<1>3. \A st \in Streams : home[e.buf] = StreamPool(st) => Ready(st, e.buf, FlattenSeq(e.key))'
  BY <1>1 DEF TileRight, ReadyKept
<1>4. Capturing' /\ home[e.buf] = CapturePool' => ReadyInCapture(e.buf, FlattenSeq(e.key))'
  BY DEF TileRight, CaptureKept
<1> QED
  BY <1>1, <1>2, <1>3, <1>4 DEF TileRight

\* While the host does not capture.
LEMMA EagerKept ==
  ASSUME ~Capturing', UNCHANGED captures
  PROVE  CaptureKept
BY DEF CaptureKept

LEMMA MemosKept ==
  ASSUME MemosRight, ReadyKept, CaptureKept, UNCHANGED memos
  PROVE  MemosRight'
<1>1. ASSUME NEW e \in ToSet(fast) \cup ToSet(memo)
      PROVE  e.lens = e.key[1] /\ Ready(e.key[3], e.buf, e.key[2])'
  <2>1. e.lens = e.key[1] /\ Ready(e.key[3], e.buf, e.key[2])
    BY DEF MemosRight
  <2>2. e.key[3] \in Streams /\ e.buf \in Referenced
    BY <2>1 DEF Ready, Referenced
  <2> QED
    BY <2>1, <2>2 DEF ReadyKept
<1>2. \A e \in ToSet(tiles) : TileRight(e)'
  BY TileKept DEF MemosRight
<1> QED
  BY <1>1, <1>2 DEF MemosRight, memos

\* What to_device_i32 gives its caller.
Gives(st, r, e) == Holds(st, r, e, FALSE)

(* A call gives its caller a tensor that is ready, and the memos refer to  *)
(* no other new one.                                                       *)
LEMMA CallKept ==
  ASSUME MemosRight, HeldRight, ReadyKept, ~Capturing, ~Capturing', UNCHANGED captures,
         held \in Seq(Tables),
         NEW st \in Streams, NEW r \in Requests[st], NEW form, MayCall(st, r, form),
         NEW e, e.buf \in Buffers, e.lens = Lens(r), Ready(st, e.buf, FlattenSeq(r))',
         Gives(st, r, e),
         \A x \in Referenced : home'[x] = home[x],
         \A f \in ToSet(fast') \cup ToSet(memo') :
           \/ f \in ToSet(fast) \cup ToSet(memo)
           \/ f.key = UploadKey(r, st) /\ f.lens = e.lens /\ f.buf = e.buf,
         \A f \in ToSet(tiles') :
           \/ f \in ToSet(tiles)
           \/ form = "tiles" /\ f.key = r /\ f.lens = e.lens /\ f.buf = e.buf
  PROVE  MemosRight' /\ HeldRight' /\ held' \in Seq(Tables)
<1>1. ASSUME NEW f \in ToSet(fast') \cup ToSet(memo')
      PROVE  f.lens = f.key[1] /\ Ready(f.key[3], f.buf, f.key[2])'
  <2>1. CASE f \in ToSet(fast) \cup ToSet(memo)
    <3>1. f.lens = f.key[1] /\ Ready(f.key[3], f.buf, f.key[2])
      BY <2>1 DEF MemosRight
    <3>2. f.key[3] \in Streams /\ f.buf \in Referenced
      BY <2>1, <3>1 DEF Ready, Referenced
    <3> QED
      BY <3>1, <3>2 DEF ReadyKept
  <2>2. CASE f.key = UploadKey(r, st) /\ f.lens = e.lens /\ f.buf = e.buf
    <3>1. f.key[1] = Lens(r) /\ f.key[2] = FlattenSeq(r) /\ f.key[3] = st
      BY <2>2 DEF UploadKey
    <3> QED
      BY <2>2, <3>1
  <2> QED
    BY <2>1, <2>2
<1>2. ASSUME NEW f \in ToSet(tiles')
      PROVE  TileRight(f)'
  <2>1. CASE f \in ToSet(tiles)
    BY <2>1, EagerKept, TileKept DEF MemosRight
  <2>2. CASE form = "tiles" /\ f.key = r /\ f.lens = e.lens /\ f.buf = e.buf
    <3>1. home'[f.buf] = StreamPool(st)
      BY <2>2 DEF Ready
    <3>2. home'[f.buf] # Nowhere /\ \A k : home'[f.buf] # <<"capture", k>>
      BY <3>1, PoolsDiffer
    <3>3. \A s \in Streams : home'[f.buf] = StreamPool(s) => Ready(s, f.buf, FlattenSeq(f.key))'
      BY <2>2, <3>1, PoolsDiffer
    <3> QED
      BY <2>2, <3>2, <3>3 DEF TileRight
  <2> QED
    BY <2>1, <2>2
<1> DEFINE new == [buf |-> e.buf, lens |-> e.lens, want |-> r, on |-> st, foreign |-> FALSE]
<1>3. held' = Append(held, new) /\ new \in Tables
  BY RequestIs DEF Gives, Holds, Tables
<1>4. held' \in Seq(Tables) /\ ToSet(held') \subseteq ToSet(held) \cup {new} /\ held' # <<>>
  <2> HIDE DEF new
  <2> QED
    BY <1>3, MembersOf
<1>5. ASSUME NEW t \in ToSet(held')
      PROVE  /\ t.on = st /\ home'[t.buf] # Nowhere
             /\ Trusted(t) => t.lens = Lens(t.want) /\ Ready(t.on, t.buf, FlattenSeq(t.want))'
  <2>1. CASE t \in ToSet(held)
    <3>1. /\ t.on = st /\ home[t.buf] # Nowhere
          /\ Trusted(t) => t.lens = Lens(t.want) /\ Ready(t.on, t.buf, FlattenSeq(t.want))
      BY <2>1 DEF HeldRight, MayCall
    <3>2. t.on \in Streams /\ t.buf \in Referenced
      BY <2>1, <3>1 DEF Referenced
    <3> QED
      BY <3>1, <3>2 DEF ReadyKept
  <2>2. CASE t = new
    <3>1. home'[e.buf] # Nowhere
      BY PoolsDiffer DEF Ready
    <3> QED
      BY <2>2, <3>1
  <2> QED
    BY <1>4, <2>1, <2>2
<1>6. held'[1].on = st
  <2>1. held'[1] \in ToSet(held')
    BY <1>4 DEF ToSet
  <2> QED
    BY <1>5, <2>1
<1>7. HeldRight'
  BY <1>5, <1>6 DEF HeldRight
<1>8. MemosRight'
  BY <1>1, <1>2 DEF MemosRight
<1> QED
  BY <1>4, <1>7, <1>8

(* What the memos refer to after a call.                                   *)
LEMMA MinOfTwo ==
  ASSUME NEW i \in Nat, NEW j \in Nat
  PROVE  Min({i, j}) \in Nat /\ Min({i, j}) <= i /\ Min({i, j}) <= j
<1>1. \E x \in {i, j} : \A y \in {i, j} : x <= y
  <2>1. CASE i <= j
    BY <2>1
  <2>2. CASE j <= i
    BY <2>2
  <2> QED
    BY <2>1, <2>2
<1>2. Min({i, j}) \in {i, j} /\ \A y \in {i, j} : Min({i, j}) <= y
  BY <1>1 DEF Min
<1> QED
  BY <1>2

LEMMA FastAfterIs ==
  ASSUME fast \in Seq(Entries), NEW e \in Entries, NEW form, FastAfter(e, form)
  PROVE  fast' \in Seq(Entries) /\ ToSet(fast') \subseteq ToSet(fast) \cup {e}
<1>1. MemoSize \in Nat /\ Len(fast) + 1 \in Nat
  BY PinnedStagingAssumption
<1> DEFINE n == Min({MemoSize, Len(fast) + 1})
<1>2. n \in 0 .. Len(fast) + 1
  BY <1>1, MinOfTwo
<1>3. FastPut(e) = SubSeq(<<e>> \o fast, 1, n)
  BY DEF FastPut
<1> HIDE DEF n
<1>4. FastPut(e) \in Seq(Entries) /\ ToSet(FastPut(e)) \subseteq ToSet(fast) \cup {e}
  BY <1>2, <1>3, FrontMembers
<1> QED
  BY <1>4 DEF FastAfter

LEMMA MemoPutIs ==
  ASSUME memo \in Seq(Entries), NEW e \in Entries
  PROVE  MemoPut(e) \in Seq(Entries) /\ ToSet(MemoPut(e)) \subseteq ToSet(memo) \cup {e}
<1> DEFINE all == Append(memo, e)
<1>1. all \in Seq(Entries) /\ ToSet(all) \subseteq ToSet(memo) \cup {e} /\ all # <<>>
  BY MembersOf
<1>2. Tail(all) \in Seq(Entries) /\ ToSet(Tail(all)) \subseteq ToSet(all)
  BY <1>1, MembersOf
<1> HIDE DEF all
<1>3. MemoPut(e) = IF Len(all) > MemoSize THEN Tail(all) ELSE all
  BY DEF MemoPut, all
<1> QED
  BY <1>1, <1>2, <1>3

LEMMA TilesAfterIs ==
  ASSUME tiles \in Seq(TileEntries), NEW st \in Streams, NEW r \in Requests[st], NEW form,
         NEW e \in Entries \cup TileEntries, TilesAfter(r, e, form)
  PROVE  /\ tiles' \in Seq(TileEntries)
         /\ \A f \in ToSet(tiles') :
              \/ f \in ToSet(tiles)
              \/ form = "tiles" /\ f.key = r /\ f.lens = e.lens /\ f.buf = e.buf
<1> DEFINE f == [e EXCEPT !.key = r]
<1>1. f \in TileEntries /\ f.key = r /\ f.lens = e.lens /\ f.buf = e.buf
  BY RequestIs DEF Entries, TileEntries
<1>2. tiles' = IF form = "tiles" THEN <<f>> ELSE tiles
  BY DEF TilesAfter
<1> HIDE DEF f
<1>3. ToSet(<<f>>) = {f} /\ <<f>> \in Seq(TileEntries)
  BY <1>1 DEF ToSet
<1> QED
  BY <1>1, <1>2, <1>3

-----------------------------------------------------------------------------
(* What a memo answers with.                                               *)
LEMMA FoundIs ==
  ASSUME NEW S, NEW s \in Seq(S), NEW key, NEW i \in Found(s, key)
  PROVE  i \in DOMAIN s /\ s[i] \in S /\ s[i] \in ToSet(s) /\ s[i].key = key
<1>1. i \in DOMAIN s /\ s[i].key = key
  BY DEF Found
<1>2. DOMAIN s = 1 .. Len(s)
  OBVIOUS
<1> QED
  BY <1>1, <1>2 DEF ToSet

(* A call that finds its tensor changes nothing but what the host refers   *)
(* to.                                                                     *)
LEMMA HitKeeps ==
  ASSUME IInv, UNCHANGED <<ring, arena, capture, graphs, captures, device, home>>
  PROVE  /\ ReadyKept /\ CaptureKept /\ Capturing' = Capturing
         /\ SourcesOwned' /\ PoolsApart' /\ QueuesRight' /\ GraphsRight'
<1>1. Now' = Now /\ Capturing' = Capturing
  BY DEF Now, Capturing, device
<1>2. queue' = queue /\ capture' = capture /\ graphs' = graphs /\ home' = home
      /\ captures' = captures /\ arena' = arena
  BY DEF device
<1>3. ReadyKept
  BY <1>1, <1>2 DEF ReadyKept, Ready
<1>4. SourcesOwned'
  BY <1>2 DEF IInv, SourcesOwned
<1>5. PoolsApart'
  BY <1>1, <1>2 DEF IInv, PoolsApart, Sealed, CapturePool
<1>6. QueuesRight'
  BY <1>1, <1>2 DEF IInv, QueuesRight
<1>7. GraphsRight'
  BY <1>1, <1>2 DEF IInv, GraphsRight, SelfContained
<1>8. CaptureKept
  <2>1. CapturePool' = CapturePool
    BY <1>2 DEF CapturePool
  <2>2. \A c, v : ReadyInCapture(c, v) => ReadyInCapture(c, v)'
    BY <1>1, <1>2, <2>1 DEF ReadyInCapture
  <2> QED
    BY <1>1, <1>2, <2>1, <2>2 DEF CaptureKept
<1> QED
  BY <1>1, <1>3, <1>4, <1>5, <1>6, <1>7, <1>8

LEMMA HitKeepsType ==
  ASSUME Typed, UNCHANGED <<ring, arena, capture, graphs, captures, device, home>>,
         fast' \in Seq(Entries), memo' \in Seq(Entries), tiles' \in Seq(TileEntries),
         held' \in Seq(Tables)
  PROVE  Typed'
BY DEF Typed, device, Host, Capturing

(* A table found in the memo of build_group_tiles: a good one when it is   *)
(* of the call's own pool, and of no account otherwise.                    *)
LEMMA TileHitKeeps ==
  ASSUME IInv, NEW st \in Streams, NEW r \in Requests[st], TileHit(st, r)
  PROVE  IInv'
<1>1. Typed /\ MemosRight /\ HeldRight
  BY DEF IInv
<1>2. /\ UNCHANGED <<ring, arena, memos, capture, graphs, captures, device, home>>
      /\ fast' = fast /\ memo' = memo /\ tiles' = tiles
  BY DEF TileHit, memos
<1>3. MayCall(st, r, "tiles")
  BY DEF TileHit
<1>4. PICK i \in Found(tiles, r) : Holds(st, r, tiles[i], home[tiles[i].buf] # PoolOf(st))
  BY DEF TileHit
<1>5. PICK e : e = tiles[i]
  OBVIOUS
<1>6. e \in ToSet(tiles) /\ e.key = r /\ e.buf \in Buffers /\ e.lens \in Seq(Nat)
  <2>1. tiles \in Seq(TileEntries)
    BY <1>1 DEF Typed
  <2>2. e \in TileEntries /\ e \in ToSet(tiles) /\ e.key = r
    BY <1>4, <1>5, <2>1, FoundIs
  <2> QED
    BY <2>2 DEF TileEntries
<1>7. /\ ReadyKept /\ CaptureKept /\ Capturing' = Capturing
      /\ SourcesOwned' /\ PoolsApart' /\ QueuesRight' /\ GraphsRight'
  BY <1>2, HitKeeps
<1>8. Now' = Now /\ CapturePool' = CapturePool /\ queue' = queue /\ capture' = capture /\ home' = home
  BY <1>2 DEF Now, CapturePool, device
<1>9. MemosRight'
  BY <1>1, <1>2, <1>7, MemosKept
<1> DEFINE away == home[e.buf] # PoolOf(st)
           new == [buf |-> e.buf, lens |-> e.lens, want |-> r, on |-> st, foreign |-> away]
<1>10. held' = Append(held, new) /\ new \in Tables
  BY <1>4, <1>5, <1>6, RequestIs DEF Holds, Tables
<1>11. held' \in Seq(Tables) /\ ToSet(held') \subseteq ToSet(held) \cup {new} /\ held' # <<>>
  <2>1. held \in Seq(Tables)
    BY <1>1 DEF Typed
  <2> HIDE DEF new
  <2> QED
    BY <1>10, <2>1, MembersOf
<1>12. ASSUME NEW t \in ToSet(held')
       PROVE  /\ t.on = st /\ home'[t.buf] # Nowhere
              /\ Trusted(t) =>
                   /\ t.lens = Lens(t.want)
                   /\ IF Capturing THEN ReadyInCapture(t.buf, FlattenSeq(t.want))'
                                   ELSE Ready(t.on, t.buf, FlattenSeq(t.want))'
  <2>1. CASE t \in ToSet(held)
    <3>1. t.on = st /\ home[t.buf] # Nowhere
      BY <1>1, <1>3, <2>1 DEF HeldRight, MayCall
    <3>2. Trusted(t) =>
             /\ t.lens = Lens(t.want)
             /\ IF Capturing THEN ReadyInCapture(t.buf, FlattenSeq(t.want))
                             ELSE Ready(t.on, t.buf, FlattenSeq(t.want))
      BY <1>1, <2>1 DEF HeldRight
    <3> QED
      BY <1>8, <3>1, <3>2 DEF Ready, ReadyInCapture
  <2>2. CASE t = new
    <3>1. /\ t.on = st /\ home'[t.buf] # Nowhere /\ t.buf = e.buf /\ t.want = r
          /\ t.lens = e.lens /\ t.lens = Lens(r) /\ TileRight(e)
      BY <1>1, <1>6, <1>8, <2>2 DEF MemosRight, TileRight
    <3>2. Trusted(t) => home[e.buf] = PoolOf(st)
      BY <2>2 DEF Trusted
    <3>3. CASE Trusted(t) /\ Capturing
      <4>1. ReadyInCapture(e.buf, FlattenSeq(r))
        BY <1>6, <3>1, <3>2, <3>3 DEF TileRight, PoolOf
      <4> QED
        BY <1>8, <3>1, <3>3, <4>1 DEF ReadyInCapture
    <3>4. CASE Trusted(t) /\ ~Capturing
      <4>1. Ready(st, e.buf, FlattenSeq(r))
        BY <1>6, <3>1, <3>2, <3>4 DEF TileRight, PoolOf
      <4> QED
        BY <1>8, <3>1, <3>4, <4>1 DEF Ready
    <3> QED
      BY <3>1, <3>3, <3>4
  <2> HIDE DEF new
  <2> QED
    BY <1>11, <2>1, <2>2
<1>13. held'[1].on = st
  <2>1. held'[1] \in ToSet(held')
    BY <1>11 DEF ToSet
  <2> QED
    BY <1>12, <2>1
<1>14. HeldRight'
  BY <1>7, <1>12, <1>13 DEF HeldRight
<1>15. Typed'
  <2>1. /\ UNCHANGED <<ring, arena, capture, graphs, captures, device, home>>
        /\ fast' \in Seq(Entries) /\ memo' \in Seq(Entries) /\ tiles' \in Seq(TileEntries)
    BY <1>1, <1>2 DEF Typed
  <2> HIDE DEF new
  <2> QED
    BY <1>1, <1>11, <2>1, HitKeepsType
<1> QED
  BY <1>7, <1>9, <1>14, <1>15 DEF IInv

LEMMA FastHitKeeps ==
  ASSUME IInv, NEW st \in Streams, NEW r \in Requests[st], NEW form, FastHit(st, r, form)
  PROVE  IInv'
<1>1. Typed /\ MemosRight /\ HeldRight
  BY DEF IInv
<1>2. /\ UNCHANGED <<ring, arena, capture, graphs, captures, device, home>>
      /\ fast' = fast /\ memo' = memo
      /\ MayCall(st, r, form) /\ ~Capturing
  BY DEF FastHit
<1>3. PICK i \in Found(fast, UploadKey(r, st)) :
        Holds(st, r, fast[i], FALSE) /\ TilesAfter(r, fast[i], form)
  BY DEF FastHit
<1>4. PICK e : e = fast[i]
  OBVIOUS
<1>5. e \in ToSet(fast) /\ e \in Entries /\ e.key = UploadKey(r, st) /\ e.buf \in Buffers
  <2>1. fast \in Seq(Entries)
    BY <1>1 DEF Typed
  <2>2. e \in Entries /\ e \in ToSet(fast) /\ e.key = UploadKey(r, st)
    BY <1>3, <1>4, <2>1, FoundIs
  <2> QED
    BY <2>1, <2>2 DEF Entries
<1>6. e.lens = Lens(r) /\ Ready(st, e.buf, FlattenSeq(r)) /\ e.buf \in Referenced
  BY <1>1, <1>5 DEF MemosRight, Referenced, UploadKey
<1>7. /\ ReadyKept /\ ~Capturing'
      /\ SourcesOwned' /\ PoolsApart' /\ QueuesRight' /\ GraphsRight'
  BY <1>2, HitKeeps
<1>8. Ready(st, e.buf, FlattenSeq(r))'
  BY <1>6, <1>7 DEF ReadyKept
<1>9. /\ tiles' \in Seq(TileEntries)
      /\ \A f \in ToSet(tiles') :
           \/ f \in ToSet(tiles)
           \/ form = "tiles" /\ f.key = r /\ f.lens = e.lens /\ f.buf = e.buf
  <2>1. tiles \in Seq(TileEntries) /\ TilesAfter(r, e, form)
    BY <1>1, <1>3, <1>4 DEF Typed
  <2> QED
    BY <1>5, <2>1, TilesAfterIs
<1>10. MemosRight' /\ HeldRight' /\ held' \in Seq(Tables)
  <2>1. held \in Seq(Tables)
    BY <1>1 DEF Typed
  <2>2. Gives(st, r, e) /\ \A x \in Referenced : home'[x] = home[x]
    BY <1>2, <1>3, <1>4 DEF Gives
  <2> QED
    BY <1>1, <1>2, <1>5, <1>6, <1>7, <1>8, <1>9, <2>1, <2>2, CallKept
<1>11. Typed'
  <2>1. fast' \in Seq(Entries) /\ memo' \in Seq(Entries)
    BY <1>1, <1>2 DEF Typed
  <2> QED
    BY <1>1, <1>2, <1>9, <1>10, <2>1, HitKeepsType
<1> QED
  BY <1>7, <1>10, <1>11 DEF IInv

LEMMA MemoHitKeeps ==
  ASSUME IInv, NEW st \in Streams, NEW r \in Requests[st], NEW form, MemoHit(st, r, form)
  PROVE  IInv'
<1>1. Typed /\ MemosRight /\ HeldRight
  BY DEF IInv
<1>2. /\ UNCHANGED <<ring, arena, capture, graphs, captures, device, home>>
      /\ MayCall(st, r, form) /\ ~Capturing
  BY DEF MemoHit
<1>3. PICK i \in Found(memo, UploadKey(r, st)) :
        /\ Holds(st, r, memo[i], FALSE)
        /\ memo' = MovedToEnd(i)
        /\ FastAfter(memo[i], form)
        /\ TilesAfter(r, memo[i], form)
  BY DEF MemoHit
<1>4. PICK e : e = memo[i]
  OBVIOUS
<1>5. /\ e \in ToSet(memo) /\ e \in Entries /\ e.key = UploadKey(r, st) /\ e.buf \in Buffers
      /\ i \in DOMAIN memo /\ memo \in Seq(Entries)
  <2>1. memo \in Seq(Entries)
    BY <1>1 DEF Typed
  <2>2. e \in Entries /\ e \in ToSet(memo) /\ e.key = UploadKey(r, st) /\ i \in DOMAIN memo
    BY <1>3, <1>4, <2>1, FoundIs
  <2> QED
    BY <2>1, <2>2 DEF Entries
<1>6. e.lens = Lens(r) /\ Ready(st, e.buf, FlattenSeq(r)) /\ e.buf \in Referenced
  BY <1>1, <1>5 DEF MemosRight, Referenced, UploadKey
<1>7. /\ ReadyKept /\ ~Capturing'
      /\ SourcesOwned' /\ PoolsApart' /\ QueuesRight' /\ GraphsRight'
  BY <1>2, HitKeeps
<1>8. Ready(st, e.buf, FlattenSeq(r))'
  BY <1>6, <1>7 DEF ReadyKept
<1>9. /\ tiles' \in Seq(TileEntries)
      /\ \A f \in ToSet(tiles') :
           \/ f \in ToSet(tiles)
           \/ form = "tiles" /\ f.key = r /\ f.lens = e.lens /\ f.buf = e.buf
  <2>1. tiles \in Seq(TileEntries) /\ TilesAfter(r, e, form)
    BY <1>1, <1>3, <1>4 DEF Typed
  <2> QED
    BY <1>5, <2>1, TilesAfterIs
<1>10. fast' \in Seq(Entries) /\ ToSet(fast') \subseteq ToSet(fast) \cup {e}
  <2>1. fast \in Seq(Entries) /\ FastAfter(e, form)
    BY <1>1, <1>3, <1>4 DEF Typed
  <2> QED
    BY <1>5, <2>1, FastAfterIs
<1>11. memo' \in Seq(Entries) /\ ToSet(memo') \subseteq ToSet(memo)
  BY <1>3, <1>5, MovedMembers DEF MovedToEnd
<1>12. \A f \in ToSet(fast') \cup ToSet(memo') :
         \/ f \in ToSet(fast) \cup ToSet(memo)
         \/ f.key = UploadKey(r, st) /\ f.lens = e.lens /\ f.buf = e.buf
  BY <1>5, <1>10, <1>11
<1>13. MemosRight' /\ HeldRight' /\ held' \in Seq(Tables)
  <2>1. held \in Seq(Tables)
    BY <1>1 DEF Typed
  <2>2. Gives(st, r, e) /\ \A x \in Referenced : home'[x] = home[x]
    BY <1>2, <1>3, <1>4 DEF Gives
  <2> QED
    BY <1>1, <1>2, <1>5, <1>6, <1>7, <1>8, <1>9, <1>12, <2>1, <2>2, CallKept
<1>14. Typed'
  BY <1>1, <1>2, <1>9, <1>10, <1>11, <1>13, HitKeepsType
<1> QED
  BY <1>7, <1>13, <1>14 DEF IInv

-----------------------------------------------------------------------------
(* What the host refers to is memory of some pool.                         *)
LEMMA ReferencedIs ==
  ASSUME IInv, NEW c \in Referenced
  PROVE  c \in Buffers /\ home[c] # Nowhere
<1>1. MemosRight /\ HeldRight /\ tiles \in Seq(TileEntries) /\ held \in Seq(Tables)
  BY DEF IInv, Typed
<1>2. PICK e \in ToSet(fast) \cup ToSet(memo) \cup ToSet(tiles) \cup ToSet(held) : c = e.buf
  BY DEF Referenced
<1>3. CASE e \in ToSet(fast) \cup ToSet(memo)
  BY <1>1, <1>2, <1>3, PoolsDiffer DEF MemosRight, Ready
<1>4. CASE e \in ToSet(tiles)
  <2>1. e \in TileEntries
    BY <1>1, <1>4 DEF ToSet
  <2> QED
    BY <1>1, <1>2, <1>4, <2>1 DEF MemosRight, TileRight, TileEntries
<1>5. CASE e \in ToSet(held)
  <2>1. e \in Tables
    BY <1>1, <1>5 DEF ToSet
  <2> QED
    BY <1>1, <1>2, <1>5, <2>1 DEF HeldRight, Tables
<1> QED
  BY <1>2, <1>3, <1>4, <1>5

(* A new tensor's memory is referred to by nobody, and touched in its own  *)
(* pool only.                                                              *)
LEMMA FreshIsApart ==
  ASSUME IInv, NEW pool, NEW b \in FreshBuffers(pool),
         (\E st \in Streams : pool = StreamPool(st)) \/ (Capturing /\ pool = CapturePool)
  PROVE  /\ b \in Buffers /\ b \notin Referenced /\ ~Sealed(b)
         /\ \A s \in Streams : \A i \in DOMAIN queue[s] :
              Touches(queue[s][i], b) => pool = StreamPool(s)
         /\ \A g \in DOMAIN graphs : \A i \in DOMAIN graphs[g] : ~Touches(graphs[g][i], b)
         /\ \A i \in DOMAIN capture.ops : Touches(capture.ops[i], b) => pool = CapturePool
<1>1. b \in Buffers /\ (home[b] = Nowhere \/ (home[b] = pool /\ b \notin Referenced))
  BY FreshIs
<1>2. b \notin Referenced
  <2>1. SUFFICES ASSUME b \in Referenced, home[b] = Nowhere
                 PROVE  FALSE
    BY <1>1
  <2> QED
    BY <2>1, ReferencedIs
<1>3. ~Sealed(b)
  BY <1>1, PoolsDiffer DEF Sealed, CapturePool
<1>4. PoolsApart
  BY DEF IInv
<1>5. ASSUME NEW s \in Streams, NEW i \in DOMAIN queue[s], Touches(queue[s][i], b)
      PROVE  pool = StreamPool(s)
  <2>1. home[b] = StreamPool(s)
    BY <1>1, <1>3, <1>4, <1>5 DEF PoolsApart
  <2> QED
    BY <1>1, <2>1, PoolsDiffer
<1>6. ASSUME NEW i \in DOMAIN capture.ops, Touches(capture.ops[i], b)
      PROVE  pool = CapturePool
  <2>1. home[b] = CapturePool
    BY <1>1, <1>4, <1>6 DEF PoolsApart
  <2> QED
    BY <1>1, <2>1, PoolsDiffer DEF CapturePool
<1>7. ASSUME NEW g \in DOMAIN graphs, NEW i \in DOMAIN graphs[g]
      PROVE  ~Touches(graphs[g][i], b)
  BY <1>1, <1>3, <1>4 DEF PoolsApart
<1> QED
  BY <1>1, <1>2, <1>3, <1>5, <1>6, <1>7

-----------------------------------------------------------------------------
\* Slices that are owned stay so, with what is in them.
OwnedKept ==
  \A o \in CopyOps : Owned(arena, o) =>
    /\ Owned(arena', o)
    /\ SubSeq(arena'.host[o.slot], o.first, o.first + o.count - 1)
         = SubSeq(arena.host[o.slot], o.first, o.first + o.count - 1)

\* What the queued and the captured copies will read.
SourcesKept ==
  /\ \A s \in Streams : \A i \in DOMAIN queue[s] :
       queue[s][i].op = "copy" => Source(Now', queue[s][i]) = Source(Now, queue[s][i])
  /\ \A g \in DOMAIN graphs : \A i \in DOMAIN graphs[g] :
       graphs[g][i].op = "copy" => Source(Now', graphs[g][i]) = Source(Now, graphs[g][i])
  /\ \A i \in DOMAIN capture.ops :
       capture.ops[i].op = "copy" => Source(Now', capture.ops[i]) = Source(Now, capture.ops[i])

(* The operations have their type.                                         *)
LEMMA OpsTyped ==
  ASSUME Typed
  PROVE  /\ \A s \in Streams : queue[s] \in Seq(Ops) /\ \A i \in DOMAIN queue[s] : queue[s][i] \in Ops
         /\ \A g \in DOMAIN graphs : graphs[g] \in Seq(Ops) /\ \A i \in DOMAIN graphs[g] : graphs[g][i] \in Ops
         /\ capture.ops \in Seq(Ops) /\ \A i \in DOMAIN capture.ops : capture.ops[i] \in Ops
<1>1. queue \in [Streams -> Seq(Ops)] /\ graphs \in Seq(Seq(Ops)) /\ capture.ops \in Seq(Ops)
  BY DEF Typed
<1>2. \A q \in Seq(Ops) : \A i \in DOMAIN q : q[i] \in Ops
  OBVIOUS
<1>3. \A g \in DOMAIN graphs : graphs[g] \in Seq(Ops)
  BY <1>1
<1> QED
  BY <1>1, <1>2, <1>3

(* Copies read what they did, unless the step wrote a slot of the ring     *)
(* that some copy is yet to read, or lost a slice.                         *)
LEMMA SourcesStay ==
  ASSUME IInv, OwnedKept,
         \A z \in 0 .. RingSlots - 1 : ring'.slot[z] = ring.slot[z] \/ Writable(z)
  PROVE  SourcesKept
<1>1. Typed /\ SourcesOwned
  BY DEF IInv
<1>2. ASSUME NEW o \in Ops, o.op = "copy", FromArena(arena, o)
      PROVE  Source(Now', o) = Source(Now, o)
  <2>1. o \in CopyOps /\ Owned(arena, o) /\ o.pinned # "ring"
    BY <1>2, OpIs DEF FromArena
  <2>2. Now'.host = arena'.host /\ Now.host = arena.host
    BY DEF Now
  <2> QED
    BY <2>1, <2>2 DEF OwnedKept, Source
<1>3. ASSUME NEW s \in Streams, NEW i \in DOMAIN queue[s], queue[s][i].op = "copy"
      PROVE  Source(Now', queue[s][i]) = Source(Now, queue[s][i])
  <2>1. queue[s][i] \in Ops /\ queue[s][i] \in ToSet(queue[s])
    BY <1>1, OpsTyped DEF ToSet
  <2>2. CASE queue[s][i].pinned = "ring"
    <3>1. queue[s][i].slot \in 0 .. RingSlots - 1 /\ ~Writable(queue[s][i].slot)
      BY <1>1, <1>3, <2>1, <2>2 DEF SourcesOwned, SourceOwned, FromArena, Writable
    <3>2. Now'.ring = ring'.slot /\ Now.ring = ring.slot
      BY DEF Now
    <3> QED
      BY <2>2, <3>1, <3>2 DEF Source
  <2>3. CASE queue[s][i].pinned # "ring"
    BY <1>1, <1>2, <1>3, <2>1, <2>3 DEF SourcesOwned, SourceOwned
  <2> QED
    BY <2>2, <2>3
<1>4. ASSUME NEW g \in DOMAIN graphs, NEW i \in DOMAIN graphs[g], graphs[g][i].op = "copy"
      PROVE  Source(Now', graphs[g][i]) = Source(Now, graphs[g][i])
  BY <1>1, <1>2, <1>4, OpsTyped DEF SourcesOwned
<1>5. ASSUME NEW i \in DOMAIN capture.ops, capture.ops[i].op = "copy"
      PROVE  Source(Now', capture.ops[i]) = Source(Now, capture.ops[i])
  BY <1>1, <1>2, <1>5, OpsTyped DEF SourcesOwned
<1> QED
  BY <1>3, <1>4, <1>5 DEF SourcesKept

LEMMA ContainedKept ==
  ASSUME NEW m, NEW m2, NEW q \in Seq(Ops),
         \A i \in DOMAIN q : q[i].op = "copy" => Source(m2, q[i]) = Source(m, q[i]),
         SelfContained(m, q)
  PROVE  SelfContained(m2, q)
<1>1. SUFFICES ASSUME NEW i \in DOMAIN q, q[i].op = "kernel", NEW t \in ToSet(q[i].reads), Trusted(t)
               PROVE  t.lens = Lens(t.want) /\ Brings(m2, q, i - 1, t.buf, FlattenSeq(t.want))
  BY DEF SelfContained
<1>2. t.lens = Lens(t.want) /\ Brings(m, q, i - 1, t.buf, FlattenSeq(t.want))
  BY <1>1 DEF SelfContained
<1>3. i - 1 \in Nat /\ \A k \in 1 .. i - 1 : k \in DOMAIN q
  OBVIOUS
<1>4. \A k \in 1 .. i - 1 : Copies(q[k], t.buf) => Source(m2, q[k]) = Source(m, q[k])
  BY <1>3 DEF Copies
<1> QED
  BY <1>2, <1>3, <1>4, FindsSame

(* While nothing runs, queues only grow and what they do stays what it is. *)
QueuesGrow ==
  \A s \in Streams : /\ Len(queue[s]) <= Len(queue'[s])
                     /\ \A k \in 1 .. Len(queue[s]) : queue'[s][k] = queue[s][k]

(* Copies have their sources, when the new ones have.                      *)
LEMMA OwnedStay ==
  ASSUME IInv, OwnedKept, QueuesGrow, queue' \in [Streams -> Seq(Ops)],
         \A s \in Streams : \A k \in Len(queue[s]) + 1 .. Len(queue'[s]) : SourceOwned(arena', queue'[s][k]),
         \A g \in DOMAIN graphs' :
           (g \in DOMAIN graphs /\ graphs'[g] = graphs[g]) \/ graphs'[g] = capture.ops,
         \A i \in DOMAIN capture'.ops :
           (i \in DOMAIN capture.ops /\ capture'.ops[i] = capture.ops[i]) \/ FromArena(arena', capture'.ops[i])
  PROVE  SourcesOwned'
<1>1. Typed /\ SourcesOwned
  BY DEF IInv
<1>2. \A o \in Ops : FromArena(arena, o) => FromArena(arena', o)
  BY OpIs DEF OwnedKept, FromArena
<1>3. \A o \in Ops : SourceOwned(arena, o) => SourceOwned(arena', o)
  BY <1>2 DEF SourceOwned
<1>4. ASSUME NEW s \in Streams, NEW i \in DOMAIN queue'[s]
      PROVE  SourceOwned(arena', queue'[s][i])
  <2>1. queue[s] \in Seq(Ops) /\ queue'[s] \in Seq(Ops)
    BY <1>1, OpsTyped
  <2>2. i \in 1 .. Len(queue[s]) \/ i \in Len(queue[s]) + 1 .. Len(queue'[s])
    BY <2>1
  <2>3. CASE i \in 1 .. Len(queue[s])
    <3>1. i \in DOMAIN queue[s] /\ queue'[s][i] = queue[s][i] /\ queue[s][i] \in Ops
      BY <2>1, <2>3 DEF QueuesGrow
    <3> QED
      BY <1>1, <1>3, <3>1 DEF SourcesOwned
  <2> QED
    BY <2>2, <2>3
<1>5. \A i \in DOMAIN capture.ops : FromArena(arena', capture.ops[i])
  BY <1>1, <1>2, OpsTyped DEF SourcesOwned
<1>6. \A g \in DOMAIN graphs : \A i \in DOMAIN graphs[g] : FromArena(arena', graphs[g][i])
  BY <1>1, <1>2, OpsTyped DEF SourcesOwned
<1> QED
  BY <1>4, <1>5, <1>6 DEF SourcesOwned
-----------------------------------------------------------------------------
(* What is found stays found.                                             *)
LEMMA FindsStay ==
  ASSUME Typed, SourcesKept, QueuesGrow, NEW s \in Streams, NEW n \in 0 .. Len(queue[s]),
         NEW b, dev'[b] = dev[b], NEW v, Finds(Now, queue[s], n, b, v)
  PROVE  Finds(Now', queue'[s], n, b, v)
<1>1. queue[s] \in Seq(Ops)
  BY OpsTyped
<1>2. n \in Nat /\ \A k \in 1 .. n : k \in 1 .. Len(queue[s]) /\ k \in DOMAIN queue[s]
  BY <1>1
<1>3. \A k \in 1 .. n : queue'[s][k] = queue[s][k]
  BY <1>2 DEF QueuesGrow
<1>4. \A k \in 1 .. n : Copies(queue[s][k], b) => Source(Now', queue[s][k]) = Source(Now, queue[s][k])
  BY <1>2 DEF SourcesKept, Copies
<1>5. Now'.dev = dev' /\ Now.dev = dev
  BY DEF Now
<1> QED
  BY <1>2, <1>3, <1>4, <1>5, FindsSame

(* What the host refers to stays ready when no new copy overwrites it.     *)
LEMMA ReadyStays ==
  ASSUME Typed, SourcesKept, QueuesGrow, queue' \in [Streams -> Seq(Ops)],
         \A c \in Referenced : dev'[c] = dev[c] /\ home'[c] = home[c],
         \A s \in Streams : \A k \in Len(queue[s]) + 1 .. Len(queue'[s]) :
           \A c \in Referenced : Copies(queue'[s][k], c) => \A x : home[c] # StreamPool(x)
  PROVE  ReadyKept
<1>1. SUFFICES ASSUME NEW s \in Streams, NEW c \in Referenced, NEW v, Ready(s, c, v)
               PROVE  Ready(s, c, v)'
  BY DEF ReadyKept, Referenced
<1>2. c \in Buffers /\ home[c] = StreamPool(s) /\ Finds(Now, queue[s], Len(queue[s]), c, v)
  BY <1>1 DEF Ready
<1>3. queue[s] \in Seq(Ops) /\ queue'[s] \in Seq(Ops)
  BY OpsTyped
<1>4. /\ Len(queue[s]) \in Nat /\ Len(queue'[s]) \in Nat /\ Len(queue[s]) <= Len(queue'[s])
      /\ Len(queue[s]) \in 0 .. Len(queue[s])
  BY <1>3 DEF QueuesGrow
<1>5. Finds(Now', queue'[s], Len(queue[s]), c, v)
  BY <1>2, <1>4, FindsStay
<1>6. Finds(Now', queue'[s], Len(queue'[s]), c, v)
  <2>1. \A k \in Len(queue[s]) + 1 .. Len(queue'[s]) : ~Copies(queue'[s][k], c)
    BY <1>2
  <2> QED
    BY <1>4, <1>5, <2>1, FindsPast
<1> QED
  BY <1>2, <1>6 DEF Ready

(* Kernels queued before still find their values, when the memory they     *)
(* read is not written from the host.                                      *)
LEMMA QueuesStay ==
  ASSUME IInv, SourcesKept, QueuesGrow, queue' \in [Streams -> Seq(Ops)],
         \A s \in Streams : \A i \in DOMAIN queue[s], c \in Buffers :
           Reads(queue[s][i], c) => dev'[c] = dev[c],
         \A s \in Streams : \A i \in Len(queue[s]) + 1 .. Len(queue'[s]) :
           queue'[s][i].op = "kernel" =>
             \A t \in ToSet(queue'[s][i].reads) :
               Trusted(t) => t.lens = Lens(t.want) /\ Finds(Now', queue'[s], i - 1, t.buf, FlattenSeq(t.want))
  PROVE  QueuesRight'
<1>1. SUFFICES ASSUME NEW s \in Streams, NEW i \in DOMAIN queue'[s], queue'[s][i].op = "kernel",
                      NEW t \in ToSet(queue'[s][i].reads), Trusted(t)
               PROVE  t.lens = Lens(t.want) /\ Finds(Now', queue'[s], i - 1, t.buf, FlattenSeq(t.want))
  BY DEF QueuesRight
<1>2. Typed /\ QueuesRight
  BY DEF IInv
<1>3. /\ queue[s] \in Seq(Ops) /\ queue'[s] \in Seq(Ops)
      /\ \A j \in DOMAIN queue[s] : queue[s][j] \in Ops
  BY <1>2, OpsTyped
<1>4. i \in 1 .. Len(queue[s]) \/ i \in Len(queue[s]) + 1 .. Len(queue'[s])
  BY <1>3
<1>5. CASE i \in 1 .. Len(queue[s])
  <2>1. queue'[s][i] = queue[s][i] /\ i \in DOMAIN queue[s] /\ i - 1 \in 0 .. Len(queue[s])
    BY <1>3, <1>5 DEF QueuesGrow
  <2>2. t.lens = Lens(t.want) /\ Finds(Now, queue[s], i - 1, t.buf, FlattenSeq(t.want))
    BY <1>1, <1>2, <2>1 DEF QueuesRight
  <2>3. t.buf \in Buffers /\ Reads(queue[s][i], t.buf)
    BY <1>1, <1>3, <2>1, OpIs DEF Reads
  <2> QED
    BY <1>2, <2>1, <2>2, <2>3, FindsStay
<1>6. CASE i \in Len(queue[s]) + 1 .. Len(queue'[s])
  BY <1>1, <1>6
<1> QED
  BY <1>4, <1>5, <1>6

(* Finished graphs still bring their kernels what they read.               *)
LEMMA GraphsStay ==
  ASSUME IInv, SourcesKept
  PROVE  /\ SelfContained(Now', capture.ops)
         /\ \A g \in DOMAIN graphs : SelfContained(Now', graphs[g])
<1>1. Typed /\ GraphsRight
  BY DEF IInv
<1>2. SelfContained(Now', capture.ops)
  BY <1>1, OpsTyped, ContainedKept DEF GraphsRight, SourcesKept
<1>3. ASSUME NEW g \in DOMAIN graphs
      PROVE  SelfContained(Now', graphs[g])
  BY <1>1, OpsTyped, ContainedKept DEF GraphsRight, SourcesKept
<1> QED
  BY <1>2, <1>3

(* An arena, and the sources in it, that do not change.                    *)
LEMMA ArenaStays ==
  ASSUME UNCHANGED arena
  PROVE  OwnedKept
BY DEF OwnedKept
-----------------------------------------------------------------------------
(* A new tensor leaves the pools apart.                                    *)
LEMMA PoolsStay ==
  ASSUME IInv, graphs' = graphs, captures' = captures, Capturing' = Capturing,
         NEW pool, NEW b \in FreshBuffers(pool),
         (\E st \in Streams : pool = StreamPool(st)) \/ (Capturing /\ pool = CapturePool),
         home' = [home EXCEPT ![b] = pool],
         QueuesGrow, queue' \in [Streams -> Seq(Ops)],
         \A s \in Streams : \A k \in Len(queue[s]) + 1 .. Len(queue'[s]), c \in Buffers :
           Touches(queue'[s][k], c) => home'[c] = StreamPool(s),
         \A i \in DOMAIN capture'.ops, c \in Buffers : Touches(capture'.ops[i], c) =>
           (i \in DOMAIN capture.ops /\ capture'.ops[i] = capture.ops[i]) \/ home'[c] = CapturePool,
         ~Capturing => capture'.ops = <<>>
  PROVE  PoolsApart'
<1>1. Typed /\ PoolsApart
  BY DEF IInv
<1>2. home \in [Buffers -> Pools] /\ b \in Buffers
  BY <1>1, FreshIsApart DEF Typed
<1>3. home'[b] = pool /\ \A c \in Buffers : c # b => home'[c] = home[c]
  BY <1>2
<1>4. ~Sealed(b) /\ \A c \in Buffers : Sealed(c) => Sealed(c)'
  <2>1. ~Sealed(b)
    BY FreshIsApart
  <2>2. \A c \in Buffers : Sealed(c) => Sealed(c)'
    BY <1>3, <2>1 DEF Sealed
  <2> QED
    BY <2>1, <2>2
<1>5. CapturePool' = CapturePool
  BY DEF CapturePool
<1>6. ASSUME NEW s \in Streams, NEW i \in DOMAIN queue'[s], NEW c \in Buffers, Touches(queue'[s][i], c)
      PROVE  home'[c] = StreamPool(s) \/ (s = ReplayStream /\ Sealed(c)')
  <2>1. queue[s] \in Seq(Ops) /\ queue'[s] \in Seq(Ops)
    BY <1>1, OpsTyped
  <2>2. i \in 1 .. Len(queue[s]) \/ i \in Len(queue[s]) + 1 .. Len(queue'[s])
    BY <2>1
  <2>3. CASE i \in 1 .. Len(queue[s])
    <3>1. i \in DOMAIN queue[s] /\ Touches(queue[s][i], c)
      BY <1>6, <2>1, <2>3 DEF QueuesGrow
    <3>2. home[c] = StreamPool(s) \/ (s = ReplayStream /\ Sealed(c))
      BY <1>1, <3>1 DEF PoolsApart
    <3>3. c = b => pool = StreamPool(s)
      BY <3>1, FreshIsApart
    <3> QED
      BY <1>3, <1>4, <3>2, <3>3
  <2>4. CASE i \in Len(queue[s]) + 1 .. Len(queue'[s])
    BY <1>6, <2>4
  <2> QED
    BY <2>2, <2>3, <2>4
<1>7. ASSUME NEW g \in DOMAIN graphs, NEW i \in DOMAIN graphs[g], NEW c \in Buffers, Touches(graphs[g][i], c)
      PROVE  Sealed(c)'
  BY <1>1, <1>4, <1>7 DEF PoolsApart
<1>8. ASSUME NEW i \in DOMAIN capture'.ops, NEW c \in Buffers, Touches(capture'.ops[i], c)
      PROVE  home'[c] = CapturePool
  <2>1. CASE i \in DOMAIN capture.ops /\ capture'.ops[i] = capture.ops[i]
    <3>1. Touches(capture.ops[i], c) /\ home[c] = CapturePool
      BY <1>1, <1>8, <2>1 DEF PoolsApart
    <3>2. c = b => pool = CapturePool
      BY <2>1, <3>1, FreshIsApart
    <3> QED
      BY <1>3, <3>1, <3>2
  <2> QED
    BY <1>8, <2>1
<1> QED
  BY <1>5, <1>6, <1>7, <1>8 DEF PoolsApart

(* An upload gives its caller, and the memos, the new tensor.              *)
LEMMA UploadedKept ==
  ASSUME IInv, ReadyKept, ~Capturing, ~Capturing', UNCHANGED captures,
         NEW st \in Streams, NEW r \in Requests[st], NEW form,
         MayCall(st, r, form), NEW b \in Buffers, Uploaded(st, r, form, b),
         Ready(st, b, FlattenSeq(r))', \A x \in Referenced : home'[x] = home[x]
  PROVE  /\ MemosRight' /\ HeldRight' /\ held' \in Seq(Tables)
         /\ fast' \in Seq(Entries) /\ memo' \in Seq(Entries) /\ tiles' \in Seq(TileEntries)
<1>1. MemosRight /\ HeldRight /\ held \in Seq(Tables)
      /\ fast \in Seq(Entries) /\ memo \in Seq(Entries) /\ tiles \in Seq(TileEntries)
  BY DEF IInv, Typed
<1>2. PICK e : e = Entry(UploadKey(r, st), r, b)
  OBVIOUS
<1>3. e \in Entries /\ e.buf = b /\ e.lens = Lens(r) /\ e.key = UploadKey(r, st)
  BY <1>2, EntryIs
<1>4. Holds(st, r, e, FALSE) /\ memo' = MemoPut(e) /\ FastAfter(e, form) /\ TilesAfter(r, e, form)
  BY <1>2 DEF Uploaded
<1>5. fast' \in Seq(Entries) /\ ToSet(fast') \subseteq ToSet(fast) \cup {e}
  BY <1>1, <1>3, <1>4, FastAfterIs
<1>6. memo' \in Seq(Entries) /\ ToSet(memo') \subseteq ToSet(memo) \cup {e}
  BY <1>1, <1>3, <1>4, MemoPutIs
<1>7. /\ tiles' \in Seq(TileEntries)
      /\ \A f \in ToSet(tiles') :
           \/ f \in ToSet(tiles)
           \/ form = "tiles" /\ f.key = r /\ f.lens = e.lens /\ f.buf = e.buf
  BY <1>1, <1>3, <1>4, TilesAfterIs
<1>8. \A f \in ToSet(fast') \cup ToSet(memo') :
         \/ f \in ToSet(fast) \cup ToSet(memo)
         \/ f.key = UploadKey(r, st) /\ f.lens = e.lens /\ f.buf = e.buf
  BY <1>3, <1>5, <1>6
<1>9. Ready(st, e.buf, FlattenSeq(r))'
  BY <1>3
<1>10. MemosRight' /\ HeldRight' /\ held' \in Seq(Tables)
  <2>1. MemosRight /\ HeldRight /\ held \in Seq(Tables)
    BY <1>1
  <2>2. e.buf \in Buffers /\ e.lens = Lens(r) /\ Gives(st, r, e)
    BY <1>3, <1>4 DEF Gives
  <2>3. \A f \in ToSet(tiles') :
          \/ f \in ToSet(tiles)
          \/ form = "tiles" /\ f.key = r /\ f.lens = e.lens /\ f.buf = e.buf
    BY <1>7
  <2> QED
    BY <1>8, <1>9, <2>1, <2>2, <2>3, CallKept
<1> QED
  BY <1>5, <1>6, <1>7, <1>10

(* What is queued after operations are added on st.                        *)
Adds(st, ops) == queue' = [queue EXCEPT ![st] = @ \o ops]

LEMMA EnqueuedIs ==
  ASSUME Typed, NEW st \in Streams, NEW ops \in Seq(Ops), Adds(st, ops)
  PROVE  /\ QueuesGrow /\ queue' \in [Streams -> Seq(Ops)]
         /\ \A s \in Streams : \A k \in Len(queue[s]) + 1 .. Len(queue'[s]) :
              s = st /\ k - Len(queue[s]) \in 1 .. Len(ops) /\ queue'[s][k] = ops[k - Len(queue[s])]
         /\ Len(queue'[st]) = Len(queue[st]) + Len(ops)
         /\ \A k \in 1 .. Len(ops) : queue'[st][Len(queue[st]) + k] = ops[k]
<1>1. queue \in [Streams -> Seq(Ops)]
  BY DEF Typed
<1>2. queue' \in [Streams -> Seq(Ops)] /\ queue'[st] = queue[st] \o ops
      /\ \A s \in Streams : s # st => queue'[s] = queue[s]
  BY <1>1 DEF Adds
<1>3. queue[st] \in Seq(Ops)
  BY <1>1
<1>4. PICK q \in Seq(Ops) : q = queue[st]
  BY <1>3
<1>5. /\ Len(q \o ops) = Len(q) + Len(ops) /\ Len(q) \in Nat /\ Len(ops) \in Nat
      /\ \A k \in 1 .. Len(q) : (q \o ops)[k] = q[k]
      /\ \A k \in 1 .. Len(ops) : (q \o ops)[Len(q) + k] = ops[k]
  OBVIOUS
<1>6. \A k \in Len(q) + 1 .. Len(q \o ops) :
        k - Len(q) \in 1 .. Len(ops) /\ (q \o ops)[k] = ops[k - Len(q)]
  <2>1. ASSUME NEW k \in Len(q) + 1 .. Len(q \o ops)
        PROVE  k - Len(q) \in 1 .. Len(ops) /\ k = Len(q) + (k - Len(q))
    BY <1>5
  <2> QED
    BY <1>5, <2>1
<1>7. \A s \in Streams : s # st => Len(queue[s]) <= Len(queue'[s]) /\ Len(queue[s]) \in Nat
                                   /\ \A k \in Len(queue[s]) + 1 .. Len(queue'[s]) : FALSE
  BY <1>1, <1>2
<1>8. QueuesGrow
  BY <1>2, <1>4, <1>5, <1>7 DEF QueuesGrow
<1>9. \A s \in Streams : \A k \in Len(queue[s]) + 1 .. Len(queue'[s]) :
              s = st /\ k - Len(queue[s]) \in 1 .. Len(ops) /\ queue'[s][k] = ops[k - Len(queue[s])]
  BY <1>2, <1>4, <1>6, <1>7
<1> QED
  BY <1>2, <1>4, <1>5, <1>8, <1>9

LEMMA QueuesSame ==
  ASSUME Typed, UNCHANGED queue
  PROVE  /\ QueuesGrow /\ queue' \in [Streams -> Seq(Ops)]
         /\ \A s \in Streams : \A k \in Len(queue[s]) + 1 .. Len(queue'[s]) : FALSE
<1>1. \A s \in Streams : queue[s] \in Seq(Ops) /\ Len(queue[s]) \in Nat
  BY OpsTyped
<1>2. queue' \in [Streams -> Seq(Ops)]
  BY DEF Typed
<1> QED
  BY <1>1, <1>2 DEF QueuesGrow
-----------------------------------------------------------------------------
(* An upload through the ring.                                             *)
LEMMA StageKeeps ==
  ASSUME IInv, NEW st \in Streams, NEW r \in Requests[st], NEW form, Stage(st, r, form)
  PROVE  IInv'
<1> DEFINE z == ring.next
<1>1. Typed /\ PoolsApart /\ SourcesOwned
  BY DEF IInv
<1>2. /\ MayCall(st, r, form) /\ ~Capturing /\ Writable(z)
      /\ ring' = [slot |-> [ring.slot EXCEPT ![z] = FlattenSeq(r)], next |-> (z + 1) % RingSlots]
      /\ UNCHANGED <<arena, graphs, captures, dev>>
  BY DEF Stage, MissesAll
<1>3. PICK b \in FreshBuffers(StreamPool(st)) :
        /\ Enqueued(st, <<[op |-> "copy", pinned |-> "ring", slot |-> z, first |-> 1,
                           count |-> Total(r), buf |-> b]>>)
        /\ Uploaded(st, r, form, b)
  BY DEF Stage
<1>4. PICK o : o = [op |-> "copy", pinned |-> "ring", slot |-> z, first |-> 1,
                    count |-> Total(r), buf |-> b]
  OBVIOUS
<1>5. z \in 0 .. RingSlots - 1 /\ RingSlots \in Nat /\ RingSlots > 0
  <2>1. z \in 0 .. RingSlots - 1
    BY <1>1 DEF Typed
  <2>2. RingSlots \in Nat /\ RingSlots # 0
    BY PinnedStagingAssumption
  <2> QED
    BY <2>1, <2>2
<1>6. b \in Buffers /\ b \notin Referenced
  BY FreshIsApart
<1>7. o \in Ops /\ Copies(o, b) /\ \A c : Touches(o, c) => c = b
  <2>1. o \in CopyOps
    BY <1>4, <1>5, <1>6, RequestIs DEF CopyOps
  <2> QED
    BY <1>4, <2>1 DEF Ops, Copies, Touches, Reads
<1>8. /\ queue' = [queue EXCEPT ![st] = @ \o <<o>>] /\ capture' = capture
      /\ ~Capturing' /\ Capturing' = Capturing
  BY <1>2, <1>3, <1>4 DEF Enqueued, Capturing
<1>9. PICK ops : ops = <<o>> /\ ops \in Seq(Ops) /\ Len(ops) = 1 /\ ops[1] = o
  <2>1. <<o>> \in Seq(Ops) /\ Len(<<o>>) = 1 /\ <<o>>[1] = o
    BY <1>7
  <2> QED
    BY <2>1
<1>10. Adds(st, ops)
  BY <1>8, <1>9 DEF Adds
<1>11. /\ QueuesGrow /\ queue' \in [Streams -> Seq(Ops)]
       /\ \A s \in Streams : \A k \in Len(queue[s]) + 1 .. Len(queue'[s]) : s = st /\ queue'[s][k] = o
       /\ Len(queue'[st]) = Len(queue[st]) + 1 /\ queue'[st][Len(queue[st]) + 1] = o
  <2>1. 1 \in 1 .. Len(ops) /\ \A k \in 1 .. Len(ops) : k = 1
    BY <1>9
  <2>2. /\ QueuesGrow /\ queue' \in [Streams -> Seq(Ops)]
        /\ \A s \in Streams : \A k \in Len(queue[s]) + 1 .. Len(queue'[s]) :
              s = st /\ k - Len(queue[s]) \in 1 .. Len(ops) /\ queue'[s][k] = ops[k - Len(queue[s])]
        /\ Len(queue'[st]) = Len(queue[st]) + Len(ops)
        /\ \A k \in 1 .. Len(ops) : queue'[st][Len(queue[st]) + k] = ops[k]
    BY <1>1, <1>9, <1>10, EnqueuedIs
  <2>3. \A s \in Streams : \A k \in Len(queue[s]) + 1 .. Len(queue'[s]) : s = st /\ queue'[s][k] = o
    BY <1>9, <2>1, <2>2
  <2> QED
    BY <1>9, <2>1, <2>2, <2>3
<1>12. home' = [home EXCEPT ![b] = StreamPool(st)]
  BY <1>3 DEF Uploaded
<1>13. home'[b] = StreamPool(st) /\ \A c \in Buffers : c # b => home'[c] = home[c]
  BY <1>1, <1>6, <1>12 DEF Typed
<1>14. /\ ring'.next \in 0 .. RingSlots - 1 /\ ring'.slot[z] = FlattenSeq(r)
       /\ ring' = [slot |-> [s \in 0 .. RingSlots - 1 |-> ring'.slot[s]], next |-> ring'.next]
       /\ \A s \in 0 .. RingSlots - 1 : s # z => ring'.slot[s] = ring.slot[s]
  <2>1. PICK f : ring.slot = [s \in 0 .. RingSlots - 1 |-> f[s]]
    BY <1>1 DEF Typed
  <2>2. (z + 1) % RingSlots \in 0 .. RingSlots - 1
    BY <1>5
  <2> HIDE DEF z
  <2> QED
    BY <1>2, <1>5, <2>1, <2>2
<1> HIDE DEF z
<1>15. SourcesKept
  <2>1. \A s \in 0 .. RingSlots - 1 : ring'.slot[s] = ring.slot[s] \/ Writable(s)
    BY <1>2, <1>14
  <2> QED
    BY <1>2, <2>1, ArenaStays, SourcesStay
<1>16. ReadyKept /\ \A c \in Referenced : home'[c] = home[c]
  <2>1. \A c \in Referenced : c # b /\ c \in Buffers
    BY <1>6, ReferencedIs
  <2>2. \A c \in Referenced : dev'[c] = dev[c] /\ home'[c] = home[c]
    BY <1>2, <1>13, <2>1
  <2>3. \A s \in Streams : \A k \in Len(queue[s]) + 1 .. Len(queue'[s]) :
           \A c \in Referenced : ~Copies(queue'[s][k], c)
    BY <1>7, <1>11, <2>1 DEF Touches
  <2> QED
    BY <1>1, <1>11, <1>15, <2>2, <2>3, ReadyStays
<1>17. Ready(st, b, FlattenSeq(r))'
  <2>1. PICK l \in Nat : l = Len(queue'[st]) /\ l > 0 /\ queue'[st][l] = o
    <3>1. queue[st] \in Seq(Ops) /\ Len(queue[st]) \in Nat
      BY <1>1, OpsTyped
    <3>2. Len(queue'[st]) \in Nat /\ Len(queue'[st]) > 0
      BY <1>11, <3>1
    <3> QED
      BY <1>11, <3>2
  <2>2. Source(Now', o) = FlattenSeq(r)
    BY <1>4, <1>14 DEF Source, Now
  <2>3. Brings(Now', queue'[st], l, b, FlattenSeq(r))
    BY <1>7, <2>1, <2>2, CopyBrings
  <2> QED
    BY <1>6, <1>13, <2>1, <2>3 DEF Ready, Finds
<1>18. /\ MemosRight' /\ HeldRight' /\ held' \in Seq(Tables)
       /\ fast' \in Seq(Entries) /\ memo' \in Seq(Entries) /\ tiles' \in Seq(TileEntries)
  BY <1>2, <1>3, <1>6, <1>8, <1>16, <1>17, UploadedKept
<1>19. Typed'
  <2>1. StreamPool(st) \in Pools
    BY DEF Pools
  <2>2. home' \in [Buffers -> Pools]
    BY <1>1, <1>12, <2>1 DEF Typed
  <2>3. dev' = [c \in Buffers |-> dev'[c]] /\ graphs' \in Seq(Seq(Ops)) /\ captures' \in Nat
    BY <1>1, <1>2 DEF Typed
  <2>4. arena' \in [host : Seq(Seq(Nat)), off : Nat] /\ arena'.host # <<>> /\ (arena.off <= Len(Host))'
    BY <1>1, <1>2 DEF Typed, Host
  <2>5. capture' \in [on : BOOLEAN, ops : Seq(Ops)] /\ (Capturing' => captures' > 0)
    BY <1>1, <1>8 DEF Typed
  <2> QED
    BY <1>11, <1>14, <1>18, <2>2, <2>3, <2>4, <2>5 DEF Typed
<1>20. SourcesOwned'
  <2>1. SourceOwned(arena', o)
    BY <1>4, <1>5 DEF SourceOwned
  <2> QED
    BY <1>2, <1>8, <1>11, <2>1, ArenaStays, OwnedStay
<1>21. PoolsApart'
  <2>1. \A s \in Streams : \A k \in Len(queue[s]) + 1 .. Len(queue'[s]), c \in Buffers :
           Touches(queue'[s][k], c) => home'[c] = StreamPool(s)
    BY <1>7, <1>11, <1>13
  <2>2. capture'.ops = <<>> /\ DOMAIN capture'.ops = {}
    BY <1>1, <1>2, <1>8 DEF PoolsApart
  <2> QED
    BY <1>2, <1>8, <1>11, <1>12, <2>1, <2>2, PoolsStay
<1>22. QueuesRight'
  BY <1>2, <1>4, <1>11, <1>15, QueuesStay
<1>23. GraphsRight'
  BY <1>2, <1>8, <1>15, GraphsStay DEF GraphsRight
<1> QED
  BY <1>18, <1>19, <1>20, <1>21, <1>22, <1>23 DEF IInv

(* An upload from pageable memory: nothing is queued on its stream.        *)
LEMMA CopyPageableKeeps ==
  ASSUME IInv, NEW st \in Streams, NEW r \in Requests[st], NEW form, CopyPageable(st, r, form)
  PROVE  IInv'
<1>1. Typed /\ PoolsApart /\ SourcesOwned
  BY DEF IInv
<1>2. /\ MayCall(st, r, form) /\ ~Capturing /\ queue[st] = <<>>
      /\ UNCHANGED <<ring, arena, capture, graphs, captures, queue>>
      /\ ~Capturing' /\ Capturing' = Capturing
  BY DEF CopyPageable, MissesAll, Capturing
<1>3. PICK b \in FreshBuffers(StreamPool(st)) :
        dev' = [dev EXCEPT ![b] = FlattenSeq(r)] /\ Uploaded(st, r, form, b)
  BY DEF CopyPageable
<1>4. b \in Buffers /\ b \notin Referenced
  BY FreshIsApart
<1>5. home' = [home EXCEPT ![b] = StreamPool(st)]
  BY <1>3 DEF Uploaded
<1>6. home'[b] = StreamPool(st) /\ \A c \in Buffers : c # b => home'[c] = home[c]
  BY <1>1, <1>4, <1>5 DEF Typed
<1>7. /\ dev' = [c \in Buffers |-> dev'[c]]
      /\ dev'[b] = FlattenSeq(r) /\ \A c \in Buffers : c # b => dev'[c] = dev[c]
  BY <1>1, <1>3, <1>4 DEF Typed
<1>8. /\ QueuesGrow /\ queue' \in [Streams -> Seq(Ops)]
      /\ \A s \in Streams : \A k \in Len(queue[s]) + 1 .. Len(queue'[s]) : FALSE
  BY <1>1, <1>2, QueuesSame
<1>9. SourcesKept
  BY <1>2, ArenaStays, SourcesStay
<1>10. ReadyKept /\ \A c \in Referenced : home'[c] = home[c]
  <2>1. \A c \in Referenced : c # b /\ c \in Buffers
    BY <1>4, ReferencedIs
  <2>2. \A c \in Referenced : dev'[c] = dev[c] /\ home'[c] = home[c]
    BY <1>6, <1>7, <2>1
  <2> QED
    BY <1>1, <1>8, <1>9, <2>2, ReadyStays
<1>11. Ready(st, b, FlattenSeq(r))'
  <2>1. queue'[st] = <<>> /\ Len(queue'[st]) = 0 /\ \A k \in 1 .. 0 : FALSE
    BY <1>2
  <2>2. Now'.dev[b] = FlattenSeq(r)
    BY <1>7 DEF Now
  <2>3. Finds(Now', queue'[st], Len(queue'[st]), b, FlattenSeq(r))
    BY <2>1, <2>2 DEF Finds
  <2> QED
    BY <1>4, <1>6, <2>3 DEF Ready
<1>12. /\ MemosRight' /\ HeldRight' /\ held' \in Seq(Tables)
       /\ fast' \in Seq(Entries) /\ memo' \in Seq(Entries) /\ tiles' \in Seq(TileEntries)
  BY <1>2, <1>3, <1>4, <1>10, <1>11, UploadedKept
<1>13. Typed'
  <2>1. StreamPool(st) \in Pools
    BY DEF Pools
  <2>2. home' \in [Buffers -> Pools]
    BY <1>1, <1>5, <2>1 DEF Typed
  <2> QED
    BY <1>1, <1>2, <1>7, <1>8, <1>12, <2>2 DEF Typed, Host
<1>14. SourcesOwned'
  BY <1>2, <1>8, ArenaStays, OwnedStay
<1>15. PoolsApart'
  <2>1. capture'.ops = <<>> /\ DOMAIN capture'.ops = {}
    BY <1>1, <1>2 DEF PoolsApart
  <2> QED
    BY <1>2, <1>5, <1>8, <2>1, PoolsStay
<1>16. QueuesRight'
  <2>1. ASSUME NEW s \in Streams, NEW i \in DOMAIN queue[s], NEW c \in Buffers, Reads(queue[s][i], c)
        PROVE  dev'[c] = dev[c]
    <3>1. s # st
      BY <1>2
    <3>2. c # b
      BY <2>1, <3>1, FreshIsApart, PoolsDiffer DEF Touches
    <3> QED
      BY <1>7, <3>2
  <2> QED
    BY <1>8, <1>9, <2>1, QueuesStay
<1>17. GraphsRight'
  BY <1>2, <1>9, GraphsStay DEF GraphsRight
<1> QED
  BY <1>12, <1>13, <1>14, <1>15, <1>16, <1>17 DEF IInv
-----------------------------------------------------------------------------
(* The arena.                                                              *)
LEMMA Shifted ==
  ASSUME NEW a \in Nat, NEW n \in Nat
  PROVE  (a + n - 1) - a + 1 = n /\ \A i \in 1 .. n : i + a - 1 \in a .. a + n - 1
OBVIOUS

LEMMA SliceIs ==
  ASSUME NEW s \in Seq(Nat), NEW a \in Nat, a > 0, NEW n \in Nat, a + n - 1 <= Len(s)
  PROVE  SubSeq(s, a, a + n - 1) = [i \in 1 .. n |-> s[i + a - 1]]
<1>1. PICK c \in Int : c = a + n - 1 /\ c - a + 1 = n
  BY Shifted
<1>2. SubSeq(s, a, c) = [i \in 1 .. c - a + 1 |-> s[i + a - 1]]
  OBVIOUS
<1> QED
  BY <1>1, <1>2

LEMMA SameSlice ==
  ASSUME NEW s \in Seq(Nat), NEW t \in Seq(Nat), NEW a \in Nat, a > 0, NEW n \in Nat,
         a + n - 1 <= Len(s), a + n - 1 <= Len(t), \A i \in a .. a + n - 1 : s[i] = t[i]
  PROVE  SubSeq(s, a, a + n - 1) = SubSeq(t, a, a + n - 1)
<1>1. /\ SubSeq(s, a, a + n - 1) = [i \in 1 .. n |-> s[i + a - 1]]
      /\ SubSeq(t, a, a + n - 1) = [i \in 1 .. n |-> t[i + a - 1]]
  BY SliceIs
<1>2. \A i \in 1 .. n : i + a - 1 \in a .. a + n - 1
  BY Shifted
<1> QED
  BY <1>1, <1>2

LEMMA WrittenIs ==
  ASSUME NEW s \in Seq(Nat), NEW ints \in Seq(Nat), NEW a \in Nat, a > 0, a + Len(ints) - 1 <= Len(s)
  PROVE  LET w == Written(s, a, ints)
         IN /\ w \in Seq(Nat) /\ Len(w) = Len(s)
            /\ \A i \in 1 .. a - 1 : w[i] = s[i]
            /\ SubSeq(w, a, a + Len(ints) - 1) = ints
<1> DEFINE n == Len(ints)
           w == Written(s, a, ints)
<1>1. /\ n \in Nat /\ Len(s) \in Nat /\ \A i \in 1 .. Len(s) : s[i] \in Nat
      /\ \A i \in 1 .. n : ints[i] \in Nat
  OBVIOUS
<1>2. w = [i \in 1 .. Len(s) |-> IF i \in a .. a + n - 1 THEN ints[i - a + 1] ELSE s[i]]
  BY DEF Written
<1>3. \A i \in a .. a + n - 1 : i - a + 1 \in 1 .. n
  BY <1>1
<1> HIDE DEF n, w
<1>4. w \in Seq(Nat) /\ Len(w) = Len(s)
  BY <1>1, <1>2, <1>3
<1>5. \A i \in 1 .. a - 1 : w[i] = s[i]
  <2>1. \A i \in 1 .. a - 1 : i \in 1 .. Len(s) /\ i \notin a .. a + n - 1
    BY <1>1 DEF n
  <2> QED
    BY <1>2, <2>1
<1>6. SubSeq(w, a, a + n - 1) = ints
  <2>1. SubSeq(w, a, a + n - 1) = [i \in 1 .. n |-> w[i + a - 1]]
    BY <1>1, <1>4 DEF n
  <2>2. ASSUME NEW i \in 1 .. n
        PROVE  w[i + a - 1] = ints[i]
    <3>1. i + a - 1 \in 1 .. Len(s) /\ i + a - 1 \in a .. a + n - 1 /\ (i + a - 1) - a + 1 = i
      BY <1>1 DEF n
    <3> QED
      BY <1>2, <3>1
  <2>3. ints = [i \in 1 .. n |-> ints[i]]
    BY DEF n
  <2> QED
    BY <2>1, <2>2, <2>3
<1> QED
  BY <1>4, <1>5, <1>6 DEF n, w

(* A slice is taken behind those that are owned.                           *)
Taken(a, ints) ==
  [host |-> [a.host EXCEPT ![Len(a.host)] = Written(@, a.off + 1, ints)], off |-> a.off + Len(ints)]

LEMMA SliceKept ==
  ASSUME Typed, NEW ints \in Seq(Nat), arena.off + Len(ints) <= Len(Host), arena' = Taken(arena, ints)
  PROVE  /\ OwnedKept
         /\ arena' \in [host : Seq(Seq(Nat)), off : Nat] /\ arena'.host # <<>> /\ (arena.off <= Len(Host))'
         /\ Len(arena.host) \in DOMAIN arena'.host /\ Len(arena'.host) = Len(arena.host)
         /\ arena.off + Len(ints) <= Len(arena'.host[Len(arena.host)])
         /\ SubSeq(arena'.host[Len(arena.host)], arena.off + 1, arena.off + Len(ints)) = ints
<1>1. PICK h, f : h = arena.host /\ f = arena.off
  OBVIOUS
<1>2. h \in Seq(Seq(Nat)) /\ h # <<>> /\ f \in Nat /\ Len(ints) \in Nat
  BY <1>1 DEF Typed
<1>3. PICK l : l = Len(h) /\ l \in Nat /\ l \in 1 .. Len(h) /\ h[l] \in Seq(Nat) /\ Len(h[l]) \in Nat
  <2>1. Len(h) \in Nat /\ Len(h) \in 1 .. Len(h) /\ h[Len(h)] \in Seq(Nat)
    BY <1>2
  <2> QED
    BY <2>1
<1>4. Host = h[l] /\ f + Len(ints) <= Len(h[l])
  <2>1. Host = h[l]
    BY <1>1, <1>3 DEF Host, Last
  <2> QED
    BY <1>1, <2>1
<1>5. PICK w : w = Written(h[l], f + 1, ints)
  OBVIOUS
<1>6. /\ w \in Seq(Nat) /\ Len(w) = Len(h[l])
      /\ \A i \in 1 .. f : w[i] = h[l][i]
      /\ SubSeq(w, f + 1, f + Len(ints)) = ints
  <2>1. PICK a : a = f + 1
    OBVIOUS
  <2>2. a \in Nat /\ a > 0 /\ a + Len(ints) - 1 = f + Len(ints) /\ a - 1 = f
    BY <1>2, <2>1
  <2>3. PICK s \in Seq(Nat) : s = h[l] /\ a + Len(ints) - 1 <= Len(s)
    BY <1>3, <1>4, <2>2
  <2>4. LET v == Written(s, a, ints)
        IN /\ v \in Seq(Nat) /\ Len(v) = Len(s)
           /\ \A i \in 1 .. a - 1 : v[i] = s[i]
           /\ SubSeq(v, a, a + Len(ints) - 1) = ints
    BY <2>2, <2>3, WrittenIs
  <2>5. w = Written(s, a, ints)
    BY <1>5, <2>1, <2>3
  <2> QED
    BY <2>1, <2>2, <2>3, <2>4, <2>5
<1>7. PICK g : g = [h EXCEPT ![l] = w]
  OBVIOUS
<1>8. arena' = [host |-> g, off |-> f + Len(ints)]
  BY <1>1, <1>3, <1>5, <1>7 DEF Taken
<1>9. /\ g \in Seq(Seq(Nat)) /\ Len(g) = l /\ g[l] = w /\ DOMAIN g = DOMAIN h /\ g # <<>>
      /\ \A i \in 1 .. l : i # l => g[i] = h[i]
  <2>1. /\ g \in Seq(Seq(Nat)) /\ Len(g) = Len(h)
        /\ \A i \in 1 .. Len(h) : g[i] = IF i = l THEN w ELSE h[i]
    BY <1>2, <1>3, <1>6, <1>7, ExceptSeq
  <2>2. DOMAIN h = 1 .. Len(h) /\ DOMAIN g = 1 .. Len(g)
    BY <1>2, <2>1
  <2> QED
    BY <1>3, <2>1, <2>2
<1>10. arena'.host = g /\ arena'.off = f + Len(ints)
  BY <1>8
<1>11. OwnedKept
  <2>1. SUFFICES ASSUME NEW o \in CopyOps, Owned(arena, o)
                 PROVE  /\ Owned(arena', o)
                        /\ SubSeq(g[o.slot], o.first, o.first + o.count - 1)
                             = SubSeq(h[o.slot], o.first, o.first + o.count - 1)
    BY <1>1, <1>10 DEF OwnedKept
  <2>2. o.slot \in Nat /\ o.first \in Nat /\ o.count \in Nat
    BY DEF CopyOps
  <2>3. /\ o.slot \in DOMAIN h /\ o.first > 0 /\ o.first + o.count - 1 <= Len(h[o.slot])
        /\ o.slot = l => o.first + o.count - 1 <= f
    BY <1>1, <1>3, <2>1 DEF Owned
  <2>4. CASE o.slot = l
    <3>1. o.first + o.count - 1 <= f /\ \A i \in o.first .. o.first + o.count - 1 : i \in 1 .. f
      BY <1>2, <2>2, <2>3, <2>4
    <3>2. SubSeq(w, o.first, o.first + o.count - 1) = SubSeq(h[l], o.first, o.first + o.count - 1)
      <4>1. o.first + o.count - 1 <= Len(w) /\ o.first + o.count - 1 <= Len(h[l])
        BY <1>6, <2>3, <2>4
      <4>2. \A i \in o.first .. o.first + o.count - 1 : w[i] = h[l][i]
        BY <1>6, <3>1
      <4>3. PICK s, a, m : s = h[l] /\ a = o.first /\ m = o.count
        OBVIOUS
      <4>4. /\ s \in Seq(Nat) /\ a \in Nat /\ a > 0 /\ m \in Nat
            /\ a + m - 1 <= Len(s) /\ a + m - 1 <= Len(w) /\ \A i \in a .. a + m - 1 : w[i] = s[i]
        BY <1>3, <2>2, <2>3, <4>1, <4>2, <4>3
      <4>5. SubSeq(w, a, a + m - 1) = SubSeq(s, a, a + m - 1)
        BY <1>6, <4>4, SameSlice
      <4> QED
        BY <4>3, <4>5
    <3>3. o.first + o.count - 1 <= f + Len(ints)
      BY <1>2, <2>2, <3>1
    <3> QED
      BY <1>6, <1>9, <1>10, <2>3, <2>4, <3>2, <3>3 DEF Owned
  <2>5. CASE o.slot # l
    <3>1. o.slot \in 1 .. l /\ g[o.slot] = h[o.slot]
      BY <1>2, <1>3, <1>9, <2>3, <2>5
    <3> QED
      BY <1>9, <1>10, <2>3, <2>5, <3>1 DEF Owned
  <2> QED
    BY <2>4, <2>5
<1>12. arena' \in [host : Seq(Seq(Nat)), off : Nat] /\ arena'.host # <<>>
  BY <1>2, <1>8, <1>9
<1>13. Host' = w
  BY <1>9, <1>10 DEF Host, Last
<1>14. l \in DOMAIN g /\ Len(arena.host) = l
  BY <1>1, <1>3, <1>9
<1>15. f + Len(ints) <= Len(w)
  BY <1>4, <1>6
<1> QED
  BY <1>1, <1>6, <1>9, <1>10, <1>11, <1>12, <1>13, <1>14, <1>15

LEMMA MaxOfTwo ==
  ASSUME NEW i \in Nat, NEW j \in Nat
  PROVE  Max({i, j}) \in Nat /\ Max({i, j}) >= i /\ Max({i, j}) >= j
<1>1. \E x \in {i, j} : \A y \in {i, j} : x >= y
  <2>1. CASE i <= j
    BY <2>1
  <2>2. CASE j <= i
    BY <2>2
  <2> QED
    BY <2>1, <2>2
<1>2. Max({i, j}) \in {i, j} /\ \A y \in {i, j} : Max({i, j}) >= y
  BY <1>1 DEF Max
<1> QED
  BY <1>2

(* A grown arena keeps the old buffer.                                     *)
LEMMA GrownKept ==
  ASSUME Typed, NEW need \in Nat, arena' = Grown(need)
  PROVE  /\ OwnedKept
         /\ arena' \in [host : Seq(Seq(Nat)), off : Nat] /\ arena'.host # <<>> /\ (arena.off <= Len(Host))'
<1>1. PICK h, f : h = arena.host /\ f = arena.off
  OBVIOUS
<1>2. h \in Seq(Seq(Nat)) /\ h # <<>> /\ f \in Nat /\ arena \in [host : Seq(Seq(Nat)), off : Nat]
  BY <1>1 DEF Typed
<1>3. Host = h[Len(h)] /\ Host \in Seq(Nat) /\ Len(Host) \in Nat /\ f <= Len(Host)
  BY <1>1, <1>2 DEF Host, Last, Typed
<1>4. PICK n : n = Max({2 * Len(Host), need})
  OBVIOUS
<1>5. n \in Nat /\ f <= n
  <2>1. 2 * Len(Host) \in Nat /\ f <= 2 * Len(Host)
    BY <1>2, <1>3
  <2>2. n \in Nat /\ n >= 2 * Len(Host)
    BY <1>4, <2>1, MaxOfTwo
  <2> QED
    BY <1>2, <2>1, <2>2
<1>6. PICK x : x = [i \in 1 .. n |-> IF i <= f THEN Host[i] ELSE 0]
  OBVIOUS
<1>7. x \in Seq(Nat) /\ Len(x) = n
  <2>1. \A i \in 1 .. n : i <= f => Host[i] \in Nat
    BY <1>2, <1>3
  <2>2. x \in [1 .. n -> Nat]
    BY <1>6, <2>1
  <2> QED
    BY <1>5, <2>2
<1>8. arena'.host = Append(h, x) /\ arena'.off = f /\ arena' = [arena EXCEPT !.host = Append(h, x)]
  BY <1>1, <1>2, <1>4, <1>6 DEF Grown
<1>9. PICK g : g = Append(h, x)
  OBVIOUS
<1>10. /\ g \in Seq(Seq(Nat)) /\ Len(g) = Len(h) + 1 /\ g[Len(h) + 1] = x /\ g # <<>>
       /\ \A i \in DOMAIN h : g[i] = h[i] /\ i \in DOMAIN g /\ i # Len(g)
  <2>1. g \in Seq(Seq(Nat)) /\ Len(g) = Len(h) + 1 /\ g[Len(h) + 1] = x
    BY <1>2, <1>7, <1>9
  <2>2. \A i \in 1 .. Len(h) : g[i] = h[i]
    BY <1>2, <1>7, <1>9
  <2>3. Len(h) \in Nat /\ DOMAIN h = 1 .. Len(h) /\ DOMAIN g = 1 .. Len(h) + 1 /\ g # <<>>
    BY <1>2, <2>1
  <2> QED
    BY <2>1, <2>2, <2>3
<1>11. OwnedKept
  <2>1. SUFFICES ASSUME NEW o \in CopyOps, Owned(arena, o)
                 PROVE  Owned(arena', o) /\ arena'.host[o.slot] = arena.host[o.slot]
    BY DEF OwnedKept
  <2>2. o.slot \in DOMAIN h
    BY <1>1, <2>1 DEF Owned
  <2>3. g[o.slot] = h[o.slot] /\ o.slot \in DOMAIN g /\ o.slot # Len(g)
    BY <1>10, <2>2
  <2> QED
    BY <1>1, <1>8, <1>9, <2>1, <2>3 DEF Owned
<1>12. arena' \in [host : Seq(Seq(Nat)), off : Nat] /\ arena'.host # <<>>
  BY <1>2, <1>8, <1>9, <1>10
<1>13. Host' = x
  BY <1>8, <1>9, <1>10 DEF Host, Last
<1> QED
  BY <1>5, <1>7, <1>8, <1>11, <1>12, <1>13
-----------------------------------------------------------------------------
(* The graph under capture after operations are added to it.               *)
Captures(ops) == capture' = [capture EXCEPT !.ops = @ \o ops]

LEMMA CapturesIs ==
  ASSUME Typed, NEW ops \in Seq(Ops), Captures(ops)
  PROVE  /\ capture' \in [on : BOOLEAN, ops : Seq(Ops)] /\ Capturing' = Capturing
         /\ capture'.ops \in Seq(Ops) /\ Len(capture'.ops) = Len(capture.ops) + Len(ops)
         /\ \A k \in 1 .. Len(capture.ops) : capture'.ops[k] = capture.ops[k]
         /\ \A k \in DOMAIN capture'.ops :
              \/ k \in DOMAIN capture.ops /\ capture'.ops[k] = capture.ops[k]
              \/ k - Len(capture.ops) \in 1 .. Len(ops) /\ capture'.ops[k] = ops[k - Len(capture.ops)]
<1>1. capture \in [on : BOOLEAN, ops : Seq(Ops)]
  BY DEF Typed
<1>2. PICK q \in Seq(Ops) : q = capture.ops
  BY <1>1
<1>3. PICK q2 : q2 = q \o ops
  OBVIOUS
<1>4. /\ q2 \in Seq(Ops) /\ Len(q2) = Len(q) + Len(ops) /\ Len(q) \in Nat /\ Len(ops) \in Nat
      /\ \A k \in 1 .. Len(q) : q2[k] = q[k]
      /\ \A k \in 1 .. Len(ops) : q2[Len(q) + k] = ops[k]
  BY <1>3
<1>5. ASSUME NEW k \in DOMAIN q2
      PROVE  \/ k \in DOMAIN q /\ q2[k] = q[k]
             \/ k - Len(q) \in 1 .. Len(ops) /\ q2[k] = ops[k - Len(q)]
  <2>1. k \in 1 .. Len(q) \/ (k - Len(q) \in 1 .. Len(ops) /\ k = Len(q) + (k - Len(q)))
    BY <1>4
  <2> QED
    BY <1>4, <2>1
<1>6. capture' = [capture EXCEPT !.ops = q2]
  BY <1>2, <1>3 DEF Captures
<1>7. capture'.ops = q2 /\ Capturing' = Capturing /\ capture' \in [on : BOOLEAN, ops : Seq(Ops)]
  BY <1>1, <1>4, <1>6 DEF Capturing
<1> QED
  BY <1>2, <1>4, <1>5, <1>7

(* What the capture brings so far, it still brings.                        *)
LEMMA BringsStay ==
  ASSUME Typed, SourcesKept, NEW n \in 0 .. Len(capture.ops), NEW b, NEW v,
         \A k \in 1 .. Len(capture.ops) : capture'.ops[k] = capture.ops[k],
         Brings(Now, capture.ops, n, b, v)
  PROVE  Brings(Now', capture'.ops, n, b, v)
<1>1. capture.ops \in Seq(Ops)
  BY OpsTyped
<1>2. n \in Nat /\ \A k \in 1 .. n : k \in 1 .. Len(capture.ops) /\ k \in DOMAIN capture.ops
  BY <1>1
<1>3. \A k \in 1 .. n : capture'.ops[k] = capture.ops[k]
  BY <1>2
<1>4. \A k \in 1 .. n : Copies(capture.ops[k], b) => Source(Now', capture.ops[k]) = Source(Now, capture.ops[k])
  BY <1>2 DEF SourcesKept, Copies
<1> QED
  BY <1>2, <1>3, <1>4, FindsSame

(* A tensor of the capture stays ready when no new copy overwrites it.     *)
LEMMA CaptureStays ==
  ASSUME Typed, SourcesKept, UNCHANGED captures, capture'.ops \in Seq(Ops),
         Len(capture.ops) <= Len(capture'.ops),
         \A k \in 1 .. Len(capture.ops) : capture'.ops[k] = capture.ops[k],
         NEW c, home'[c] = home[c],
         \A k \in Len(capture.ops) + 1 .. Len(capture'.ops) : ~Copies(capture'.ops[k], c),
         NEW v, ReadyInCapture(c, v)
  PROVE  ReadyInCapture(c, v)'
<1>1. /\ Len(capture.ops) \in Nat /\ Len(capture'.ops) \in Nat
      /\ Len(capture.ops) \in 0 .. Len(capture.ops)
  <2>1. capture.ops \in Seq(Ops)
    BY OpsTyped
  <2> QED
    BY <2>1
<1>2. c \in Buffers /\ home[c] = CapturePool /\ Brings(Now, capture.ops, Len(capture.ops), c, v)
  BY DEF ReadyInCapture
<1>3. Brings(Now', capture'.ops, Len(capture.ops), c, v)
  BY <1>1, <1>2, BringsStay
<1>4. Brings(Now', capture'.ops, Len(capture'.ops), c, v)
  BY <1>1, <1>3, FindsPast
<1>5. CapturePool' = CapturePool
  BY DEF CapturePool
<1> QED
  BY <1>2, <1>4, <1>5 DEF ReadyInCapture

(* The graph under capture stays self-contained as it grows.               *)
LEMMA ContainedMore ==
  ASSUME NEW m, NEW q \in Seq(Ops), NEW q2, SelfContained(m, q),
         \A k \in 1 .. Len(q) : q2[k] = q[k],
         \A i \in DOMAIN q2 : i \in DOMAIN q \/
           (q2[i].op = "kernel" =>
              \A t \in ToSet(q2[i].reads) :
                Trusted(t) => t.lens = Lens(t.want) /\ Brings(m, q2, i - 1, t.buf, FlattenSeq(t.want)))
  PROVE  SelfContained(m, q2)
<1>1. SUFFICES ASSUME NEW i \in DOMAIN q2, q2[i].op = "kernel", NEW t \in ToSet(q2[i].reads), Trusted(t)
               PROVE  t.lens = Lens(t.want) /\ Brings(m, q2, i - 1, t.buf, FlattenSeq(t.want))
  BY DEF SelfContained
<1>2. CASE i \in DOMAIN q
  <2>1. q2[i] = q[i] /\ i - 1 \in Nat /\ \A k \in 1 .. i - 1 : k \in 1 .. Len(q)
    BY <1>2
  <2>2. t.lens = Lens(t.want) /\ Brings(m, q, i - 1, t.buf, FlattenSeq(t.want))
    BY <1>1, <1>2, <2>1 DEF SelfContained
  <2>3. \A k \in 1 .. i - 1 : q2[k] = q[k]
    BY <2>1
  <2> QED
    BY <2>1, <2>2, <2>3, FindsSame
<1> QED
  BY <1>1, <1>2

(* A call under capture.                                                   *)
LEMMA TakeSliceKeeps ==
  ASSUME IInv, NEW st \in Streams, NEW r \in Requests[st], NEW form,
         TakeSlice(st, r, form)
  PROVE  IInv'
<1> DEFINE l == Len(arena.host)
<1>1. Typed /\ PoolsApart /\ SourcesOwned /\ MemosRight /\ HeldRight
  BY DEF IInv
<1>2. /\ MayCall(st, r, form) /\ Capturing /\ Fits(r)
      /\ UNCHANGED <<ring, fast, memo, graphs, captures, dev>>
  BY DEF TakeSlice
<1>3. PICK b \in FreshBuffers(CapturePool) :
        LET e == Entry(r, r, b)
        IN /\ Enqueued(st, <<[op |-> "copy", pinned |-> "arena", slot |-> l,
                              first |-> arena.off + 1, count |-> Total(r), buf |-> b]>>)
           /\ home' = [home EXCEPT ![b] = CapturePool]
           /\ Holds(st, r, e, FALSE)
           /\ TilesAfter(r, e, form)
  BY DEF TakeSlice
<1>4. PICK o : o = [op |-> "copy", pinned |-> "arena", slot |-> l,
                    first |-> arena.off + 1, count |-> Total(r), buf |-> b]
  OBVIOUS
<1>5. b \in Buffers /\ b \notin Referenced
  BY <1>2, FreshIsApart
<1>6. l \in Nat /\ arena.off \in Nat
  BY <1>1 DEF Typed
<1>7. o \in Ops /\ Copies(o, b) /\ \A c : Touches(o, c) => c = b
  <2>1. o \in CopyOps
    BY <1>4, <1>5, <1>6, RequestIs DEF CopyOps
  <2> QED
    BY <1>4, <2>1 DEF Ops, Copies, Touches, Reads
<1>8. PICK ops : ops = <<o>> /\ ops \in Seq(Ops) /\ Len(ops) = 1 /\ ops[1] = o
  <2>1. <<o>> \in Seq(Ops) /\ Len(<<o>>) = 1 /\ <<o>>[1] = o
    BY <1>7
  <2> QED
    BY <2>1
<1>9. Captures(ops) /\ queue' = queue
  BY <1>2, <1>3, <1>4, <1>8 DEF Enqueued, Captures
<1>10. /\ capture' \in [on : BOOLEAN, ops : Seq(Ops)] /\ Capturing' = Capturing
       /\ capture'.ops \in Seq(Ops) /\ Len(capture'.ops) = Len(capture.ops) + 1
       /\ \A k \in 1 .. Len(capture.ops) : capture'.ops[k] = capture.ops[k]
       /\ \A k \in DOMAIN capture'.ops :
            \/ k \in DOMAIN capture.ops /\ capture'.ops[k] = capture.ops[k]
            \/ k = Len(capture.ops) + 1 /\ capture'.ops[k] = o
  <2>1. capture.ops \in Seq(Ops) /\ Len(capture.ops) \in Nat
    BY <1>1, OpsTyped
  <2>2. \A k \in Int : k - Len(capture.ops) \in 1 .. 1 => k - Len(capture.ops) = 1 /\ k = Len(capture.ops) + 1
    BY <2>1
  <2>3. /\ capture' \in [on : BOOLEAN, ops : Seq(Ops)] /\ Capturing' = Capturing
        /\ capture'.ops \in Seq(Ops) /\ Len(capture'.ops) = Len(capture.ops) + Len(ops)
        /\ \A k \in 1 .. Len(capture.ops) : capture'.ops[k] = capture.ops[k]
        /\ \A k \in DOMAIN capture'.ops :
             \/ k \in DOMAIN capture.ops /\ capture'.ops[k] = capture.ops[k]
             \/ k - Len(capture.ops) \in 1 .. Len(ops) /\ capture'.ops[k] = ops[k - Len(capture.ops)]
    BY <1>1, <1>8, <1>9, CapturesIs
  <2>4. \A k \in DOMAIN capture'.ops : k \in Int
    BY <2>3
  <2> QED
    BY <1>8, <2>2, <2>3, <2>4
<1>11. /\ home' = [home EXCEPT ![b] = CapturePool] /\ Holds(st, r, Entry(r, r, b), FALSE)
       /\ tiles' \in Seq(TileEntries)
       /\ \A f \in ToSet(tiles') : f \in ToSet(tiles) \/ (f.key = r /\ f.lens = Lens(r) /\ f.buf = b)
  <2>1. PICK e : e = Entry(r, r, b)
    OBVIOUS
  <2>2. e \in TileEntries /\ e.buf = b /\ e.lens = Lens(r)
    BY <1>5, <2>1, RequestIs DEF Entry, TileEntries
  <2>3. home' = [home EXCEPT ![b] = CapturePool] /\ Holds(st, r, e, FALSE) /\ TilesAfter(r, e, form)
    BY <1>3, <2>1
  <2>4. tiles \in Seq(TileEntries)
    BY <1>1 DEF Typed
  <2>5. /\ tiles' \in Seq(TileEntries)
        /\ \A f \in ToSet(tiles') :
             f \in ToSet(tiles) \/ (f.key = r /\ f.lens = e.lens /\ f.buf = e.buf)
    BY <2>2, <2>3, <2>4, TilesAfterIs
  <2> QED
    BY <2>1, <2>2, <2>3, <2>5
<1>12. home'[b] = CapturePool /\ \A c \in Buffers : c # b => home'[c] = home[c]
  BY <1>1, <1>5, <1>11 DEF Typed
<1>13. CapturePool' = CapturePool /\ Now'.dev = Now.dev
  BY <1>2 DEF CapturePool, Now
<1>14. FlattenSeq(r) \in Seq(Nat) /\ Total(r) = Len(FlattenSeq(r)) /\ Total(r) \in Nat
  BY RequestIs
<1>15. /\ OwnedKept
       /\ arena' \in [host : Seq(Seq(Nat)), off : Nat] /\ arena'.host # <<>> /\ (arena.off <= Len(Host))'
       /\ l \in DOMAIN arena'.host /\ Len(arena'.host) = l /\ arena'.off = arena.off + Total(r)
       /\ arena.off + Total(r) <= Len(arena'.host[l])
       /\ SubSeq(arena'.host[l], arena.off + 1, arena.off + Total(r)) = FlattenSeq(r)
  <2>1. arena' = Taken(arena, FlattenSeq(r))
    BY <1>14 DEF TakeSlice, Taken
  <2>2. arena.off + Len(FlattenSeq(r)) <= Len(Host)
    BY <1>2, <1>14 DEF Fits
  <2>3. arena'.off = arena.off + Total(r)
    BY <1>14, <2>1 DEF Taken
  <2> QED
    BY <1>1, <1>14, <2>1, <2>2, <2>3, SliceKept
<1>16. SourcesKept
  BY <1>2, <1>15, SourcesStay
<1>17. /\ QueuesGrow /\ queue' \in [Streams -> Seq(Ops)]
       /\ \A s \in Streams : \A k \in Len(queue[s]) + 1 .. Len(queue'[s]) : FALSE
  BY <1>1, <1>9, QueuesSame
<1>18. ReadyInCapture(b, FlattenSeq(r))'
  <2>1. PICK n \in Nat : n = Len(capture'.ops) /\ n > 0 /\ capture'.ops[n] = o
    <3>1. capture.ops \in Seq(Ops) /\ Len(capture.ops) \in Nat
      BY <1>1, OpsTyped
    <3>2. Len(capture'.ops) \in Nat /\ Len(capture'.ops) > 0 /\ Len(capture'.ops) # Len(capture.ops)
          /\ Len(capture'.ops) \in DOMAIN capture'.ops /\ Len(capture'.ops) \notin DOMAIN capture.ops
      BY <1>10, <3>1
    <3> QED
      BY <1>10, <3>2
  <2>2. Source(Now', o) = FlattenSeq(r)
    <3>1. arena.off + 1 + Total(r) - 1 = arena.off + Total(r)
      <4>1. \A x, y \in Nat : x + 1 + y - 1 = x + y
        OBVIOUS
      <4> QED
        BY <1>6, <1>14, <4>1
    <3>2. Now'.host = arena'.host
      BY DEF Now
    <3> HIDE DEF l
    <3> QED
      BY <1>4, <1>15, <3>1, <3>2 DEF Source
  <2>3. Brings(Now', capture'.ops, n, b, FlattenSeq(r))
    BY <1>7, <2>1, <2>2, CopyBrings
  <2> QED
    BY <1>5, <1>12, <1>13, <2>1, <2>3 DEF ReadyInCapture
\* What the host refers to stays ready in the capture.
<1>19. ASSUME NEW c \in Referenced, NEW v, ReadyInCapture(c, v)
       PROVE  ReadyInCapture(c, v)'
  <2>1. c # b /\ home'[c] = home[c]
    BY <1>5, <1>12, ReferencedIs
  <2>2. capture.ops \in Seq(Ops) /\ Len(capture.ops) \in Nat /\ Len(capture.ops) <= Len(capture'.ops)
    <3>1. capture.ops \in Seq(Ops) /\ Len(capture.ops) \in Nat
      BY <1>1, OpsTyped
    <3> QED
      BY <1>10, <3>1
  <2>3. \A k \in Len(capture.ops) + 1 .. Len(capture'.ops) : ~Copies(capture'.ops[k], c)
    <3>1. ASSUME NEW k \in Len(capture.ops) + 1 .. Len(capture'.ops)
          PROVE  capture'.ops[k] = o
      <4>1. k \in DOMAIN capture'.ops /\ k \notin DOMAIN capture.ops
        BY <1>10, <2>2
      <4> QED
        BY <1>10, <4>1
    <3> QED
      BY <1>7, <2>1, <3>1 DEF Touches
  <2> QED
    BY <1>1, <1>2, <1>10, <1>16, <1>19, <2>1, <2>2, <2>3, CaptureStays
<1>19a. MemosRight'
  <2>1. \A c \in Referenced : dev'[c] = dev[c] /\ home'[c] = home[c]
    BY <1>2, <1>5, <1>12, ReferencedIs
  <2>2. ReadyKept
    BY <1>1, <1>16, <1>17, <2>1, ReadyStays
  <2>3. ASSUME NEW e \in ToSet(fast) \cup ToSet(memo)
        PROVE  e.lens = e.key[1] /\ Ready(e.key[3], e.buf, e.key[2])'
    <3>1. e.lens = e.key[1] /\ Ready(e.key[3], e.buf, e.key[2])
      BY <1>1 DEF MemosRight
    <3>2. e.key[3] \in Streams /\ e.buf \in Referenced
      BY <3>1 DEF Ready, Referenced
    <3> QED
      BY <2>2, <3>1, <3>2 DEF ReadyKept
  <2>4. CaptureKept
    <3>1. \A e \in ToSet(tiles) : e.buf \in Referenced
      BY DEF Referenced
    <3> QED
      BY <1>2, <1>13, <1>19, <3>1 DEF CaptureKept
  <2>5. ASSUME NEW e \in ToSet(tiles')
        PROVE  TileRight(e)'
    <3>1. CASE e \in ToSet(tiles)
      BY <1>1, <2>2, <2>4, <3>1, TileKept DEF MemosRight
    <3>2. CASE e.key = r /\ e.lens = Lens(r) /\ e.buf = b
      <4>1. home'[e.buf] = <<"capture", captures>> /\ captures' = captures
        BY <1>2, <1>12, <3>2 DEF CapturePool
      <4>2. home'[e.buf] # Nowhere /\ \A s : home'[e.buf] # StreamPool(s)
        BY <4>1, PoolsDiffer
      <4>3. \A k \in Nat : home'[e.buf] = <<"capture", k>> => k <= captures'
        BY <4>1, PoolsDiffer
      <4>4. ReadyInCapture(e.buf, FlattenSeq(e.key))'
        BY <1>18, <3>2
      <4> QED
        BY <3>2, <4>2, <4>3, <4>4 DEF TileRight
    <3> QED
      BY <1>11, <3>1, <3>2
  <2> QED
    BY <1>2, <2>3, <2>5 DEF MemosRight
<1> DEFINE new == [buf |-> b, lens |-> Lens(r), want |-> r, on |-> st, foreign |-> FALSE]
<1>20. held' = Append(held, new) /\ new \in Tables
  BY <1>5, <1>11, RequestIs DEF Holds, Tables, Entry
<1>21. held' \in Seq(Tables) /\ ToSet(held') \subseteq ToSet(held) \cup {new} /\ held' # <<>>
  <2>1. held \in Seq(Tables)
    BY <1>1 DEF Typed
  <2> HIDE DEF new
  <2> QED
    BY <1>20, <2>1, MembersOf
<1>22. HeldRight'
  <2>1. ASSUME NEW t \in ToSet(held), Trusted(t)
        PROVE  t.lens = Lens(t.want) /\ ReadyInCapture(t.buf, FlattenSeq(t.want))'
    <3>1. t.lens = Lens(t.want) /\ ReadyInCapture(t.buf, FlattenSeq(t.want))
      BY <1>1, <1>2, <2>1 DEF HeldRight
    <3>2. t.buf \in Referenced
      BY DEF Referenced
    <3> QED
      BY <1>19, <3>1, <3>2
  <2>2. ASSUME NEW t \in ToSet(held')
        PROVE  /\ t.on = st /\ home'[t.buf] # Nowhere
               /\ Trusted(t) => t.lens = Lens(t.want) /\ ReadyInCapture(t.buf, FlattenSeq(t.want))'
    <3>1. CASE t \in ToSet(held)
      <4>1. t.on = st /\ home[t.buf] # Nowhere /\ t.buf \in Buffers /\ t.buf # b
        <5>1. t.on = st /\ t.buf \in Referenced
          BY <1>2, <3>1 DEF MayCall, Referenced
        <5> QED
          BY <1>5, <5>1, ReferencedIs
      <4> QED
        BY <1>12, <2>1, <3>1, <4>1
    <3>2. CASE t = new
      <4>1. home'[b] # Nowhere
        BY <1>12, PoolsDiffer DEF CapturePool
      <4> QED
        BY <1>18, <3>2, <4>1
    <3> HIDE DEF new
    <3> QED
      BY <1>21, <3>1, <3>2
  <2>3. held'[1] \in ToSet(held')
    BY <1>21 DEF ToSet
  <2>4. Capturing'
    BY <1>2, <1>10
  <2> QED
    BY <2>2, <2>3, <2>4 DEF HeldRight
<1> HIDE DEF new, l
<1>23. Typed'
  <2>1. CapturePool \in Pools
    BY <1>1 DEF Pools, CapturePool, Typed
  <2>2. home' \in [Buffers -> Pools]
    BY <1>1, <1>11, <2>1 DEF Typed
  <2>3. tiles' \in Seq(TileEntries) /\ fast' \in Seq(Entries) /\ memo' \in Seq(Entries)
    BY <1>1, <1>2, <1>11 DEF Typed
  <2>4. /\ ring' = [slot |-> [s \in 0 .. RingSlots - 1 |-> ring'.slot[s]], next |-> ring'.next]
        /\ ring'.next \in 0 .. RingSlots - 1
        /\ graphs' \in Seq(Seq(Ops)) /\ captures' \in Nat /\ dev' = [c \in Buffers |-> dev'[c]]
    BY <1>1, <1>2 DEF Typed
  <2>5. /\ arena' \in [host : Seq(Seq(Nat)), off : Nat] /\ arena'.host # <<>> /\ (arena.off <= Len(Host))'
        /\ capture' \in [on : BOOLEAN, ops : Seq(Ops)] /\ (Capturing' => captures' > 0)
    BY <1>1, <1>2, <1>10, <1>15 DEF Typed
  <2>6. held' \in Seq(Tables) /\ queue' \in [Streams -> Seq(Ops)]
    BY <1>17, <1>21
  <2> QED
    BY <2>2, <2>3, <2>4, <2>5, <2>6 DEF Typed
<1>24. SourcesOwned'
  <2>1. FromArena(arena', o)
    <3>1. arena.off + 1 + Total(r) - 1 = arena.off + Total(r) /\ arena.off + 1 > 0
      <4>1. \A x, y \in Nat : x + 1 + y - 1 = x + y /\ x + 1 > 0
        OBVIOUS
      <4> QED
        BY <1>6, <1>14, <4>1
    <3>2. arena'.off \in Nat /\ arena'.off <= arena'.off
      BY <1>15
    <3> QED
      BY <1>4, <1>15, <3>1, <3>2 DEF FromArena, Owned
  <2>2. \A i \in DOMAIN capture'.ops :
           (i \in DOMAIN capture.ops /\ capture'.ops[i] = capture.ops[i]) \/ FromArena(arena', capture'.ops[i])
    BY <1>10, <2>1
  <2> QED
    BY <1>2, <1>15, <1>17, <2>2, OwnedStay
<1>25. PoolsApart'
  <2>1. \A i \in DOMAIN capture'.ops, c \in Buffers : Touches(capture'.ops[i], c) =>
           (i \in DOMAIN capture.ops /\ capture'.ops[i] = capture.ops[i]) \/ home'[c] = CapturePool
    BY <1>7, <1>10, <1>12
  <2> QED
    BY <1>2, <1>10, <1>11, <1>17, <2>1, PoolsStay
<1>26. QueuesRight'
  BY <1>2, <1>16, <1>17, QueuesStay
<1>27. GraphsRight'
  <2>1. SelfContained(Now', capture.ops) /\ \A g \in DOMAIN graphs : SelfContained(Now', graphs[g])
    BY <1>16, GraphsStay
  <2>2. \A i \in DOMAIN capture'.ops : i \in DOMAIN capture.ops \/ capture'.ops[i].op # "kernel"
    BY <1>7, <1>10 DEF Copies
  <2>3. SelfContained(Now', capture'.ops)
    <3>1. capture.ops \in Seq(Ops)
      BY <1>1, OpsTyped
    <3> QED
      BY <1>10, <2>1, <2>2, <3>1, ContainedMore
  <2> QED
    BY <1>2, <2>1, <2>3 DEF GraphsRight
<1> QED
  BY <1>19a, <1>22, <1>23, <1>24, <1>25, <1>26, <1>27 DEF IInv
-----------------------------------------------------------------------------
(* A refused call voids the capture; what the memos refer to is of other   *)
(* pools.                                                                  *)
LEMMA RefuseKeeps ==
  ASSUME IInv, NEW st \in Streams, NEW r \in Requests[st], NEW form, Refuse(st, r, form)
  PROVE  IInv'
<1>1. Typed /\ PoolsApart /\ SourcesOwned /\ MemosRight
  BY DEF IInv
<1>2. /\ Capturing /\ capture' = NoCapture /\ held' = <<>> /\ home' = Released
      /\ UNCHANGED <<ring, arena, memos, graphs, captures, device>>
      /\ ~Capturing' /\ capture'.ops = <<>> /\ queue' = queue /\ dev' = dev
      /\ fast' = fast /\ memo' = memo /\ tiles' = tiles
  BY DEF Refuse, Capturing, NoCapture, memos, device
<1>3. \A c \in Buffers : /\ home[c] # CapturePool => home'[c] = home[c]
                         /\ home'[c] \in {home[c], Nowhere}
  BY <1>2 DEF Released
<1>4. ASSUME NEW c \in Buffers, Sealed(c)
      PROVE  home'[c] = home[c] /\ Sealed(c)'
  <2>1. PICK k \in 1 .. captures : home[c] = <<"capture", k>> /\ k # captures
    BY <1>2, <1>4 DEF Sealed
  <2>2. home[c] # CapturePool
    BY <2>1, PoolsDiffer DEF CapturePool
  <2> QED
    BY <1>2, <1>3, <2>1, <2>2 DEF Sealed
<1>5. ASSUME NEW c \in Buffers, NEW s, home[c] = StreamPool(s)
      PROVE  home'[c] = StreamPool(s)
  BY <1>3, <1>5, PoolsDiffer DEF CapturePool
<1>6. /\ QueuesGrow /\ queue' \in [Streams -> Seq(Ops)]
      /\ \A s \in Streams : \A k \in Len(queue[s]) + 1 .. Len(queue'[s]) : FALSE
  BY <1>1, <1>2, QueuesSame
<1>7. SourcesKept
  BY <1>2, ArenaStays, SourcesStay
<1>8. Now' = Now
  BY <1>2 DEF Now
<1>9. MemosRight'
  <2>1. ASSUME NEW s, NEW c, NEW v, Ready(s, c, v)
        PROVE  Ready(s, c, v)'
    BY <1>2, <1>5, <1>8, <2>1 DEF Ready
  <2>2. ASSUME NEW e \in ToSet(tiles)
        PROVE  home'[e.buf] = home[e.buf]
    <3>1. e.buf \in Buffers
      <4>1. e.buf \in Referenced
        BY DEF Referenced
      <4> QED
        BY <4>1, ReferencedIs
    <3> QED
      BY <1>2, <2>2, <3>1 DEF Released
  <2>3. ReadyKept
    BY <2>1, <2>2 DEF ReadyKept
  <2> QED
    BY <1>1, <1>2, <2>3, EagerKept, MemosKept
<1>10. HeldRight'
  BY <1>2 DEF HeldRight, ToSet
<1>11. Typed'
  <2>1. home' \in [Buffers -> Pools]
    <3>1. home \in [Buffers -> Pools] /\ Nowhere \in Pools
      BY <1>1 DEF Typed, Pools
    <3>2. home' = [c \in Buffers |-> home'[c]]
      BY <1>2 DEF Released
    <3> QED
      BY <1>3, <3>1, <3>2
  <2>2. capture' \in [on : BOOLEAN, ops : Seq(Ops)]
    BY <1>2 DEF NoCapture
  <2> QED
    BY <1>1, <1>2, <2>1, <2>2 DEF Typed, Host, memos
<1>12. SourcesOwned'
  <2>1. DOMAIN capture'.ops = {}
    BY <1>2
  <2> QED
    BY <1>2, <1>6, <2>1, ArenaStays, OwnedStay
<1>13. PoolsApart'
  <2>1. DOMAIN capture'.ops = {}
    BY <1>2
  <2> QED
    BY <1>1, <1>2, <1>4, <1>5, <2>1 DEF PoolsApart
<1>14. QueuesRight'
  BY <1>2, <1>6, <1>7, QueuesStay
<1>15. GraphsRight'
  <2>1. SelfContained(Now', capture'.ops)
    BY <1>2 DEF SelfContained
  <2> QED
    BY <1>2, <1>7, <2>1, GraphsStay DEF GraphsRight
<1> QED
  BY <1>9, <1>10, <1>11, <1>12, <1>13, <1>14, <1>15 DEF IInv

(* The arena grows, whatever is queued: its old buffer is kept.            *)
LEMMA ReserveKeeps ==
  ASSUME IInv, NEW more \in Nat, Reserve(more)
  PROVE  IInv'
<1>1. Typed /\ PoolsApart /\ SourcesOwned /\ MemosRight /\ HeldRight
  BY DEF IInv
<1>2. /\ ~Capturing /\ arena' = Grown(arena.off + more)
      /\ UNCHANGED <<ring, memos, held, capture, graphs, captures, device, home>>
      /\ ~Capturing' /\ Capturing' = Capturing /\ queue' = queue /\ dev' = dev
      /\ fast' = fast /\ memo' = memo /\ tiles' = tiles
  BY DEF Reserve, Capturing, memos, device
<1>3. /\ OwnedKept
      /\ arena' \in [host : Seq(Seq(Nat)), off : Nat] /\ arena'.host # <<>> /\ (arena.off <= Len(Host))'
  <2>1. arena.off + more \in Nat
    BY <1>1 DEF Typed
  <2> QED
    BY <1>1, <1>2, <2>1, GrownKept
<1>4. /\ QueuesGrow /\ queue' \in [Streams -> Seq(Ops)]
      /\ \A s \in Streams : \A k \in Len(queue[s]) + 1 .. Len(queue'[s]) : FALSE
  BY <1>1, <1>2, QueuesSame
<1>5. SourcesKept
  BY <1>2, <1>3, SourcesStay
<1>6. ReadyKept
  BY <1>1, <1>2, <1>4, <1>5, ReadyStays
<1>7. MemosRight'
  BY <1>1, <1>2, <1>6, EagerKept, MemosKept
<1>8. HeldRight'
  <2>1. ASSUME NEW t \in ToSet(held)
        PROVE  /\ t.on = held[1].on /\ home'[t.buf] # Nowhere
               /\ Trusted(t) => t.lens = Lens(t.want) /\ Ready(t.on, t.buf, FlattenSeq(t.want))'
    <3>1. /\ t.on = held[1].on /\ home'[t.buf] # Nowhere
          /\ Trusted(t) => t.lens = Lens(t.want) /\ Ready(t.on, t.buf, FlattenSeq(t.want))
      BY <1>1, <1>2 DEF HeldRight
    <3>2. Trusted(t) => t.on \in Streams /\ t.buf \in Referenced
      BY <3>1 DEF Ready, Referenced
    <3> QED
      BY <1>6, <3>1, <3>2 DEF ReadyKept
  <2> QED
    BY <1>2, <2>1 DEF HeldRight
<1>9. Typed'
  BY <1>1, <1>2, <1>3 DEF Typed
<1>10. SourcesOwned'
  BY <1>2, <1>3, <1>4, OwnedStay
<1>11. PoolsApart'
  BY <1>1, <1>2 DEF PoolsApart, Sealed, CapturePool
<1>12. QueuesRight'
  BY <1>2, <1>4, <1>5, QueuesStay
<1>13. GraphsRight'
  BY <1>2, <1>5, GraphsStay DEF GraphsRight
<1> QED
  BY <1>7, <1>8, <1>9, <1>10, <1>11, <1>12, <1>13 DEF IInv

(* A capture begins while the device is idle.                              *)
LEMMA BeginCaptureKeeps ==
  ASSUME IInv, BeginCapture
  PROVE  IInv'
<1>1. Typed /\ PoolsApart /\ SourcesOwned /\ MemosRight
  BY DEF IInv
<1>2. /\ ~Capturing /\ held' = <<>> /\ captures' = captures + 1
      /\ UNCHANGED <<ring, arena, memos, graphs, device, home>>
      /\ capture' = [on |-> TRUE, ops |-> <<>>]
      /\ capture'.ops = <<>> /\ queue' = queue /\ dev' = dev
      /\ fast' = fast /\ memo' = memo /\ tiles' = tiles
  BY DEF BeginCapture, memos, device
<1>3. captures \in Nat
  BY <1>1 DEF Typed
<1>4. /\ QueuesGrow /\ queue' \in [Streams -> Seq(Ops)]
      /\ \A s \in Streams : \A k \in Len(queue[s]) + 1 .. Len(queue'[s]) : FALSE
  BY <1>1, <1>2, QueuesSame
<1>5. SourcesKept
  BY <1>2, ArenaStays, SourcesStay
<1>6. ReadyKept
  BY <1>1, <1>2, <1>4, <1>5, ReadyStays
<1>7. MemosRight'
  <2>1. \A k \in Nat : k <= captures => k <= captures'
    BY <1>2, <1>3
  <2>2. captures' \in Nat /\ ~(captures' <= captures) /\ CapturePool' = <<"capture", captures'>>
    BY <1>2, <1>3 DEF CapturePool
  <2>3. \A e \in ToSet(tiles) : home[e.buf] # CapturePool'
    BY <1>1, <2>2 DEF MemosRight, TileRight
  <2>4. CaptureKept
    BY <2>1, <2>3 DEF CaptureKept
  <2> QED
    BY <1>1, <1>2, <1>6, <2>4, MemosKept
<1>8. HeldRight'
  BY <1>2 DEF HeldRight, ToSet
<1>9. Typed'
  <2>1. capture' \in [on : BOOLEAN, ops : Seq(Ops)] /\ captures' \in Nat /\ captures' > 0
    BY <1>2, <1>3
  <2> QED
    BY <1>1, <1>2, <2>1 DEF Typed, Host, memos
<1>10. SourcesOwned'
  <2>1. DOMAIN capture'.ops = {}
    BY <1>2
  <2> QED
    BY <1>2, <1>4, <2>1, ArenaStays, OwnedStay
<1>11. PoolsApart'
  <2>1. ASSUME NEW c \in Buffers, Sealed(c)
        PROVE  Sealed(c)'
    <3>1. PICK k \in 1 .. captures : home[c] = <<"capture", k>>
      BY <2>1 DEF Sealed
    <3>2. k \in 1 .. captures' /\ k # captures'
      BY <1>2, <1>3
    <3> QED
      BY <1>2, <3>1, <3>2 DEF Sealed
  <2>2. DOMAIN capture'.ops = {}
    BY <1>2
  <2> QED
    BY <1>1, <1>2, <2>1, <2>2 DEF PoolsApart
<1>12. QueuesRight'
  BY <1>2, <1>4, <1>5, QueuesStay
<1>13. GraphsRight'
  <2>1. SelfContained(Now', capture'.ops)
    BY <1>2 DEF SelfContained
  <2> QED
    BY <1>2, <1>5, <2>1, GraphsStay DEF GraphsRight
<1> QED
  BY <1>7, <1>8, <1>9, <1>10, <1>11, <1>12, <1>13 DEF IInv

(* The memory of a capture that ends is sealed.                            *)
LEMMA EndCaptureKeeps ==
  ASSUME IInv, EndCapture
  PROVE  IInv'
<1>1. Typed /\ PoolsApart /\ SourcesOwned /\ MemosRight
  BY DEF IInv
<1>2. /\ Capturing /\ held' = <<>> /\ graphs' = Append(graphs, capture.ops) /\ capture' = NoCapture
      /\ UNCHANGED <<ring, arena, memos, captures, device, home>>
      /\ ~Capturing' /\ capture'.ops = <<>> /\ queue' = queue /\ dev' = dev
      /\ fast' = fast /\ memo' = memo /\ tiles' = tiles
  BY DEF EndCapture, Capturing, NoCapture, memos, device
<1>3. captures \in Nat /\ captures > 0 /\ graphs \in Seq(Seq(Ops)) /\ capture.ops \in Seq(Ops)
  BY <1>1, <1>2 DEF Typed
<1>4. /\ QueuesGrow /\ queue' \in [Streams -> Seq(Ops)]
      /\ \A s \in Streams : \A k \in Len(queue[s]) + 1 .. Len(queue'[s]) : FALSE
  BY <1>1, <1>2, QueuesSame
<1>5. SourcesKept
  BY <1>2, ArenaStays, SourcesStay
<1>6. ReadyKept
  BY <1>1, <1>2, <1>4, <1>5, ReadyStays
<1>7. MemosRight'
  BY <1>1, <1>2, <1>6, EagerKept, MemosKept
<1>8. HeldRight'
  BY <1>2 DEF HeldRight, ToSet
<1>9. /\ graphs' \in Seq(Seq(Ops))
      /\ \A g \in DOMAIN graphs' : (g \in DOMAIN graphs /\ graphs'[g] = graphs[g]) \/ graphs'[g] = capture.ops
  BY <1>2, <1>3
<1>10. Typed'
  <2>1. capture' \in [on : BOOLEAN, ops : Seq(Ops)]
    BY <1>2 DEF NoCapture
  <2>2. /\ arena' \in [host : Seq(Seq(Nat)), off : Nat] /\ arena'.host # <<>> /\ (arena.off <= Len(Host))'
        /\ ring' = [slot |-> [s \in 0 .. RingSlots - 1 |-> ring'.slot[s]], next |-> ring'.next]
        /\ ring'.next \in 0 .. RingSlots - 1
    BY <1>1, <1>2 DEF Typed, Host
  <2>3. /\ fast' \in Seq(Entries) /\ memo' \in Seq(Entries) /\ tiles' \in Seq(TileEntries)
        /\ held' \in Seq(Tables) /\ captures' \in Nat
        /\ dev' = [c \in Buffers |-> dev'[c]] /\ home' \in [Buffers -> Pools]
    BY <1>1, <1>2 DEF Typed
  <2> QED
    BY <1>2, <1>4, <1>9, <2>1, <2>2, <2>3 DEF Typed
<1>11. SourcesOwned'
  <2>1. DOMAIN capture'.ops = {}
    BY <1>2
  <2> QED
    BY <1>4, <1>2, <1>9, <2>1, ArenaStays, OwnedStay
<1>12. PoolsApart'
  <2>1. ASSUME NEW c \in Buffers, Sealed(c)
        PROVE  Sealed(c)'
    BY <1>2, <2>1 DEF Sealed
  <2>2. ASSUME NEW i \in DOMAIN capture.ops, NEW c \in Buffers, Touches(capture.ops[i], c)
        PROVE  Sealed(c)'
    <3>1. home[c] = <<"capture", captures>> /\ captures \in 1 .. captures
      BY <1>1, <1>3, <2>2 DEF PoolsApart, CapturePool
    <3> QED
      BY <1>2, <3>1 DEF Sealed
  <2>3. DOMAIN capture'.ops = {}
    BY <1>2
  <2>4. ASSUME NEW g \in DOMAIN graphs', NEW i \in DOMAIN graphs'[g], NEW c \in Buffers,
               Touches(graphs'[g][i], c)
        PROVE  Sealed(c)'
    BY <1>1, <1>9, <2>1, <2>2, <2>4 DEF PoolsApart
  <2> QED
    BY <1>1, <1>2, <2>1, <2>3, <2>4 DEF PoolsApart
<1>13. QueuesRight'
  BY <1>2, <1>4, <1>5, QueuesStay
<1>14. GraphsRight'
  <2>1. SelfContained(Now', capture'.ops)
    BY <1>2 DEF SelfContained
  <2> QED
    BY <1>5, <1>9, <2>1, GraphsStay DEF GraphsRight
<1> QED
  BY <1>7, <1>8, <1>10, <1>11, <1>12, <1>13, <1>14 DEF IInv
-----------------------------------------------------------------------------
(* A kernel is queued after the copies to the tables it reads.             *)
LEMMA LaunchKeeps ==
  ASSUME IInv, Launch
  PROVE  IInv'
<1> DEFINE st == held[1].on
<1>1. Typed /\ PoolsApart /\ SourcesOwned /\ MemosRight /\ HeldRight
  BY DEF IInv
<1>2. /\ held # <<>> /\ held' = <<>> /\ Enqueued(st, <<[op |-> "kernel", reads |-> held]>>)
      /\ UNCHANGED <<ring, arena, memos, graphs, captures, dev, home>>
      /\ fast' = fast /\ memo' = memo /\ tiles' = tiles
  BY DEF Launch, memos
<1>3. PICK o : o = [op |-> "kernel", reads |-> held]
  OBVIOUS
<1>4. held \in Seq(Tables) /\ held[1] \in Tables /\ \A t \in ToSet(held) : t \in Tables
  <2>1. held \in Seq(Tables)
    BY <1>1 DEF Typed
  <2> QED
    BY <1>2, <2>1, MembersOf DEF ToSet
<1>5. st \in Streams
  BY <1>4 DEF Tables
<1>6. /\ o \in Ops /\ o.op = "kernel" /\ o.reads = held /\ \A c : ~Copies(o, c)
      /\ \A c : Touches(o, c) => \E t \in ToSet(held) : Trusted(t) /\ t.buf = c
  BY <1>3, <1>4 DEF Ops, KernelOps, Copies, Touches, Reads
<1>7. PICK ops : ops = <<o>> /\ ops \in Seq(Ops) /\ Len(ops) = 1 /\ ops[1] = o
  <2>1. <<o>> \in Seq(Ops) /\ Len(<<o>>) = 1 /\ <<o>>[1] = o
    BY <1>6
  <2> QED
    BY <2>1
<1>8. /\ Capturing => Captures(ops) /\ queue' = queue
      /\ ~Capturing => Adds(st, ops) /\ capture' = capture
  BY <1>2, <1>3, <1>7 DEF Enqueued, Captures, Adds
<1> HIDE DEF st
<1>9. /\ QueuesGrow /\ queue' \in [Streams -> Seq(Ops)]
      /\ \A s \in Streams : \A k \in Len(queue[s]) + 1 .. Len(queue'[s]) :
           ~Capturing /\ s = st /\ queue'[s][k] = o /\ k - 1 = Len(queue[st])
  <2>1. CASE Capturing
    <3>1. queue' = queue
      BY <1>8, <2>1
    <3> QED
      BY <1>1, <3>1, QueuesSame
  <2>2. CASE ~Capturing
    <3>1. Adds(st, ops)
      BY <1>8, <2>2
    <3>2. /\ QueuesGrow /\ queue' \in [Streams -> Seq(Ops)]
          /\ \A s \in Streams : \A k \in Len(queue[s]) + 1 .. Len(queue'[s]) :
               s = st /\ k - Len(queue[s]) \in 1 .. Len(ops) /\ queue'[s][k] = ops[k - Len(queue[s])]
      BY <1>1, <1>5, <1>7, <3>1, EnqueuedIs
    <3>3. Len(queue[st]) \in Nat
      BY <1>1, <1>5, OpsTyped
    <3>4. \A k \in Int : k - Len(queue[st]) \in 1 .. 1 => k - Len(queue[st]) = 1 /\ k - 1 = Len(queue[st])
      BY <3>3
    <3> QED
      BY <1>7, <2>2, <3>2, <3>4
  <2> QED
    BY <2>1, <2>2
<1>10. /\ capture' \in [on : BOOLEAN, ops : Seq(Ops)] /\ Capturing' = Capturing
       /\ \A k \in 1 .. Len(capture.ops) : capture'.ops[k] = capture.ops[k]
       /\ \A k \in DOMAIN capture'.ops :
            \/ k \in DOMAIN capture.ops /\ capture'.ops[k] = capture.ops[k]
            \/ Capturing /\ k - 1 = Len(capture.ops) /\ capture'.ops[k] = o
  <2>1. CASE Capturing
    <3>1. Captures(ops)
      BY <1>8, <2>1
    <3>2. /\ capture' \in [on : BOOLEAN, ops : Seq(Ops)] /\ Capturing' = Capturing
          /\ capture'.ops \in Seq(Ops)
          /\ \A k \in 1 .. Len(capture.ops) : capture'.ops[k] = capture.ops[k]
          /\ \A k \in DOMAIN capture'.ops :
               \/ k \in DOMAIN capture.ops /\ capture'.ops[k] = capture.ops[k]
               \/ k - Len(capture.ops) \in 1 .. Len(ops) /\ capture'.ops[k] = ops[k - Len(capture.ops)]
      BY <1>1, <1>7, <3>1, CapturesIs
    <3>3. Len(capture.ops) \in Nat
      BY <1>1, OpsTyped
    <3>4. \A k \in Int : k - Len(capture.ops) \in 1 .. 1
            => k - Len(capture.ops) = 1 /\ k - 1 = Len(capture.ops)
      BY <3>3
    <3>5. \A k \in DOMAIN capture'.ops : k \in Int
      BY <3>2
    <3> QED
      BY <1>7, <2>1, <3>2, <3>4, <3>5
  <2>2. CASE ~Capturing
    <3>1. capture' = capture
      BY <1>8, <2>2
    <3>2. capture.ops \in Seq(Ops) /\ capture \in [on : BOOLEAN, ops : Seq(Ops)]
      BY <1>1 DEF Typed
    <3> QED
      BY <3>1, <3>2 DEF Capturing
  <2> QED
    BY <2>1, <2>2
<1>11. SourcesKept
  BY <1>2, ArenaStays, SourcesStay
<1>12. ReadyKept
  BY <1>1, <1>2, <1>6, <1>9, <1>11, ReadyStays
<1>13. MemosRight'
  <2>1. ASSUME NEW c \in Referenced, NEW v, ReadyInCapture(c, v)
        PROVE  ReadyInCapture(c, v)'
    <3>1. /\ capture.ops \in Seq(Ops) /\ capture'.ops \in Seq(Ops)
          /\ Len(capture.ops) \in Nat /\ Len(capture'.ops) \in Nat
      BY <1>1, <1>10, OpsTyped
    <3>2. Len(capture.ops) <= Len(capture'.ops)
      <4>1. CASE Capturing
        <5>1. Captures(ops)
          BY <1>8, <4>1
        <5>2. Len(capture'.ops) = Len(capture.ops) + Len(ops)
          BY <1>1, <1>7, <5>1, CapturesIs
        <5> QED
          BY <1>7, <3>1, <5>2
      <4>2. CASE ~Capturing
        <5>1. capture' = capture
          BY <1>8, <4>2
        <5> QED
          BY <3>1, <5>1
      <4> QED
        BY <4>1, <4>2
    <3>3. \A k \in Len(capture.ops) + 1 .. Len(capture'.ops) : ~Copies(capture'.ops[k], c)
      <4>1. ASSUME NEW k \in Len(capture.ops) + 1 .. Len(capture'.ops)
            PROVE  capture'.ops[k] = o
        <5>1. k \in DOMAIN capture'.ops /\ k \notin DOMAIN capture.ops
          BY <3>1
        <5> QED
          BY <1>10, <5>1
      <4> QED
        BY <1>6, <4>1
    <3> QED
      BY <1>1, <1>2, <1>10, <1>11, <2>1, <3>1, <3>2, <3>3, CaptureStays
  <2>2. CapturePool' = CapturePool /\ \A e \in ToSet(tiles) : e.buf \in Referenced
    BY <1>2 DEF CapturePool, Referenced
  <2>3. CaptureKept
    BY <1>2, <1>10, <2>1, <2>2 DEF CaptureKept
  <2> QED
    BY <1>1, <1>2, <1>12, <2>3, MemosKept
<1>14. HeldRight'
  BY <1>2 DEF HeldRight, ToSet
<1>15. Typed'
  <2>1. /\ arena' \in [host : Seq(Seq(Nat)), off : Nat] /\ arena'.host # <<>> /\ (arena.off <= Len(Host))'
        /\ ring' = [slot |-> [s \in 0 .. RingSlots - 1 |-> ring'.slot[s]], next |-> ring'.next]
        /\ ring'.next \in 0 .. RingSlots - 1
    BY <1>1, <1>2 DEF Typed, Host
  <2>2. /\ fast' \in Seq(Entries) /\ memo' \in Seq(Entries) /\ tiles' \in Seq(TileEntries)
        /\ held' \in Seq(Tables) /\ captures' \in Nat /\ (Capturing' => captures' > 0)
        /\ dev' = [c \in Buffers |-> dev'[c]] /\ home' \in [Buffers -> Pools]
        /\ graphs' \in Seq(Seq(Ops))
    BY <1>1, <1>2, <1>10 DEF Typed
  <2> QED
    BY <1>9, <1>10, <2>1, <2>2 DEF Typed
<1>16. SourcesOwned'
  <2>1. FromArena(arena', o) /\ SourceOwned(arena', o)
    BY <1>6 DEF FromArena, SourceOwned
  <2> QED
    BY <1>2, <1>9, <1>10, <2>1, ArenaStays, OwnedStay
<1>17. PoolsApart'
  <2>1. CapturePool' = CapturePool /\ \A c \in Buffers : Sealed(c)' = Sealed(c)
    BY <1>2, <1>10 DEF CapturePool, Sealed
  <2>2. ASSUME NEW s \in Streams, NEW i \in DOMAIN queue'[s], NEW c \in Buffers, Touches(queue'[s][i], c)
        PROVE  home[c] = StreamPool(s) \/ (s = ReplayStream /\ Sealed(c))
    <3>1. queue[s] \in Seq(Ops) /\ queue'[s] \in Seq(Ops)
      BY <1>1, <1>9, OpsTyped
    <3>2. i \in 1 .. Len(queue[s]) \/ i \in Len(queue[s]) + 1 .. Len(queue'[s])
      BY <3>1
    <3>3. CASE i \in 1 .. Len(queue[s])
      <4>1. i \in DOMAIN queue[s] /\ Touches(queue[s][i], c)
        BY <1>9, <2>2, <3>1, <3>3 DEF QueuesGrow
      <4> QED
        BY <1>1, <4>1 DEF PoolsApart
    <3>4. CASE i \in Len(queue[s]) + 1 .. Len(queue'[s])
      <4>1. ~Capturing /\ s = st /\ Touches(o, c)
        BY <1>9, <2>2, <3>4
      <4> QED
        BY <1>1, <1>6, <4>1 DEF HeldRight, Ready, st
    <3> QED
      BY <3>2, <3>3, <3>4
  <2>3. ASSUME NEW i \in DOMAIN capture'.ops, NEW c \in Buffers, Touches(capture'.ops[i], c)
        PROVE  home[c] = CapturePool
    <3>1. CASE i \in DOMAIN capture.ops /\ capture'.ops[i] = capture.ops[i]
      BY <1>1, <2>3, <3>1 DEF PoolsApart
    <3>2. CASE Capturing /\ capture'.ops[i] = o
      BY <1>1, <1>6, <2>3, <3>2 DEF HeldRight, ReadyInCapture
    <3> QED
      BY <1>10, <3>1, <3>2
  <2>4. ~Capturing => capture'.ops = <<>>
    BY <1>1, <1>8 DEF PoolsApart
  <2> QED
    BY <1>1, <1>2, <1>10, <2>1, <2>2, <2>3, <2>4 DEF PoolsApart
<1>18. QueuesRight'
  <2>1. ASSUME NEW s \in Streams, NEW i \in Len(queue[s]) + 1 .. Len(queue'[s]),
               NEW t \in ToSet(queue'[s][i].reads), Trusted(t)
        PROVE  t.lens = Lens(t.want) /\ Finds(Now', queue'[s], i - 1, t.buf, FlattenSeq(t.want))
    <3>1. ~Capturing /\ s = st /\ t \in ToSet(held) /\ i - 1 = Len(queue[s])
      BY <1>6, <1>9, <2>1
    <3>2. t.lens = Lens(t.want) /\ Finds(Now, queue[s], Len(queue[s]), t.buf, FlattenSeq(t.want))
      BY <1>1, <2>1, <3>1 DEF HeldRight, Ready, st
    <3>3. Len(queue[s]) \in 0 .. Len(queue[s])
      <4>1. Len(queue[s]) \in Nat
        BY <1>1, OpsTyped
      <4> QED
        BY <4>1
    <3>4. dev'[t.buf] = dev[t.buf]
      BY <1>2
    <3> QED
      BY <1>1, <1>9, <1>11, <3>1, <3>2, <3>3, <3>4, FindsStay
  <2> QED
    BY <1>2, <1>9, <1>11, <2>1, QueuesStay
<1>19. GraphsRight'
  <2>1. SelfContained(Now', capture.ops) /\ \A g \in DOMAIN graphs : SelfContained(Now', graphs[g])
    BY <1>11, GraphsStay
  <2>2. ASSUME NEW i \in DOMAIN capture'.ops, i \notin DOMAIN capture.ops, NEW t \in ToSet(capture'.ops[i].reads), Trusted(t)
        PROVE  t.lens = Lens(t.want) /\ Brings(Now', capture'.ops, i - 1, t.buf, FlattenSeq(t.want))
    <3>1. Capturing /\ t \in ToSet(held) /\ i - 1 = Len(capture.ops)
      BY <1>6, <1>10, <2>2
    <3>2. t.lens = Lens(t.want) /\ Brings(Now, capture.ops, Len(capture.ops), t.buf, FlattenSeq(t.want))
      BY <1>1, <2>2, <3>1 DEF HeldRight, ReadyInCapture
    <3>3. Len(capture.ops) \in 0 .. Len(capture.ops)
      <4>1. Len(capture.ops) \in Nat
        BY <1>1, OpsTyped
      <4> QED
        BY <4>1
    <3> QED
      BY <1>1, <1>10, <1>11, <3>1, <3>2, <3>3, BringsStay
  <2>3. SelfContained(Now', capture'.ops)
    <3>1. capture.ops \in Seq(Ops)
      BY <1>1, OpsTyped
    <3> QED
      BY <1>10, <2>1, <2>2, <3>1, ContainedMore
  <2> QED
    BY <1>2, <2>1, <2>3 DEF GraphsRight
<1> QED
  BY <1>13, <1>14, <1>15, <1>16, <1>17, <1>18, <1>19 DEF IInv

(* A replayed graph brings its kernels what they read.                     *)
LEMMA ReplayKeeps ==
  ASSUME IInv, NEW g \in DOMAIN graphs, Replay(g)
  PROVE  IInv'
<1>1. Typed /\ PoolsApart /\ SourcesOwned /\ MemosRight /\ GraphsRight
  BY DEF IInv
<1>2. /\ ~Capturing /\ held = <<>> /\ held' = <<>>
      /\ UNCHANGED <<ring, arena, memos, capture, graphs, captures, dev, home>>
      /\ fast' = fast /\ memo' = memo /\ tiles' = tiles /\ Capturing' = Capturing
  BY DEF Replay, memos, Capturing
<1>3. ReplayStream \in Streams
  BY PinnedStagingAssumption
<1>4. PICK ops : ops = graphs[g] /\ ops \in Seq(Ops) /\ Len(ops) \in Nat /\ DOMAIN ops = 1 .. Len(ops)
  <2>1. graphs[g] \in Seq(Ops)
    BY <1>1, OpsTyped
  <2> QED
    BY <2>1
<1>5. Adds(ReplayStream, ops)
  BY <1>4 DEF Replay, Adds
<1>6. /\ QueuesGrow /\ queue' \in [Streams -> Seq(Ops)]
      /\ \A s \in Streams : \A k \in Len(queue[s]) + 1 .. Len(queue'[s]) :
           s = ReplayStream /\ k - Len(queue[s]) \in 1 .. Len(ops) /\ queue'[s][k] = ops[k - Len(queue[s])]
      /\ \A k \in 1 .. Len(ops) : queue'[ReplayStream][Len(queue[ReplayStream]) + k] = ops[k]
  BY <1>1, <1>3, <1>4, <1>5, EnqueuedIs
<1>7. \A k \in 1 .. Len(ops), c \in Buffers : Touches(ops[k], c) => Sealed(c)
  BY <1>1, <1>4 DEF PoolsApart
<1>8. SourcesKept
  BY <1>2, ArenaStays, SourcesStay
<1>9. ReadyKept
  <2>1. ASSUME NEW s \in Streams, NEW k \in Len(queue[s]) + 1 .. Len(queue'[s]), NEW c \in Referenced,
               Copies(queue'[s][k], c)
        PROVE  \A x : home[c] # StreamPool(x)
    <3>1. k - Len(queue[s]) \in 1 .. Len(ops) /\ queue'[s][k] = ops[k - Len(queue[s])]
      BY <1>6
    <3>2. c \in Buffers
      BY ReferencedIs
    <3>3. Sealed(c)
      BY <1>7, <2>1, <3>1, <3>2 DEF Touches
    <3> QED
      BY <3>3, PoolsDiffer DEF Sealed
  <2> QED
    BY <1>1, <1>2, <1>6, <1>8, <2>1, ReadyStays
<1>10. MemosRight'
  BY <1>1, <1>2, <1>9, EagerKept, MemosKept
<1>11. HeldRight'
  BY <1>2 DEF HeldRight, ToSet
<1>12. Typed'
  BY <1>1, <1>2, <1>6 DEF Typed, Host
<1>13. SourcesOwned'
  <2>1. \A k \in 1 .. Len(ops) : SourceOwned(arena', ops[k])
    BY <1>1, <1>2, <1>4 DEF SourcesOwned, SourceOwned
  <2> QED
    BY <1>2, <1>6, <2>1, ArenaStays, OwnedStay
<1>14. PoolsApart'
  <2>1. CapturePool' = CapturePool /\ \A c \in Buffers : Sealed(c)' = Sealed(c)
    BY <1>2 DEF CapturePool, Sealed
  <2>2. ASSUME NEW s \in Streams, NEW i \in DOMAIN queue'[s], NEW c \in Buffers, Touches(queue'[s][i], c)
        PROVE  home[c] = StreamPool(s) \/ (s = ReplayStream /\ Sealed(c))
    <3>1. queue[s] \in Seq(Ops) /\ queue'[s] \in Seq(Ops)
      BY <1>1, <1>6, OpsTyped
    <3>2. i \in 1 .. Len(queue[s]) \/ i \in Len(queue[s]) + 1 .. Len(queue'[s])
      BY <3>1
    <3>3. CASE i \in 1 .. Len(queue[s])
      <4>1. i \in DOMAIN queue[s] /\ Touches(queue[s][i], c)
        BY <1>6, <2>2, <3>1, <3>3 DEF QueuesGrow
      <4> QED
        BY <1>1, <4>1 DEF PoolsApart
    <3>4. CASE i \in Len(queue[s]) + 1 .. Len(queue'[s])
      BY <1>6, <1>7, <2>2, <3>4
    <3> QED
      BY <3>2, <3>3, <3>4
  <2> QED
    BY <1>1, <1>2, <2>1, <2>2 DEF PoolsApart
<1>15. QueuesRight'
  <2>1. ASSUME NEW s \in Streams, NEW i \in Len(queue[s]) + 1 .. Len(queue'[s]), queue'[s][i].op = "kernel",
               NEW t \in ToSet(queue'[s][i].reads), Trusted(t)
        PROVE  t.lens = Lens(t.want) /\ Finds(Now', queue'[s], i - 1, t.buf, FlattenSeq(t.want))
    <3>1. PICK k, l : k = i - Len(queue[s]) /\ l = Len(queue[s])
      OBVIOUS
    <3>2. l \in Nat /\ k \in 1 .. Len(ops) /\ l + (k - 1) = i - 1 /\ k - 1 \in Nat
      <4>1. Len(queue[s]) \in Nat /\ i \in Int
        BY <1>1, OpsTyped
      <4>2. k \in 1 .. Len(ops)
        BY <1>6, <2>1, <3>1
      <4>3. \A x \in Int, y \in Nat : x - y \in Nat /\ x - y > 0 => y + ((x - y) - 1) = x - 1 /\ (x - y) - 1 \in Nat
        OBVIOUS
      <4>4. k \in Nat /\ k > 0
        BY <1>4, <4>2
      <4> QED
        BY <3>1, <4>1, <4>2, <4>3, <4>4
    <3>3. s = ReplayStream /\ queue'[s][i] = ops[k]
      BY <1>6, <2>1, <3>1
    <3>4. SelfContained(Now', ops)
      BY <1>4, <1>8, GraphsStay
    <3>5. t.lens = Lens(t.want) /\ Brings(Now', ops, k - 1, t.buf, FlattenSeq(t.want))
      BY <1>4, <2>1, <3>2, <3>3, <3>4 DEF SelfContained
    <3>6. \A j \in 1 .. k - 1 : queue'[s][l + j] = ops[j]
      <4>1. \A j \in 1 .. k - 1 : j \in 1 .. Len(ops)
        BY <1>4, <3>2
      <4> QED
        BY <1>6, <3>1, <3>3, <4>1
    <3>7. Brings(Now', queue'[s], l + (k - 1), t.buf, FlattenSeq(t.want))
      BY <3>2, <3>5, <3>6, BringsLater
    <3> QED
      BY <3>2, <3>5, <3>7 DEF Finds
  <2> QED
    BY <1>2, <1>6, <1>8, <2>1, QueuesStay
<1>16. GraphsRight'
  BY <1>2, <1>8, GraphsStay DEF GraphsRight
<1> QED
  BY <1>10, <1>11, <1>12, <1>13, <1>14, <1>15, <1>16 DEF IInv
-----------------------------------------------------------------------------
(* An operation runs: a copy writes memory that no other queue touches.    *)
LEMMA ExecuteKeeps ==
  ASSUME IInv, NEW st \in Streams, Execute(st)
  PROVE  IInv'
<1>1. Typed /\ PoolsApart /\ SourcesOwned /\ MemosRight /\ HeldRight /\ QueuesRight /\ GraphsRight
  BY DEF IInv
<1>2. /\ queue[st] # <<>>
      /\ dev' = LET o == Head(queue[st])
                IN IF o.op = "copy" THEN [dev EXCEPT ![o.buf] = Pinned(o)] ELSE dev
      /\ queue' = [queue EXCEPT ![st] = Tail(@)]
      /\ UNCHANGED <<ring, arena, memos, held, capture, graphs, captures, home>>
      /\ fast' = fast /\ memo' = memo /\ tiles' = tiles /\ Capturing' = Capturing
  BY DEF Execute, memos, Capturing
<1>3. PICK q : q = queue[st]
  OBVIOUS
<1>4. /\ q \in Seq(Ops) /\ q # <<>> /\ Len(q) \in Nat /\ Len(q) > 0 /\ 1 \in DOMAIN q /\ q[1] \in Ops
      /\ Tail(q) \in Seq(Ops) /\ Len(Tail(q)) = Len(q) - 1 /\ DOMAIN q = 1 .. Len(q)
      /\ \A k \in 1 .. Len(q) - 1 : Tail(q)[k] = q[k + 1]
  <2>1. q \in Seq(Ops) /\ q # <<>>
    BY <1>1, <1>2, <1>3, OpsTyped
  <2> QED
    BY <2>1
<1>5. PICK o : o = q[1]
  OBVIOUS
<1>6. o = Head(queue[st]) /\ Pinned(o) = Source(Now, o)
  BY <1>3, <1>4, <1>5 DEF Pinned, Source, Now
<1>7. /\ queue' \in [Streams -> Seq(Ops)] /\ queue'[st] = Tail(q)
      /\ \A s \in Streams : s # st => queue'[s] = queue[s]
  <2>1. queue \in [Streams -> Seq(Ops)]
    BY <1>1 DEF Typed
  <2> QED
    BY <1>2, <1>3, <1>4, <2>1
<1>8. /\ dev' = [b \in Buffers |-> dev'[b]]
      /\ \A b \in Buffers : ~Copies(o, b) => dev'[b] = dev[b]
      /\ \A b \in Buffers : Copies(o, b) => dev'[b] = Source(Now, o)
  <2>1. dev = [b \in Buffers |-> dev[b]]
    BY <1>1 DEF Typed
  <2>2. CASE o.op = "copy"
    <3>1. dev' = [dev EXCEPT ![o.buf] = Source(Now, o)] /\ o.buf \in Buffers
      BY <1>2, <1>4, <1>5, <1>6, <2>2, OpIs
    <3>2. dev' = [b \in Buffers |-> IF b = o.buf THEN Source(Now, o) ELSE dev[b]]
      BY <2>1, <3>1
    <3> QED
      BY <2>2, <3>2 DEF Copies
  <2>3. CASE o.op # "copy"
    <3>1. dev' = dev
      BY <1>2, <1>6, <2>3
    <3> QED
      BY <2>1, <2>3, <3>1 DEF Copies
  <2> QED
    BY <2>2, <2>3
<1>9. \A x : Source(Now', x) = Source(Now, x)
  BY <1>2 DEF Source, Now
<1>10. Now'.dev = dev' /\ Now.dev = dev
  BY DEF Now
<1>11. ASSUME NEW b \in Buffers, Copies(o, b)
       PROVE  home[b] = StreamPool(st) \/ (st = ReplayStream /\ Sealed(b))
  BY <1>1, <1>3, <1>4, <1>5, <1>11 DEF PoolsApart, Touches
\* Other queues find what they found.
<1>12. ASSUME NEW s \in Streams, NEW n \in 0 .. Len(queue[s]), NEW b \in Buffers, NEW v,
              s = st => n > 0, s # st => ~Copies(o, b), Finds(Now, queue[s], n, b, v)
       PROVE  Finds(Now', queue'[s], IF s = st THEN n - 1 ELSE n, b, v)
  <2>1. n \in Nat
    OBVIOUS
  <2>2. CASE s = st
    <3>1. n > 0 /\ \A k \in 1 .. n - 1 : k \in 1 .. Len(q) - 1
      BY <1>3, <1>4, <1>12, <2>2
    <3>2. \A k \in 1 .. n - 1 : Tail(q)[k] = q[k + 1]
      BY <1>4, <3>1
    <3>3. /\ Copies(q[1], b) => Now'.dev[b] = Source(Now, q[1])
          /\ ~Copies(q[1], b) => Now'.dev[b] = Now.dev[b]
      BY <1>5, <1>8, <1>10
    <3>4. Finds(Now, q, n, b, v)
      BY <1>3, <1>12, <2>2
    <3>5. Finds(Now', Tail(q), n - 1, b, v)
      BY <1>9, <2>1, <3>1, <3>2, <3>3, <3>4, FindsRun
    <3> QED
      BY <1>7, <2>2, <3>5
  <2>3. CASE s # st
    <3>1. Now'.dev[b] = Now.dev[b]
      BY <1>8, <1>10, <1>12, <2>3
    <3>2. Finds(Now', queue[s], n, b, v)
      BY <1>9, <1>12, <2>1, <3>1, FindsSame
    <3> QED
      BY <1>7, <2>3, <3>2
  <2> QED
    BY <2>2, <2>3
<1>13. \A s \in Streams : Len(queue[s]) \in Nat /\ Len(queue[s]) \in 0 .. Len(queue[s])
  <2>1. \A s \in Streams : Len(queue[s]) \in Nat
    BY <1>1, OpsTyped
  <2> QED
    BY <2>1
<1>14. ReadyKept
  <2>1. SUFFICES ASSUME NEW s \in Streams, NEW c \in Referenced, NEW v, Ready(s, c, v)
                 PROVE  Ready(s, c, v)'
    BY <1>2 DEF ReadyKept
  <2>2. c \in Buffers /\ home[c] = StreamPool(s) /\ Finds(Now, queue[s], Len(queue[s]), c, v)
    BY <2>1 DEF Ready
  <2>3. s # st => ~Copies(o, c)
    BY <1>11, <2>2, PoolsDiffer DEF Sealed
  <2>4. s = st => Len(queue[s]) > 0
    BY <1>3, <1>4
  <2>5. Finds(Now', queue'[s], IF s = st THEN Len(queue[s]) - 1 ELSE Len(queue[s]), c, v)
    BY <1>12, <1>13, <2>2, <2>3, <2>4
  <2>6. Len(queue'[s]) = IF s = st THEN Len(queue[s]) - 1 ELSE Len(queue[s])
    BY <1>3, <1>4, <1>7
  <2>7. home'[c] = StreamPool(s)
    BY <1>2, <2>2
  <2> QED
    BY <2>2, <2>5, <2>6, <2>7 DEF Ready
<1>15. MemosRight'
  <2>1. ASSUME NEW c, NEW v, ReadyInCapture(c, v)
        PROVE  ReadyInCapture(c, v)'
    <3>1. /\ c \in Buffers /\ home[c] = CapturePool
          /\ Brings(Now, capture.ops, Len(capture.ops), c, v)
      BY <2>1 DEF ReadyInCapture
    <3>2. Len(capture.ops) \in Nat
      BY <1>1, OpsTyped
    <3>3. Brings(Now', capture.ops, Len(capture.ops), c, v)
      BY <1>9, <3>1, <3>2, FindsSame
    <3> QED
      BY <1>2, <3>1, <3>3 DEF ReadyInCapture, CapturePool
  <2>2. CapturePool' = CapturePool
    BY <1>2 DEF CapturePool
  <2>3. CaptureKept
    BY <1>2, <2>1, <2>2 DEF CaptureKept
  <2> QED
    BY <1>1, <1>2, <1>14, <2>3, MemosKept
<1>16. HeldRight'
  <2>1. ASSUME NEW t \in ToSet(held), Trusted(t)
        PROVE  /\ t.lens = Lens(t.want)
               /\ IF Capturing THEN ReadyInCapture(t.buf, FlattenSeq(t.want))'
                               ELSE Ready(t.on, t.buf, FlattenSeq(t.want))'
    <3>1. t.lens = Lens(t.want)
      BY <1>1, <2>1 DEF HeldRight
    <3>2. CASE Capturing
      <4>1. /\ t.buf \in Buffers /\ home[t.buf] = CapturePool
            /\ Brings(Now, capture.ops, Len(capture.ops), t.buf, FlattenSeq(t.want))
        BY <1>1, <2>1, <3>2 DEF HeldRight, ReadyInCapture
      <4>2. Len(capture.ops) \in Nat
        BY <1>1, OpsTyped
      <4>3. Brings(Now', capture.ops, Len(capture.ops), t.buf, FlattenSeq(t.want))
        BY <1>9, <4>1, <4>2, FindsSame
      <4>4. capture' = capture /\ home'[t.buf] = CapturePool /\ CapturePool' = CapturePool
        BY <1>2, <4>1 DEF CapturePool
      <4> QED
        BY <3>1, <3>2, <4>1, <4>3, <4>4 DEF ReadyInCapture
    <3>3. CASE ~Capturing
      <4>1. Ready(t.on, t.buf, FlattenSeq(t.want))
        BY <1>1, <2>1, <3>3 DEF HeldRight
      <4>2. t.on \in Streams /\ t.buf \in Referenced
        BY <4>1 DEF Ready, Referenced
      <4> QED
        BY <1>14, <3>1, <3>3, <4>1, <4>2 DEF ReadyKept
    <3> QED
      BY <3>2, <3>3
  <2>2. \A t \in ToSet(held) : home'[t.buf] # Nowhere /\ t.on = held[1].on
    BY <1>1, <1>2 DEF HeldRight
  <2> QED
    BY <1>2, <2>1, <2>2 DEF HeldRight
<1>17. Typed'
  <2>1. /\ arena' \in [host : Seq(Seq(Nat)), off : Nat] /\ arena'.host # <<>> /\ (arena.off <= Len(Host))'
        /\ ring' = [slot |-> [s \in 0 .. RingSlots - 1 |-> ring'.slot[s]], next |-> ring'.next]
        /\ ring'.next \in 0 .. RingSlots - 1
    BY <1>1, <1>2 DEF Typed, Host
  <2>2. /\ fast' \in Seq(Entries) /\ memo' \in Seq(Entries) /\ tiles' \in Seq(TileEntries)
        /\ held' \in Seq(Tables) /\ captures' \in Nat /\ (Capturing' => captures' > 0)
        /\ home' \in [Buffers -> Pools]
        /\ graphs' \in Seq(Seq(Ops)) /\ capture' \in [on : BOOLEAN, ops : Seq(Ops)]
    BY <1>1, <1>2 DEF Typed
  <2> QED
    BY <1>7, <1>8, <2>1, <2>2 DEF Typed
\* What is queued was queued.
<1>18. ASSUME NEW s \in Streams, NEW i \in DOMAIN queue'[s]
       PROVE  /\ (IF s = st THEN i + 1 ELSE i) \in DOMAIN queue[s]
              /\ queue'[s][i] = queue[s][IF s = st THEN i + 1 ELSE i]
  <2>1. CASE s = st
    <3>1. i \in 1 .. Len(q) - 1 /\ i + 1 \in 1 .. Len(q)
      BY <1>4, <1>7, <2>1
    <3> QED
      BY <1>3, <1>4, <1>7, <2>1, <3>1
  <2>2. CASE s # st
    BY <1>7, <2>2
  <2> QED
    BY <2>1, <2>2
<1>19. SourcesOwned'
  <2>1. ASSUME NEW s \in Streams, NEW i \in DOMAIN queue'[s]
        PROVE  SourceOwned(arena', queue'[s][i])
    BY <1>1, <1>2, <1>18 DEF SourcesOwned
  <2> QED
    BY <1>1, <1>2, <2>1 DEF SourcesOwned
<1>20. PoolsApart'
  <2>1. CapturePool' = CapturePool /\ \A c \in Buffers : Sealed(c)' = Sealed(c)
    BY <1>2 DEF CapturePool, Sealed
  <2>2. ASSUME NEW s \in Streams, NEW i \in DOMAIN queue'[s], NEW c \in Buffers, Touches(queue'[s][i], c)
        PROVE  home[c] = StreamPool(s) \/ (s = ReplayStream /\ Sealed(c))
    BY <1>1, <1>18, <2>2 DEF PoolsApart
  <2> QED
    BY <1>1, <1>2, <2>1, <2>2 DEF PoolsApart
<1>21. QueuesRight'
  <2>1. SUFFICES ASSUME NEW s \in Streams, NEW i \in DOMAIN queue'[s], queue'[s][i].op = "kernel",
                        NEW t \in ToSet(queue'[s][i].reads), Trusted(t)
                 PROVE  t.lens = Lens(t.want) /\ Finds(Now', queue'[s], i - 1, t.buf, FlattenSeq(t.want))
    BY DEF QueuesRight
  <2>2. PICK j : j = IF s = st THEN i + 1 ELSE i
    OBVIOUS
  <2>3. j \in DOMAIN queue[s] /\ queue'[s][i] = queue[s][j]
    BY <1>18, <2>2
  <2>4. /\ queue[s][j] \in Ops /\ queue[s] \in Seq(Ops) /\ queue'[s] \in Seq(Ops)
    BY <1>1, <1>7, <2>3, OpsTyped
  <2>5. /\ t.lens = Lens(t.want) /\ Finds(Now, queue[s], j - 1, t.buf, FlattenSeq(t.want))
        /\ t.buf \in Buffers /\ Touches(queue[s][j], t.buf)
    BY <1>1, <2>1, <2>3, <2>4, OpIs DEF QueuesRight
  <2>6. /\ j - 1 \in 0 .. Len(queue[s]) /\ (s = st => j - 1 > 0)
        /\ i - 1 = IF s = st THEN j - 1 - 1 ELSE j - 1
    <3>1. i \in Nat /\ i > 0 /\ j \in 1 .. Len(queue[s]) /\ Len(queue[s]) \in Nat
      BY <2>3, <2>4
    <3> QED
      BY <2>2, <3>1
  <2>7. s # st => ~Copies(o, t.buf)
    <3>1. home[t.buf] = StreamPool(s) \/ (s = ReplayStream /\ Sealed(t.buf))
      BY <1>1, <2>3, <2>5 DEF PoolsApart
    <3>2. Sealed(t.buf) => \A x : home[t.buf] # StreamPool(x)
      BY PoolsDiffer DEF Sealed
    <3> QED
      BY <1>11, <2>5, <3>1, <3>2, PoolsDiffer
  <2>8. PICK n : n = j - 1
    OBVIOUS
  <2>9. /\ n \in 0 .. Len(queue[s]) /\ (s = st => n > 0) /\ Finds(Now, queue[s], n, t.buf, FlattenSeq(t.want))
        /\ i - 1 = IF s = st THEN n - 1 ELSE n
    BY <2>5, <2>6, <2>8
  <2>10. Finds(Now', queue'[s], IF s = st THEN n - 1 ELSE n, t.buf, FlattenSeq(t.want))
    BY <1>12, <2>5, <2>7, <2>9
  <2> QED
    BY <2>5, <2>9, <2>10
<1>22. GraphsRight'
  <2>1. \A x \in Seq(Ops) : SelfContained(Now, x) => SelfContained(Now', x)
    BY <1>9, ContainedKept
  <2> QED
    BY <1>1, <1>2, <2>1, OpsTyped DEF GraphsRight
<1> QED
  BY <1>15, <1>16, <1>17, <1>19, <1>20, <1>21, <1>22 DEF IInv

-----------------------------------------------------------------------------
LEMMA InitKeeps ==
  ASSUME Init
  PROVE  IInv
<1>1. RingSlots \in Nat /\ RingSlots > 0 /\ ArenaInts \in Nat
  <2>1. RingSlots \in Nat /\ RingSlots # 0 /\ ArenaInts \in Nat
    BY PinnedStagingAssumption
  <2> QED
    BY <2>1
<1>2. /\ ring = [slot |-> [s \in 0 .. RingSlots - 1 |-> <<>>], next |-> 0]
      /\ arena = [host |-> <<[i \in 1 .. ArenaInts |-> 0]>>, off |-> 0]
      /\ fast = <<>> /\ memo = <<>> /\ tiles = <<>> /\ held = <<>>
      /\ capture = NoCapture /\ capture.ops = <<>> /\ ~Capturing
      /\ graphs = <<>> /\ captures = 0
      /\ queue = [st \in Streams |-> <<>>]
      /\ dev = [b \in Buffers |-> <<>>]
      /\ home = [b \in Buffers |-> Nowhere]
  BY DEF Init, NoCapture, Capturing
<1>3. \A st \in Streams : queue[st] = <<>> /\ DOMAIN queue[st] = {}
  BY <1>2
<1>4. DOMAIN capture.ops = {} /\ DOMAIN graphs = {} /\ ToSet(<<>>) = {}
  BY <1>2 DEF ToSet
<1>5. Typed
  <2>1. PICK z : z = [i \in 1 .. ArenaInts |-> 0]
    OBVIOUS
  <2>2. z \in Seq(Nat) /\ Len(z) = ArenaInts /\ <<z>> \in Seq(Seq(Nat)) /\ <<z>> # <<>>
    BY <1>1, <2>1
  <2>3. arena \in [host : Seq(Seq(Nat)), off : Nat] /\ arena.host # <<>> /\ arena.off <= Len(Host)
    <3>1. arena = [host |-> <<z>>, off |-> 0]
      BY <1>2, <2>1
    <3>2. Host = z
      BY <3>1 DEF Host, Last
    <3> QED
      BY <1>1, <2>2, <3>1, <3>2
  <2>4. /\ ring = [slot |-> [s \in 0 .. RingSlots - 1 |-> ring.slot[s]], next |-> ring.next]
        /\ ring.next \in 0 .. RingSlots - 1
    <3>1. PICK f : f = [s \in 0 .. RingSlots - 1 |-> <<>>]
      OBVIOUS
    <3>2. ring.slot = f /\ ring.next = 0 /\ ring = [slot |-> f, next |-> 0]
      BY <1>2, <3>1
    <3>3. f = [s \in 0 .. RingSlots - 1 |-> f[s]]
      BY <3>1
    <3>4. 0 \in 0 .. RingSlots - 1
      BY <1>1
    <3> QED
      BY <3>2, <3>3, <3>4
  <2>5. fast \in Seq(Entries) /\ memo \in Seq(Entries) /\ tiles \in Seq(TileEntries) /\ held \in Seq(Tables)
    BY <1>2
  <2>6. capture \in [on : BOOLEAN, ops : Seq(Ops)] /\ graphs \in Seq(Seq(Ops)) /\ captures \in Nat
    BY <1>2 DEF NoCapture
  <2>7. /\ queue \in [Streams -> Seq(Ops)] /\ dev = [b \in Buffers |-> dev[b]]
        /\ home \in [Buffers -> Pools]
    BY <1>2 DEF Pools
  <2> QED
    BY <1>2, <2>3, <2>4, <2>5, <2>6, <2>7 DEF Typed
<1>6. SourcesOwned /\ PoolsApart
  BY <1>2, <1>3, <1>4 DEF SourcesOwned, PoolsApart
<1>7. MemosRight /\ HeldRight
  BY <1>2, <1>4 DEF MemosRight, HeldRight
<1>8. QueuesRight /\ GraphsRight
  BY <1>3, <1>4 DEF QueuesRight, GraphsRight, SelfContained
<1> QED
  BY <1>5, <1>6, <1>7, <1>8 DEF IInv

LEMMA StutterKeeps ==
  ASSUME IInv, UNCHANGED vars
  PROVE  IInv'
<1>1. /\ UNCHANGED <<ring, arena, memos, held, capture, graphs, captures, device, home>>
      /\ queue' = queue /\ dev' = dev /\ fast' = fast /\ memo' = memo /\ tiles' = tiles
      /\ Capturing' = Capturing
  BY DEF vars, memos, device, Capturing
<1>2. /\ ReadyKept /\ CaptureKept /\ SourcesOwned' /\ PoolsApart' /\ QueuesRight' /\ GraphsRight'
  BY <1>1, HitKeeps
<1>3. MemosRight'
  BY <1>1, <1>2, MemosKept DEF IInv
<1>4. Now' = Now /\ CapturePool' = CapturePool
  BY <1>1 DEF Now, CapturePool
<1>5. HeldRight'
  BY <1>1, <1>4 DEF IInv, HeldRight, Ready, ReadyInCapture
<1>6. Typed'
  BY <1>1 DEF IInv, Typed, Host
<1> QED
  BY <1>2, <1>3, <1>5, <1>6 DEF IInv

(* What the host and the queues rely on holds throughout.                  *)
LEMMA Invariance == Spec => []IInv
<1>1. Init => IInv
  BY InitKeeps
<1>2. IInv /\ [Next]_vars => IInv'
  <2> SUFFICES ASSUME IInv, [Next]_vars
               PROVE  IInv'
    OBVIOUS
  <2>1. ASSUME NEW st \in Streams, NEW r \in Requests[st], TileHit(st, r)
        PROVE  IInv'
    BY <2>1, TileHitKeeps
  <2>2. ASSUME NEW st \in Streams, NEW r \in Requests[st], NEW form \in Forms, FastHit(st, r, form)
        PROVE  IInv'
    BY <2>2, FastHitKeeps
  <2>3. ASSUME NEW st \in Streams, NEW r \in Requests[st], NEW form \in Forms, MemoHit(st, r, form)
        PROVE  IInv'
    BY <2>3, MemoHitKeeps
  <2>4. ASSUME NEW st \in Streams, NEW r \in Requests[st], NEW form \in Forms, Stage(st, r, form)
        PROVE  IInv'
    BY <2>4, StageKeeps
  <2>5. ASSUME NEW st \in Streams, NEW r \in Requests[st], NEW form \in Forms, CopyPageable(st, r, form)
        PROVE  IInv'
    BY <2>5, CopyPageableKeeps
  <2>6. ASSUME NEW st \in Streams, NEW r \in Requests[st], NEW form \in Forms, TakeSlice(st, r, form)
        PROVE  IInv'
    BY <2>6, TakeSliceKeeps
  <2>7. ASSUME NEW st \in Streams, NEW r \in Requests[st], NEW form \in Forms, Refuse(st, r, form)
        PROVE  IInv'
    BY <2>7, RefuseKeeps
  <2>8. ASSUME NEW r \in Requests[CaptureStream], Reserve(Total(r))
        PROVE  IInv'
    <3>1. CaptureStream \in Streams
      BY PinnedStagingAssumption
    <3>2. Total(r) \in Nat
      BY <3>1, RequestIs
    <3> QED
      BY <2>8, <3>2, ReserveKeeps
  <2>9. ASSUME Launch PROVE IInv'
    BY <2>9, LaunchKeeps
  <2>10. ASSUME BeginCapture PROVE IInv'
    BY <2>10, BeginCaptureKeeps
  <2>11. ASSUME EndCapture PROVE IInv'
    BY <2>11, EndCaptureKeeps
  <2>12. ASSUME NEW g \in DOMAIN graphs, Replay(g) PROVE IInv'
    BY <2>12, ReplayKeeps
  <2>13. ASSUME NEW st \in Streams, Execute(st) PROVE IInv'
    BY <2>13, ExecuteKeeps
  <2>14. ASSUME UNCHANGED vars PROVE IInv'
    BY <2>14, StutterKeeps
  <2> QED
    BY <2>1, <2>2, <2>3, <2>4, <2>5, <2>6, <2>7, <2>8, <2>9, <2>10, <2>11, <2>12, <2>13, <2>14 DEF Next
<1> QED
  BY <1>1, <1>2, PTL DEF Spec

(* What a kernel about to run reads is in device memory, and is right.     *)
LEMMA ReadsAreRight ==
  ASSUME IInv, NEW st \in Streams, NEW t \in ReadNow(st), Trusted(t)
  PROVE  HasItsValues(t)
<1>1. queue[st] # <<>> /\ Head(queue[st]).op = "kernel" /\ t \in ToSet(Head(queue[st]).reads)
  BY DEF ReadNow
<1>2. 1 \in DOMAIN queue[st] /\ Head(queue[st]) = queue[st][1]
  <2>1. queue[st] \in Seq(Ops)
    BY OpsTyped DEF IInv
  <2> QED
    BY <1>1, <2>1
<1>3. t.lens = Lens(t.want) /\ Finds(Now, queue[st], 0, t.buf, FlattenSeq(t.want))
  BY <1>1, <1>2 DEF IInv, QueuesRight
<1> QED
  BY <1>3 DEF Finds, Brings, Now, HasItsValues

(* Every table that a kernel about to run reads is in device memory, with  *)
(* the numbers of the call and cut as they were given: eager or captured,  *)
(* on the first run or on a replay, whichever memo answered.  Only the     *)
(* tables apart that the memo of build_group_tiles gave to another stream, *)
(* or across a capture; they spoil no other.                               *)
THEOREM ValuesReach == Spec => []OwnTablesRead
<1>1. IInv => OwnTablesRead
  BY ReadsAreRight DEF OwnTablesRead, Trusted
<1> QED
  BY <1>1, Invariance, PTL
=============================================================================
