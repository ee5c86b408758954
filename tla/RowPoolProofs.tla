---------------------------- MODULE RowPoolProofs ----------------------------
(***************************************************************************)
(* For every number of partitions, streams and rows, and whatever the      *)
(* owner writes when: the ring never reuses a row whose copy is            *)
(* outstanding, and what is served from the host is what was written, for  *)
(* every row whose copy was queued behind its writes.                      *)
(*                                                                         *)
(* None of the safety properties is inductive.  That a batch whose event   *)
(* has fired leaves no copy below its mark needs the batch each copy       *)
(* belongs to, and that no earlier batch of the partition reaches past it; *)
(* that the copies of a stream run one at a time needs their tickets to    *)
(* be distinct and between executed and queued; and that a copy reads the  *)
(* last write needs what it waits for, on a stream in order, and what has  *)
(* landed, on another.                                                     *)
(***************************************************************************)
EXTENDS RowPool, TLAPS

\* The cursors of a partition are ordered, and fit the ring and the store.
CursorsOrdered ==
  \A p \in Partitions :
    /\ head[p] = demoted[p]
    /\ head[p] <= frontier[p]
    /\ frontier[p] <= tail[p]
    /\ tail[p] <= head[p] + DeviceRows
    /\ frontier[p] <= HostRows

\* A stream's outstanding copies hold distinct tickets, all yet to be executed.
TicketsOrdered ==
  /\ \A s \in Streams : executed[s] <= queued[s]
  /\ \A c \in copying : executed[c.stream] < c.at /\ c.at <= queued[c.stream]
  /\ \A c, d \in copying : c.stream = d.stream /\ c.at = d.at => c = d

\* A copy's row is between the settled head and the enqueued frontier.
CopiesBelowFrontier ==
  \A c \in copying : head[c.p] <= c.row /\ c.row < frontier[c.p]

\* A partition's batches have distinct marks, at or below its frontier.
BatchesBelowFrontier ==
  /\ \A b \in pending : b.upto <= frontier[b.p] /\ b.at <= queued[b.stream]
  /\ \A b, c \in pending : b.p = c.p /\ b.upto = c.upto => b = c

\* The batch a copy belongs to: its event is behind the copy on one stream.
Covers(b, c) ==
  /\ b.p = c.p
  /\ b.stream = c.stream
  /\ c.row < b.upto
  /\ c.at <= b.at
  /\ \A d \in pending : d.p = b.p /\ d.upto < b.upto => d.upto <= c.row

CopiesCovered == \A c \in copying : \E b \in pending : Covers(b, c)

\* No device row has a version its owner has not written.
VersionsWritten ==
  \A p \in Partitions : \A d \in Ring : \A i \in Rows :
    /\ dev[p][d].row = i => dev[p][d].version <= version[p][i]
    /\ landed[p][d].row = i => landed[p][d].version <= version[p][i]

\* A copy that overtakes no write waits for all of them, or they have landed.
CopiesReadTheLast ==
  \A c \in copying : c.row \notin overtaken[c.p] =>
    IF c.stream \in InOrder THEN c.behind = version[c.p][c.row]
                           ELSE landed[c.p][DSlot(c.row)] = Written(c.p, c.row)

\* A row below the frontier is on its way to the host, or there.
DemotedRowsKept ==
  \A p \in Partitions : \A i \in (0 .. frontier[p] - 1) \ overtaken[p] :
    \/ \E c \in copying : c.p = p /\ c.row = i
    \/ host[p][i] = Written(p, i)

IInv ==
  /\ TypeOK
  /\ CursorsOrdered
  /\ TicketsOrdered
  /\ CopiesBelowFrontier
  /\ BatchesBelowFrontier
  /\ CopiesCovered
  /\ ResidentRowIntact
  /\ VersionsWritten
  /\ CopiesReadTheLast
  /\ DemotedRowsKept

-----------------------------------------------------------------------------
(* Two rows less than a ring apart have different ring slots.              *)
LEMMA SlotsApart ==
  ASSUME NEW i \in Nat, NEW j \in Nat, i < j, j < i + DeviceRows
  PROVE  DSlot(i) # DSlot(j)
<1>. DEFINE D == DeviceRows
            q == (j \div D) - (i \div D)
<1>. SUFFICES ASSUME i % D = j % D PROVE FALSE
  BY DEF DSlot
<1>1. D \in Nat /\ D > 0
  BY RowPoolAssumption
<1>2. \A n \in Nat : n = D * (n \div D) + (n % D) /\ n \div D \in Int
  BY <1>1
<1>3. j - i = D * q /\ q \in Int
  BY <1>1, <1>2
<1>4. 0 < D * q /\ D * q < D
  BY <1>1, <1>3
<1>5. q > 0
  BY <1>1, <1>3, <1>4
<1>6. D * q >= D
  BY <1>1, <1>3, <1>5
<1>. QED
  BY <1>1, <1>3, <1>4, <1>6

\* A remainder is unique.
LEMMA SlotIs ==
  ASSUME NEW n \in Nat, NEW q \in Int, NEW r \in Ring, n = DeviceRows * q + r
  PROVE  DSlot(n) = r
<1>. DEFINE D == DeviceRows
            z == q - (n \div D)
<1>1. D \in Nat /\ D > 0 /\ r \in 0 .. D - 1
  BY RowPoolAssumption DEF Ring
<1>2. n = D * (n \div D) + (n % D) /\ n \div D \in Int /\ n % D \in 0 .. D - 1
  BY <1>1
<1>3. z \in Int /\ (n % D) - r = D * z
  BY <1>1, <1>2
<1>4. D * z < D /\ -D < D * z
  BY <1>1, <1>2, <1>3
<1>5. CASE z >= 1
  <2>1. D * z >= D
    BY <1>1, <1>3, <1>5
  <2>. QED
    BY <1>1, <1>3, <1>4, <2>1
<1>6. CASE z <= -1
  <2>1. D * z <= -D
    BY <1>1, <1>3, <1>6
  <2>. QED
    BY <1>1, <1>3, <1>4, <2>1
<1>7. CASE z = 0
  BY <1>1, <1>2, <1>3, <1>7 DEF DSlot
<1>. QED
  BY <1>3, <1>5, <1>6, <1>7

(* Fewer than a ring of rows on from a row, the slot is as many slots on,  *)
(* or that less a ring.                                                    *)
LEMMA SlotAfter ==
  ASSUME NEW i \in Nat, NEW j \in Nat, j < DeviceRows
  PROVE  DSlot(i + j) = IF DSlot(i) + j < DeviceRows THEN DSlot(i) + j
                                                     ELSE DSlot(i) + j - DeviceRows
<1>. DEFINE D == DeviceRows
            a == DSlot(i)
            q == i \div D
<1>1. D \in Nat /\ D > 0
  BY RowPoolAssumption
<1>2. i = D * q + a /\ q \in Int /\ a \in 0 .. D - 1
  BY <1>1 DEF DSlot
<1>3. CASE a + j < D
  <2>1. i + j = D * q + (a + j) /\ a + j \in Ring
    BY <1>1, <1>2, <1>3 DEF Ring
  <2>. QED
    BY <2>1, <1>2, <1>3, SlotIs
<1>4. CASE a + j >= D
  <2>1. D * (q + 1) = D * q + D
    BY <1>1, <1>2
  <2>2. i + j = D * (q + 1) + (a + j - D) /\ a + j - D \in Ring
    BY <2>1, <1>1, <1>2, <1>4 DEF Ring
  <2>3. i + j \in Nat /\ q + 1 \in Int
    BY <1>2
  <2>. HIDE DEF a, q
  <2>4. DSlot(i + j) = a + j - D
    BY <2>2, <2>3, SlotIs
  <2>. QED
    BY <2>4, <1>1, <1>2, <1>4 DEF a
<1>. QED
  BY <1>1, <1>2, <1>3, <1>4

\* A row's ring slot is one.
LEMMA SlotInRing == \A i \in Nat : DSlot(i) \in Ring
BY RowPoolAssumption DEF DSlot, Ring

-----------------------------------------------------------------------------
\* An empty pool satisfies the invariant (row_pool.py, __init__).
LEMMA InitIInv == Init => IInv
<1>. SUFFICES ASSUME Init PROVE IInv
  OBVIOUS
<1>1. TypeOK
  BY RowPoolAssumption
  DEF Init, TypeOK, Contents, Nothing, Rows, Ring, Store
<1>. QED
  BY <1>1, RowPoolAssumption
  DEF Init, IInv, CursorsOrdered, TicketsOrdered, CopiesBelowFrontier, BatchesBelowFrontier,
      CopiesCovered, ResidentRowIntact, VersionsWritten, CopiesReadTheLast, DemotedRowsKept,
      Nothing, Rows, Ring

\* Appending keeps it: the slot written is no resident row's (row_pool.py, append).
LEMMA AppendIInv ==
  ASSUME IInv, NEW p \in Partitions, Append(p)
  PROVE  IInv'
<1>. USE DEF IInv
<1>. DEFINE t == tail[p]
<1>1. /\ t \in Rows /\ tail'[p] = t + 1 /\ t - head[p] < DeviceRows
      /\ \A q \in Partitions : q # p => tail'[q] = tail[q]
      /\ \A q \in Partitions : tail[q] \in Nat /\ head[q] \in Nat /\ frontier[q] \in Nat
  BY RowPoolAssumption DEF Append, TypeOK, Rows
<1>2. TypeOK'
  <2>1. Written(p, t) \in Contents
    BY <1>1 DEF Written, Contents, TypeOK
  <2>2. dev' \in [Partitions -> [Ring -> Contents]]
    BY <1>1, <2>1, SlotInRing DEF Append, TypeOK, Rows
  <2>3. tail' \in [Partitions -> 0 .. MaxRows]
    BY RowPoolAssumption DEF Append, TypeOK
  <2>. QED
    BY <2>2, <2>3 DEF Append, TypeOK, streamVars
<1>3. CursorsOrdered'
  BY <1>1, RowPoolAssumption DEF Append, CursorsOrdered, TypeOK
<1>4. /\ TicketsOrdered' /\ CopiesBelowFrontier' /\ BatchesBelowFrontier'
  BY DEF Append, TicketsOrdered, CopiesBelowFrontier, BatchesBelowFrontier, streamVars
<1>5. CopiesCovered'
  BY DEF Append, CopiesCovered, Covers, streamVars
<1>6. DemotedRowsKept'
  BY DEF Append, DemotedRowsKept, Written, streamVars
<1>8. VersionsWritten'
  <2>1. \A q \in Partitions, d \in Ring :
          dev'[q][d] = IF q = p /\ d = DSlot(t) THEN Written(p, t) ELSE dev[q][d]
    BY DEF Append, TypeOK
  <2>2. version[p][t] \in Nat
    BY <1>1 DEF TypeOK
  <2>. QED
    BY <2>1, <2>2 DEF Append, VersionsWritten, Written
<1>9. CopiesReadTheLast'
  BY DEF Append, CopiesReadTheLast, Written, streamVars
<1>7. ResidentRowIntact'
  <2>. SUFFICES ASSUME NEW q \in Partitions, NEW i \in (head[q] .. tail[q] - 1)'
                PROVE  dev'[q][DSlot(i)] = Written(q, i)
    BY DEF ResidentRowIntact, Append, Written
  <2>1. CASE q = p /\ i = t
    BY <2>1, <1>1, SlotInRing DEF Append, TypeOK
  <2>2. CASE ~(q = p /\ i = t)
    <3>1. i \in head[q] .. tail[q] - 1 /\ i \in Nat
      BY <2>2, <1>1 DEF Append
    <3>2. ASSUME q = p PROVE DSlot(i) # DSlot(t)
      <4>1. i < t /\ t < i + DeviceRows
        BY <2>2, <3>1, <3>2, <1>1, RowPoolAssumption
      <4>. QED
        BY <4>1, <3>1, <1>1, SlotsApart DEF Rows
    <3>3. dev'[q][DSlot(i)] = dev[q][DSlot(i)]
      BY <3>1, <3>2, SlotInRing DEF Append, TypeOK
    <3>. QED
      BY <3>1, <3>3 DEF ResidentRowIntact
  <2>. QED
    BY <2>1, <2>2
<1>. QED
  BY <1>2, <1>3, <1>4, <1>5, <1>6, <1>7, <1>8, <1>9

(* Writing a row again keeps it: a row already demoted is one whose copy   *)
(* the write may come too late for (row_pool.py, row_view).                *)
LEMMA WriteIInv ==
  ASSUME IInv, NEW p \in Partitions, NEW r \in Rows, Write(p, r)
  PROVE  IInv'
<1>. USE DEF IInv
<1>0. \A q \in Partitions :
        /\ tail[q] \in 0 .. MaxRows /\ head[q] \in Nat /\ frontier[q] \in Nat
        /\ head[q] <= frontier[q] /\ frontier[q] <= tail[q]
  BY DEF TypeOK, CursorsOrdered
<1>1. /\ r \in Nat /\ head[p] <= r /\ r < tail[p]
      /\ version[p][r] \in Nat /\ version[p][r] + 1 \in 0 .. MaxVersion
  <2>1. r \in head[p] .. tail[p] - 1 /\ version[p][r] < MaxVersion
    BY DEF Write
  <2>2. version[p][r] \in 0 .. MaxVersion
    BY DEF TypeOK
  <2>. QED
    BY <1>0, <2>1, <2>2, RowPoolAssumption
<1>2. \A q \in Partitions, i \in Rows :
        ~(q = p /\ i = r) => Written(q, i)' = Written(q, i)
  BY DEF Write, Written, TypeOK
<1>3. TypeOK'
  <2>1. dev' \in [Partitions -> [Ring -> Contents]]
    BY <1>1, SlotInRing DEF Write, TypeOK, Contents
  <2>2. version' \in [Partitions -> [Rows -> 0 .. MaxVersion]]
    BY <1>1 DEF Write, TypeOK
  <2>3. overtaken' \in [Partitions -> SUBSET Rows]
    BY DEF Write, TypeOK
  <2>. QED
    BY <2>1, <2>2, <2>3 DEF Write, TypeOK, poolVars, streamVars
<1>8. /\ \A q \in Partitions : overtaken[q] \subseteq overtaken'[q]
      /\ r < frontier[p] => r \in overtaken'[p]
  BY DEF Write, TypeOK
<1>4. /\ CursorsOrdered' /\ TicketsOrdered' /\ CopiesBelowFrontier' /\ BatchesBelowFrontier'
  BY DEF Write, CursorsOrdered, TicketsOrdered, CopiesBelowFrontier, BatchesBelowFrontier,
         streamVars, poolVars
<1>5. CopiesCovered'
  BY DEF Write, CopiesCovered, Covers, streamVars, poolVars
<1>6. DemotedRowsKept'
  <2>. SUFFICES ASSUME NEW q \in Partitions, NEW i \in (0 .. frontier[q] - 1) \ overtaken'[q],
                       ~ \E c \in copying : c.p = q /\ c.row = i
                PROVE  host[q][i] = Written(q, i)'
    BY DEF Write, DemotedRowsKept, streamVars, poolVars
  <2>1. i \in Rows /\ ~(q = p /\ i = r)
    BY <1>0, <1>1, <1>8, RowPoolAssumption DEF Rows
  <2>2. i \in (0 .. frontier[q] - 1) \ overtaken[q]
    BY <1>8
  <2>. QED
    BY <2>1, <2>2, <1>2 DEF DemotedRowsKept
<1>9. CopiesReadTheLast'
  <2>. SUFFICES ASSUME NEW c \in copying, c.row \notin overtaken'[c.p]
                PROVE  IF c.stream \in InOrder THEN c.behind = version'[c.p][c.row]
                       ELSE landed[c.p][DSlot(c.row)] = Written(c.p, c.row)'
    BY DEF Write, CopiesReadTheLast, streamVars
  <2>1. c.p \in Partitions /\ c.row \in Rows /\ c.row < frontier[c.p]
    BY DEF TypeOK, CopiesBelowFrontier
  <2>2. ~(c.p = p /\ c.row = r)
    BY <2>1, <1>8
  <2>3. version'[c.p][c.row] = version[c.p][c.row]
    BY <2>1, <2>2 DEF Write, TypeOK
  <2>4. c.row \notin overtaken[c.p]
    BY <2>1, <1>8
  <2>. QED
    BY <2>1, <2>2, <2>3, <2>4, <1>2 DEF CopiesReadTheLast
<1>10. VersionsWritten'
  <2>1. \A q \in Partitions, d \in Ring :
          dev'[q][d] = IF q = p /\ d = DSlot(r) THEN [row |-> r, version |-> version[p][r] + 1] ELSE dev[q][d]
    BY DEF Write, TypeOK
  <2>2. \A q \in Partitions, i \in Rows :
          version'[q][i] = IF q = p /\ i = r THEN version[p][r] + 1 ELSE version[q][i]
    BY DEF Write, TypeOK
  <2>. SUFFICES ASSUME NEW q \in Partitions, NEW d \in Ring, NEW i \in Rows
                PROVE  /\ dev'[q][d].row = i => dev'[q][d].version <= version'[q][i]
                       /\ landed[q][d].row = i => landed[q][d].version <= version'[q][i]
    BY DEF Write, VersionsWritten
  <2>3. /\ dev[q][d].row = i => dev[q][d].version <= version[q][i]
        /\ landed[q][d].row = i => landed[q][d].version <= version[q][i]
    BY DEF VersionsWritten
  <2>4. dev[q][d].version \in Nat /\ landed[q][d].version \in Nat /\ version[q][i] \in Nat
    BY DEF TypeOK, Contents, Nothing
  <2>5. CASE q = p /\ i = r
    BY <2>1, <2>2, <2>3, <2>4, <2>5, <1>1
  <2>6. CASE ~(q = p /\ i = r)
    BY <2>1, <2>2, <2>3, <2>4, <2>6, <1>1
  <2>. QED
    BY <2>5, <2>6
<1>7. ResidentRowIntact'
  <2>. SUFFICES ASSUME NEW q \in Partitions, NEW i \in head[q] .. tail[q] - 1
                PROVE  dev'[q][DSlot(i)] = Written(q, i)'
    BY DEF ResidentRowIntact, Write, poolVars
  <2>0. i \in Nat /\ i \in Rows
    BY <1>0, RowPoolAssumption DEF Rows
  <2>1. CASE q = p /\ i = r
    <3>1. version'[p][r] = version[p][r] + 1
      BY DEF Write, TypeOK
    <3>. QED
      BY <2>1, <3>1, <1>1, SlotInRing DEF Write, TypeOK, Written
  <2>2. CASE ~(q = p /\ i = r)
    <3>1. q = p => i < r + DeviceRows /\ r < i + DeviceRows
      BY <1>0, <1>1, RowPoolAssumption DEF CursorsOrdered
    <3>2. q = p => DSlot(i) # DSlot(r)
      BY <2>0, <2>2, <3>1, <1>1, SlotsApart
    <3>3. dev'[q][DSlot(i)] = dev[q][DSlot(i)]
      BY <2>0, <3>2, SlotInRing DEF Write, TypeOK
    <3>. QED
      BY <2>0, <2>2, <3>3, <1>2 DEF ResidentRowIntact
  <2>. QED
    BY <2>1, <2>2
<1>. QED
  BY <1>3, <1>4, <1>5, <1>6, <1>7, <1>9, <1>10

\* A write that lands keeps it (row_pool.py, append and row_view).
LEMMA LandIInv ==
  ASSUME IInv, NEW p \in Partitions, NEW d \in Ring, Land(p, d)
  PROVE  IInv'
<1>. USE DEF IInv
<1>1. /\ landed' = [landed EXCEPT ![p][d] = dev[p][d]]
      /\ UNCHANGED <<head, tail, demoted, frontier, pending, queued, executed, copying,
                     dev, host, version, overtaken>>
      /\ \A q \in Partitions, e \in Ring : landed'[q][e] \in {landed[q][e], dev[q][e]}
  BY DEF Land, TypeOK, poolVars, streamVars
<1>2. TypeOK'
  BY <1>1 DEF TypeOK
<1>3. /\ CursorsOrdered' /\ TicketsOrdered' /\ CopiesBelowFrontier' /\ BatchesBelowFrontier'
      /\ ResidentRowIntact' /\ DemotedRowsKept'
  BY <1>1 DEF CursorsOrdered, TicketsOrdered, CopiesBelowFrontier, BatchesBelowFrontier,
              ResidentRowIntact, DemotedRowsKept, Written
<1>4. CopiesCovered'
  BY <1>1 DEF CopiesCovered, Covers
<1>5. VersionsWritten'
  BY <1>1 DEF VersionsWritten
<1>6. CopiesReadTheLast'
  <2>. SUFFICES ASSUME NEW c \in copying, c.row \notin overtaken[c.p], c.stream \notin InOrder
                PROVE  landed'[c.p][DSlot(c.row)] = Written(c.p, c.row)
    BY <1>1 DEF CopiesReadTheLast, Written
  <2>1. /\ c.p \in Partitions /\ c.row \in Nat /\ c.row \in Rows
        /\ head[c.p] <= c.row /\ c.row < frontier[c.p]
    BY DEF TypeOK, CopiesBelowFrontier, Rows
  <2>2. c.row \in head[c.p] .. tail[c.p] - 1
    BY <2>1 DEF CursorsOrdered, TypeOK
  <2>3. dev[c.p][DSlot(c.row)] = Written(c.p, c.row)
    BY <2>1, <2>2 DEF ResidentRowIntact
  <2>4. landed[c.p][DSlot(c.row)] = Written(c.p, c.row)
    BY DEF CopiesReadTheLast
  <2>. QED
    BY <2>1, <2>3, <2>4, <1>1, SlotInRing
<1>. QED
  BY <1>2, <1>3, <1>4, <1>5, <1>6

\* Queueing copies keeps it: the batch covers them (row_pool.py, demote_head).
LEMMA DemoteHeadIInv ==
  ASSUME IInv, NEW p \in Partitions, NEW upto \in 1 .. MaxRows, NEW s \in Streams,
         DemoteHead(p, upto, s)
  PROVE  IInv'
<1>. USE DEF IInv
<1>. DEFINE n == upto - frontier[p]
            new(k) == [p |-> p, row |-> frontier[p] + k - 1, stream |-> s, at |-> queued[s] + k,
                       behind |-> version[p][frontier[p] + k - 1]]
            fresh == {new(k) : k \in 1 .. n}
            batch == [p |-> p, upto |-> upto, stream |-> s, at |-> queued[s] + n]
<1>1. /\ frontier[p] \in Nat /\ n \in Nat /\ n > 0 /\ queued[s] \in Nat /\ executed[s] \in Nat
      /\ upto \in Nat /\ upto <= tail[p] /\ upto <= HostRows /\ tail[p] <= MaxRows
      /\ frontier[p] + n = upto
  <2>1. frontier[p] \in Nat /\ queued[s] \in Nat /\ executed[s] \in Nat /\ tail[p] \in 0 .. MaxRows
    BY DEF TypeOK
  <2>2. frontier[p] < upto /\ upto <= tail[p] /\ upto <= HostRows
    BY DEF DemoteHead
  <2>. QED
    BY <2>1, <2>2, RowPoolAssumption
<1>2. /\ queued' = [queued EXCEPT ![s] = @ + n]
      /\ copying' = copying \cup fresh
      /\ pending' = pending \cup {batch}
      /\ frontier' = [frontier EXCEPT ![p] = upto]
      /\ overtaken' = [overtaken EXCEPT ![p] =
                         @ \cup {i \in frontier[p] .. upto - 1 : Overtakes(p, i, s)}]
      /\ UNCHANGED <<head, tail, demoted, executed, dev, landed, host, version>>
  BY DEF DemoteHead
<1>3. /\ queued'[s] = queued[s] + n
      /\ \A z \in Streams : z # s => queued'[z] = queued[z]
      /\ frontier'[p] = upto
      /\ \A q \in Partitions : q # p => frontier'[q] = frontier[q]
  BY <1>2 DEF TypeOK
<1>4. \A c \in fresh :
        /\ c.p = p /\ c.stream = s /\ c.row \in Nat /\ c.at \in Nat
        /\ frontier[p] <= c.row /\ c.row < upto
        /\ queued[s] < c.at /\ c.at <= queued[s] + n
        /\ c.row - frontier[p] = c.at - queued[s] - 1
        /\ c.behind = version[p][c.row]
        /\ c = [p |-> c.p, row |-> c.row, stream |-> c.stream, at |-> c.at, behind |-> c.behind]
  <2>. SUFFICES ASSUME NEW k \in 1 .. n
                PROVE  /\ new(k).p = p /\ new(k).stream = s
                       /\ new(k).row \in Nat /\ new(k).at \in Nat
                       /\ frontier[p] <= new(k).row /\ new(k).row < upto
                       /\ queued[s] < new(k).at /\ new(k).at <= queued[s] + n
                       /\ new(k).row - frontier[p] = new(k).at - queued[s] - 1
                       /\ new(k).behind = version[p][new(k).row]
    OBVIOUS
  <2>. QED
    BY <1>1
<1>5. /\ batch.p = p /\ batch.upto = upto /\ batch.stream = s /\ batch.at = queued[s] + n
      /\ \A c \in copying :
           /\ c.p \in Partitions /\ c.stream \in Streams /\ c.row \in Nat /\ c.at \in Nat
           /\ c = [p |-> c.p, row |-> c.row, stream |-> c.stream, at |-> c.at, behind |-> c.behind]
      /\ \A b \in pending : b.p \in Partitions /\ b.stream \in Streams /\ b.upto \in Nat /\ b.at \in Nat
  <2>1. copying \subseteq [p : Partitions, row : Rows, stream : Streams, at : Nat, behind : 0 .. MaxVersion]
    BY DEF TypeOK
  <2>2. Rows \subseteq Nat
    BY DEF Rows
  <2>3. pending \subseteq [p : Partitions, upto : Nat, stream : Streams, at : Nat]
    BY DEF TypeOK
  <2>4. \A c \in copying : c = [p |-> c.p, row |-> c.row, stream |-> c.stream, at |-> c.at, behind |-> c.behind]
    BY <2>1
  <2>. QED
    BY <2>1, <2>2, <2>3, <2>4
<1>6. TypeOK'
  <2>1. queued' \in [Streams -> Nat] /\ frontier' \in [Partitions -> 0 .. HostRows]
    BY <1>1, <1>2 DEF TypeOK
  <2>2. fresh \subseteq [p : Partitions, row : Rows, stream : Streams, at : Nat, behind : 0 .. MaxVersion]
    <3>. SUFFICES ASSUME NEW c \in fresh PROVE c.row \in Rows /\ c.behind \in 0 .. MaxVersion
      BY <1>4
    <3>1. c.row \in Rows
      BY <1>1, <1>4, RowPoolAssumption DEF Rows
    <3>. QED
      BY <3>1, <1>4 DEF TypeOK
  <2>3. batch \in [p : Partitions, upto : Nat, stream : Streams, at : Nat]
    BY <1>1
  <2>4. overtaken' \in [Partitions -> SUBSET Rows]
    <3>1. frontier[p] .. upto - 1 \subseteq Rows
      BY <1>1, RowPoolAssumption DEF Rows
    <3>. QED
      BY <3>1, <1>2 DEF TypeOK
  <2>. QED
    BY <1>2, <2>1, <2>2, <2>3, <2>4 DEF TypeOK
<1>14. /\ \A q \in Partitions : overtaken[q] \subseteq overtaken'[q]
       /\ overtaken'[p] = overtaken[p] \cup {i \in frontier[p] .. upto - 1 : Overtakes(p, i, s)}
  BY <1>2 DEF TypeOK
<1>7. CursorsOrdered'
  <2>. SUFFICES ASSUME NEW q \in Partitions
                PROVE  /\ head[q] = demoted[q] /\ head[q] <= frontier'[q]
                       /\ frontier'[q] <= tail[q] /\ tail[q] <= head[q] + DeviceRows
                       /\ frontier'[q] <= HostRows
    BY <1>2 DEF CursorsOrdered
  <2>1. head[q] \in Nat /\ frontier[q] \in Nat /\ tail[q] \in 0 .. MaxRows
    BY DEF TypeOK
  <2>. QED
    BY <2>1, <1>1, <1>3, RowPoolAssumption DEF CursorsOrdered
<1>8. TicketsOrdered'
  <2>1. \A z \in Streams : executed[z] <= queued'[z]
    <3>1. \A z \in Streams : executed[z] \in Nat /\ queued[z] \in Nat
      BY DEF TypeOK
    <3>. QED
      BY <3>1, <1>1, <1>3 DEF TicketsOrdered
  <2>2. \A c \in copying : executed[c.stream] < c.at /\ c.at <= queued'[c.stream]
    <3>. SUFFICES ASSUME NEW c \in copying
                  PROVE  executed[c.stream] < c.at /\ c.at <= queued'[c.stream]
      OBVIOUS
    <3>1. executed[c.stream] < c.at /\ c.at <= queued[c.stream]
      BY DEF TicketsOrdered
    <3>2. queued[c.stream] \in Nat
      BY <1>5 DEF TypeOK
    <3>. QED
      BY <3>1, <3>2, <1>1, <1>3, <1>5
  <2>3. \A c \in fresh : executed[c.stream] < c.at /\ c.at <= queued'[c.stream]
    BY <1>1, <1>3, <1>4 DEF TicketsOrdered
  <2>4. \A c \in copying, d \in fresh : ~(c.stream = d.stream /\ c.at = d.at)
    BY <1>1, <1>4, <1>5 DEF TicketsOrdered
  <2>5. \A c, d \in fresh : c.at = d.at => c = d
    BY <1>1, <1>4
  <2>. QED
    BY <1>2, <2>1, <2>2, <2>3, <2>4, <2>5 DEF TicketsOrdered
<1>9. CopiesBelowFrontier'
  <2>1. \A c \in copying : head[c.p] <= c.row /\ c.row < frontier'[c.p]
    BY <1>1, <1>3, <1>5 DEF CopiesBelowFrontier
  <2>2. \A c \in fresh : head[c.p] <= c.row /\ c.row < frontier'[c.p]
    <3>1. head[p] \in Nat /\ head[p] <= frontier[p]
      BY DEF TypeOK, CursorsOrdered
    <3>. QED
      BY <3>1, <1>1, <1>3, <1>4
  <2>. QED
    BY <1>2, <2>1, <2>2 DEF CopiesBelowFrontier
<1>10. BatchesBelowFrontier'
  <2>1. \A b \in pending : b.upto <= frontier[b.p] /\ b.at <= queued[b.stream]
    BY DEF BatchesBelowFrontier
  <2>2. \A b \in pending : b.upto <= frontier'[b.p] /\ b.at <= queued'[b.stream]
    <3>. SUFFICES ASSUME NEW b \in pending
                  PROVE  b.upto <= frontier'[b.p] /\ b.at <= queued'[b.stream]
      OBVIOUS
    <3>1. frontier[b.p] \in Nat /\ queued[b.stream] \in Nat
      BY <1>5 DEF TypeOK
    <3>. QED
      BY <3>1, <2>1, <1>1, <1>3, <1>5
  <2>3. \A b \in pending : ~(b.p = p /\ b.upto = upto)
    BY <2>1, <1>1, <1>5 DEF DemoteHead
  <2>4. batch.upto <= frontier'[batch.p] /\ batch.at <= queued'[batch.stream]
    BY <1>1, <1>3, <1>5
  <2>. QED
    BY <1>2, <1>5, <2>2, <2>3, <2>4 DEF BatchesBelowFrontier
<1>11. CopiesCovered'
  <2>1. ASSUME NEW c \in copying PROVE \E b \in pending' : Covers(b, c)'
    <3>1. PICK b \in pending : Covers(b, c)
      BY DEF CopiesCovered
    <3>2. ~(batch.p = b.p /\ batch.upto < b.upto)
      BY <1>1, <1>5 DEF BatchesBelowFrontier, DemoteHead
    <3>. QED
      BY <3>1, <3>2, <1>2, <1>5 DEF Covers
  <2>2. ASSUME NEW c \in fresh, NEW b, b = batch PROVE Covers(b, c)'
    <3>1. \A d \in pending : d.p = p => d.upto <= c.row
      BY <1>1, <1>4, <1>5 DEF BatchesBelowFrontier
    <3>. QED
      BY <2>2, <3>1, <1>1, <1>2, <1>4, <1>5 DEF Covers
  <2>3. ASSUME NEW c \in fresh PROVE \E b \in pending' : Covers(b, c)'
    BY <1>2, <2>2
  <2>. QED
    BY <1>2, <2>1, <2>3 DEF CopiesCovered
<1>12. ResidentRowIntact'
  BY <1>2 DEF ResidentRowIntact, Written
<1>15. VersionsWritten'
  BY <1>2 DEF VersionsWritten
<1>16. CopiesReadTheLast'
  <2>1. ASSUME NEW c \in copying, c.row \notin overtaken'[c.p]
        PROVE  IF c.stream \in InOrder THEN c.behind = version[c.p][c.row]
               ELSE landed[c.p][DSlot(c.row)] = Written(c.p, c.row)
    BY <2>1, <1>5, <1>14 DEF CopiesReadTheLast
  <2>2. ASSUME NEW c \in fresh, c.row \notin overtaken'[c.p]
        PROVE  IF c.stream \in InOrder THEN c.behind = version[c.p][c.row]
               ELSE landed[c.p][DSlot(c.row)] = Written(c.p, c.row)
    <3>1. c.row \in frontier[p] .. upto - 1
      BY <1>1, <1>4
    <3>2. ~Overtakes(p, c.row, s)
      BY <2>2, <3>1, <1>4, <1>14
    <3>. QED
      BY <3>2, <1>4 DEF Overtakes
  <2>. QED
    BY <1>2, <2>1, <2>2 DEF CopiesReadTheLast, Written
<1>13. DemotedRowsKept'
  <2>. SUFFICES ASSUME NEW q \in Partitions, NEW i \in (0 .. frontier'[q] - 1) \ overtaken'[q]
                PROVE  \/ \E c \in copying' : c.p = q /\ c.row = i
                       \/ host[q][i] = Written(q, i)
    BY <1>2 DEF DemotedRowsKept, Written
  <2>0. frontier[q] \in Nat
    BY DEF TypeOK
  <2>1. CASE i < frontier[q]
    <3>1. i \in (0 .. frontier[q] - 1) \ overtaken[q]
      BY <2>0, <2>1, <1>14
    <3>. QED
      BY <3>1, <1>2 DEF DemotedRowsKept
  <2>2. CASE i >= frontier[q]
    <3>1. q = p /\ i - frontier[p] + 1 \in 1 .. n
      BY <2>0, <2>2, <1>1, <1>3
    <3>2. new(i - frontier[p] + 1) \in fresh
      BY <3>1
    <3>3. new(i - frontier[p] + 1).p = q /\ new(i - frontier[p] + 1).row = i
      BY <3>1, <1>1
    <3>. QED
      BY <3>2, <3>3, <1>2
  <2>. QED
    BY <2>0, <2>1, <2>2, <1>1, <1>3
<1>. QED
  BY <1>6, <1>7, <1>8, <1>9, <1>10, <1>11, <1>12, <1>13, <1>15, <1>16

\* The batch settled first leaves no copy of its rows outstanding.
LEMMA SettledBatchIsCopied ==
  ASSUME IInv, NEW b \in pending, Settle(b), NEW c \in copying, c.p = b.p
  PROVE  b.upto <= c.row
<1>1. PICK d \in pending : Covers(d, c)
  BY DEF IInv, CopiesCovered
<1>2. /\ c.stream \in Streams /\ c.at \in Nat /\ c.row \in Nat
      /\ d.at \in Nat /\ d.upto \in Nat /\ b.at \in Nat /\ b.upto \in Nat
      /\ executed[c.stream] \in Nat
  <2>1. c.stream \in Streams /\ c.at \in Nat /\ c.row \in Nat
    <3>1. copying \subseteq [p : Partitions, row : Rows, stream : Streams, at : Nat, behind : 0 .. MaxVersion]
      BY DEF IInv, TypeOK
    <3>. QED
      BY <3>1 DEF Rows
  <2>2. d.at \in Nat /\ d.upto \in Nat /\ b.at \in Nat /\ b.upto \in Nat
    BY DEF IInv, TypeOK
  <2>. QED
    BY <2>1, <2>2 DEF IInv, TypeOK
<1>3. executed[c.stream] < c.at
  BY DEF IInv, TicketsOrdered
<1>4. d # b
  BY <1>1, <1>2, <1>3 DEF Covers, Settle, Fired
<1>5. b.upto <= d.upto /\ b.upto # d.upto
  BY <1>1, <1>4 DEF Settle, First, Covers, IInv, BatchesBelowFrontier
<1>. QED
  BY <1>1, <1>2, <1>5 DEF Covers

\* Settling a batch keeps it: its rows are in the host store (row_pool.py, settle).
LEMMA SettleIInv ==
  ASSUME IInv, NEW b \in pending, Settle(b)
  PROVE  IInv'
<1>. USE DEF IInv
<1>1. /\ b.p \in Partitions /\ b.upto \in Nat
      /\ b.upto <= frontier[b.p]
      /\ \A q \in Partitions : head[q] \in Nat /\ frontier[q] \in Nat /\ tail[q] \in Nat
  BY DEF TypeOK, BatchesBelowFrontier
<1>2. /\ pending' = pending \ {b}
      /\ UNCHANGED <<tail, frontier, queued, executed, copying, dev, landed, host, version, overtaken>>
      /\ \A q \in Partitions : q # b.p => head'[q] = head[q] /\ demoted'[q] = demoted[q]
      /\ head'[b.p] = demoted'[b.p]
      /\ head[b.p] <= head'[b.p] /\ head'[b.p] <= frontier[b.p]
      /\ head'[b.p] = b.upto \/ head'[b.p] = head[b.p]
      /\ head' \in [Partitions -> Nat] /\ demoted' \in [Partitions -> Nat]
  <2>1. /\ pending' = pending \ {b}
        /\ UNCHANGED <<tail, frontier, queued, executed, copying, dev, landed, host, version, overtaken>>
    BY DEF Settle, streamVars
  <2>2. head' = [head EXCEPT ![b.p] = IF @ < b.upto THEN b.upto ELSE @]
    BY DEF Settle
  <2>3. demoted' = [demoted EXCEPT ![b.p] = IF @ < b.upto THEN b.upto ELSE @]
    BY DEF Settle
  <2>4. /\ head \in [Partitions -> Nat] /\ demoted \in [Partitions -> Nat]
        /\ \A q \in Partitions : head[q] = demoted[q] /\ head[q] <= frontier[q]
    BY DEF TypeOK, CursorsOrdered
  <2>5. head'[b.p] = demoted'[b.p] /\ head[b.p] <= head'[b.p] /\ head'[b.p] <= frontier[b.p]
        /\ (head'[b.p] = b.upto \/ head'[b.p] = head[b.p])
    BY <2>2, <2>3, <2>4, <1>1
  <2>6. \A q \in Partitions : q # b.p => head'[q] = head[q] /\ demoted'[q] = demoted[q]
    BY <2>2, <2>3, <2>4
  <2>7. head' \in [Partitions -> Nat] /\ demoted' \in [Partitions -> Nat]
    BY <2>2, <2>3, <2>4, <1>1
  <2>. QED
    BY <2>1, <2>5, <2>6, <2>7
<1>3. TypeOK'
  BY <1>2 DEF TypeOK
<1>4. CursorsOrdered'
  BY <1>1, <1>2, RowPoolAssumption DEF CursorsOrdered
<1>5. TicketsOrdered' /\ BatchesBelowFrontier'
  BY <1>2 DEF TicketsOrdered, BatchesBelowFrontier
<1>6. CopiesBelowFrontier'
  <2>. SUFFICES ASSUME NEW c \in copying
                PROVE  head'[c.p] <= c.row /\ c.row < frontier[c.p]
    BY <1>2 DEF CopiesBelowFrontier
  <2>1. c.p \in Partitions /\ head[c.p] <= c.row /\ c.row < frontier[c.p]
    BY DEF CopiesBelowFrontier, TypeOK
  <2>. QED
    BY <2>1, <1>2, SettledBatchIsCopied
<1>7. CopiesCovered'
  <2>. SUFFICES ASSUME NEW c \in copying PROVE \E d \in pending' : Covers(d, c)'
    BY <1>2 DEF CopiesCovered
  <2>1. PICK d \in pending : Covers(d, c)
    BY DEF CopiesCovered
  <2>2. d # b
    <3>. SUFFICES ASSUME d = b PROVE FALSE
      OBVIOUS
    <3>1. b.upto <= c.row
      BY <2>1, SettledBatchIsCopied DEF Covers
    <3>2. c.row \in Nat
      BY DEF TypeOK, Rows
    <3>. QED
      BY <2>1, <3>1, <3>2, <1>1 DEF Covers
  <2>. QED
    BY <2>1, <2>2, <1>2 DEF Covers
<1>8. ResidentRowIntact'
  <2>. SUFFICES ASSUME NEW q \in Partitions, NEW i \in head'[q] .. tail[q] - 1
                PROVE  dev[q][DSlot(i)] = Written(q, i)
    BY <1>2 DEF ResidentRowIntact, Written
  <2>1. head[q] <= head'[q] /\ head[q] \in Nat /\ head'[q] \in Nat /\ tail[q] \in Nat
    BY <1>1, <1>2
  <2>2. i \in head[q] .. tail[q] - 1
    BY <2>1
  <2>. QED
    BY <2>2 DEF ResidentRowIntact
<1>9. DemotedRowsKept' /\ VersionsWritten' /\ CopiesReadTheLast'
  BY <1>2 DEF DemotedRowsKept, VersionsWritten, CopiesReadTheLast, Written
<1>. QED
  BY <1>3, <1>4, <1>5, <1>6, <1>7, <1>8, <1>9

\* A copy that runs keeps it, and puts its row in the host store (row_pool.py, demote_head).
LEMMA ExecuteIInv ==
  ASSUME IInv, NEW c \in copying, Execute(c)
  PROVE  IInv'
<1>. USE DEF IInv
<1>1. /\ c.p \in Partitions /\ c.stream \in Streams /\ c.row \in Nat /\ c.at \in Nat
      /\ c.row \in Rows
      /\ head[c.p] <= c.row /\ c.row < frontier[c.p]
      /\ c.row \in head[c.p] .. tail[c.p] - 1 /\ c.row \in Store
      /\ c.at = executed[c.stream] + 1
  <2>1. c.p \in Partitions /\ c.stream \in Streams /\ c.row \in Rows /\ c.at \in Nat
    BY DEF TypeOK
  <2>2. head[c.p] <= c.row /\ c.row < frontier[c.p]
    BY DEF CopiesBelowFrontier
  <2>3. /\ head[c.p] \in Nat /\ frontier[c.p] \in Nat /\ tail[c.p] \in 0 .. MaxRows
        /\ frontier[c.p] <= tail[c.p] /\ frontier[c.p] <= HostRows
    BY <2>1 DEF TypeOK, CursorsOrdered
  <2>. QED
    BY <2>1, <2>2, <2>3, RowPoolAssumption DEF Execute, Rows, Store
<1>2. /\ executed' = [executed EXCEPT ![c.stream] = @ + 1]
      /\ copying' = copying \ {c}
      /\ host' = [host EXCEPT ![c.p][c.row] = landed[c.p][DSlot(c.row)]]
      /\ UNCHANGED <<head, tail, demoted, frontier, pending, queued, dev, landed, version, overtaken>>
  BY DEF Execute, poolVars
<1>3. ASSUME c.row \notin overtaken[c.p]
      PROVE  landed[c.p][DSlot(c.row)] = Written(c.p, c.row)
  <2>1. CASE c.stream \in InOrder
    <3>. DEFINE held == landed[c.p][DSlot(c.row)]
    <3>1. held \in Contents /\ DSlot(c.row) \in Ring
      BY <1>1, SlotInRing DEF TypeOK
    <3>2. held.row = c.row /\ c.behind <= held.version
      BY <2>1 DEF Execute, WritesLanded
    <3>3. c.behind = version[c.p][c.row]
      BY <1>3, <2>1 DEF CopiesReadTheLast
    <3>4. held.version <= version[c.p][c.row]
      BY <3>1, <3>2, <1>1 DEF VersionsWritten
    <3>5. version[c.p][c.row] \in Nat
      BY <1>1 DEF TypeOK
    <3>6. held.version \in Nat /\ held = [row |-> held.row, version |-> held.version]
      BY <3>1 DEF Contents, Nothing
    <3>7. held.version = version[c.p][c.row]
      BY <3>2, <3>3, <3>4, <3>5, <3>6
    <3>. QED
      BY <3>2, <3>6, <3>7 DEF Written
  <2>2. CASE c.stream \notin InOrder
    BY <1>3, <2>2 DEF CopiesReadTheLast
  <2>. QED
    BY <2>1, <2>2
<1>4. TypeOK'
  <2>1. executed' \in [Streams -> Nat]
    BY <1>1, <1>2 DEF TypeOK
  <2>2. host' \in [Partitions -> [Store -> Contents]]
    <3>1. landed[c.p][DSlot(c.row)] \in Contents
      BY <1>1, SlotInRing DEF TypeOK
    <3>. QED
      BY <3>1, <1>1, <1>2 DEF TypeOK
  <2>. QED
    BY <1>2, <2>1, <2>2 DEF TypeOK
<1>5. CursorsOrdered' /\ BatchesBelowFrontier' /\ CopiesBelowFrontier'
  BY <1>2 DEF CursorsOrdered, BatchesBelowFrontier, CopiesBelowFrontier
<1>6. TicketsOrdered'
  <2>1. \A s \in Streams : executed'[s] = IF s = c.stream THEN executed[s] + 1 ELSE executed[s]
    BY <1>2 DEF TypeOK
  <2>2. \A s \in Streams : executed'[s] <= queued[s]
    BY <2>1, <1>1 DEF TicketsOrdered
  <2>3. \A d \in copying \ {c} : executed'[d.stream] < d.at /\ d.at <= queued[d.stream]
    <3>. SUFFICES ASSUME NEW d \in copying, d # c PROVE executed'[d.stream] < d.at
      BY DEF TicketsOrdered
    <3>1. d.stream \in Streams /\ d.at \in Nat /\ executed[d.stream] \in Nat
      BY DEF TypeOK
    <3>2. executed[d.stream] < d.at /\ ~(d.stream = c.stream /\ d.at = c.at)
      BY DEF TicketsOrdered
    <3>. QED
      BY <3>1, <3>2, <2>1, <1>1
  <2>. QED
    BY <1>2, <2>2, <2>3 DEF TicketsOrdered
<1>7. CopiesCovered'
  BY <1>2 DEF CopiesCovered, Covers
<1>8. ResidentRowIntact'
  BY <1>2 DEF ResidentRowIntact, Written
<1>10. VersionsWritten' /\ CopiesReadTheLast'
  BY <1>2 DEF VersionsWritten, CopiesReadTheLast, Written
<1>9. DemotedRowsKept'
  <2>. SUFFICES ASSUME NEW q \in Partitions, NEW i \in (0 .. frontier[q] - 1) \ overtaken[q]
                PROVE  \/ \E d \in copying \ {c} : d.p = q /\ d.row = i
                       \/ host'[q][i] = Written(q, i)
    BY <1>2 DEF DemotedRowsKept, Written
  <2>1. CASE q = c.p /\ i = c.row
    BY <2>1, <1>1, <1>2, <1>3 DEF TypeOK
  <2>2. CASE ~(q = c.p /\ i = c.row)
    <3>1. host'[q][i] = host[q][i]
      BY <2>2, <1>1, <1>2 DEF TypeOK
    <3>. QED
      BY <2>2, <3>1 DEF DemotedRowsKept
  <2>. QED
    BY <2>1, <2>2
<1>. QED
  BY <1>4, <1>5, <1>6, <1>7, <1>8, <1>9, <1>10

-----------------------------------------------------------------------------
(* Every reachable state of the pool satisfies the inductive invariant:   *)
(* copies lie between head and frontier, each covered by a batch          *)
(* (row_pool.py, append, demote_head and settle).                         *)
THEOREM Invariance == Spec => []IInv
<1>1. IInv /\ [Next]_vars => IInv'
  <2>. SUFFICES ASSUME IInv, [Next]_vars PROVE IInv'
    OBVIOUS
  <2>1. ASSUME NEW p \in Partitions, Append(p) PROVE IInv'
    BY <2>1, AppendIInv
  <2>2. ASSUME NEW p \in Partitions, NEW i \in Rows, Write(p, i) PROVE IInv'
    BY <2>2, WriteIInv
  <2>7. ASSUME NEW p \in Partitions, NEW d \in Ring, Land(p, d) PROVE IInv'
    BY <2>7, LandIInv
  <2>3. ASSUME NEW p \in Partitions, NEW upto \in 1 .. MaxRows, NEW s \in Streams,
               DemoteHead(p, upto, s)
        PROVE  IInv'
    BY <2>3, DemoteHeadIInv
  <2>4. ASSUME NEW b \in pending, Settle(b) PROVE IInv'
    BY <2>4, SettleIInv
  <2>5. ASSUME NEW c \in copying, Execute(c) PROVE IInv'
    BY <2>5, ExecuteIInv
  <2>6. CASE UNCHANGED vars
    BY <2>6
    DEF IInv, TypeOK, CursorsOrdered, TicketsOrdered, CopiesBelowFrontier,
        BatchesBelowFrontier, CopiesCovered, Covers, ResidentRowIntact, VersionsWritten,
        CopiesReadTheLast, DemotedRowsKept, Written, vars, poolVars, streamVars
  <2>. QED
    BY <2>1, <2>2, <2>3, <2>4, <2>5, <2>6, <2>7 DEF Next
<1>. QED
  BY <1>1, InitIInv, PTL DEF Spec

\* Every variable of the pool keeps its type.
THEOREM TypeCorrect == Spec => []TypeOK
<1>1. IInv => TypeOK
  BY DEF IInv
<1>. QED
  BY <1>1, Invariance, PTL

(* Whatever the caller appends, writes, demotes and settles, and however   *)
(* late the streams run, a device-resident row holds its owner's last      *)
(* write for those who read behind it (row_pool.py, append and settle).    *)
THEOREM ResidentRowsIntact == Spec => []ResidentRowIntact
<1>1. IInv => ResidentRowIntact
  BY DEF IInv
<1>. QED
  BY <1>1, Invariance, PTL

(* A row served from the host store holds its owner's last write, unless   *)
(* the owner let its copy overtake a write of it: settle publishes no row  *)
(* before its copy has run, whatever is done to other rows (row_pool.py,   *)
(* demote_head and settle).                                                *)
THEOREM OrderedRowsIntact == Spec => []OrderedRowIntact
<1>1. ASSUME IInv PROVE OrderedRowIntact
  <2>. SUFFICES ASSUME NEW p \in Partitions, NEW i \in (0 .. demoted[p] - 1) \ overtaken[p]
                PROVE  host[p][i] = Written(p, i)
    BY DEF OrderedRowIntact
  <2>1. /\ head[p] \in Nat /\ frontier[p] \in Nat
        /\ head[p] = demoted[p] /\ head[p] <= frontier[p]
    BY <1>1 DEF IInv, TypeOK, CursorsOrdered
  <2>2. ~ \E c \in copying : c.p = p /\ c.row = i
    BY <1>1, <2>1 DEF IInv, CopiesBelowFrontier
  <2>3. i \in (0 .. frontier[p] - 1) \ overtaken[p]
    BY <2>1
  <2>. QED
    BY <1>1, <2>2, <2>3 DEF IInv, DemotedRowsKept
<1>. QED
  BY <1>1, Invariance, PTL

(* The row an outstanding copy will read is still device-resident: settle  *)
(* moves the head only past rows whose copies have run (row_pool.py,       *)
(* settle).                                                                *)
THEOREM CopiesReadResidentRows == Spec => []CopyReadsResidentRow
<1>1. ASSUME IInv PROVE CopyReadsResidentRow
  <2>. SUFFICES ASSUME NEW c \in copying PROVE head[c.p] <= c.row /\ c.row < tail[c.p]
    BY DEF CopyReadsResidentRow
  <2>1. /\ c.p \in Partitions /\ c.row \in Nat
        /\ frontier[c.p] \in Nat /\ tail[c.p] \in 0 .. MaxRows /\ frontier[c.p] <= tail[c.p]
    BY <1>1 DEF IInv, TypeOK, CursorsOrdered, Rows
  <2>. QED
    BY <1>1, <2>1, RowPoolAssumption DEF IInv, CopiesBelowFrontier
<1>. QED
  BY <1>1, Invariance, PTL

(* What run_view hands out is the resident rows asked for, in order,        *)
(* whether or not the run wraps round the ring (row_pool.py, run_view).     *)
THEOREM RunViewsAreRuns == Spec => []RunViewIsTheRun
<1>1. ASSUME IInv PROVE RunViewIsTheRun
  <2>. SUFFICES ASSUME NEW p \in Partitions,
                       NEW lo \in head[p] .. tail[p], NEW hi \in lo .. tail[p]
                PROVE  RunView(p, lo, hi) = [k \in 1 .. hi - lo |-> Written(p, lo + k - 1)]
    BY DEF RunViewIsTheRun
  <2>. DEFINE a == DSlot(lo)
              at(k) == IF a + (hi - lo) <= DeviceRows \/ k <= DeviceRows - a
                       THEN dev[p][a + k - 1]
                       ELSE dev[p][k - (DeviceRows - a) - 1]
  <2>1. /\ head[p] \in Nat /\ tail[p] \in Nat /\ tail[p] <= head[p] + DeviceRows
        /\ DeviceRows \in Nat /\ DeviceRows > 0
    BY <1>1, RowPoolAssumption DEF IInv, TypeOK, CursorsOrdered
  <2>2. lo \in Nat /\ hi \in Nat /\ a \in 0 .. DeviceRows - 1
    BY <2>1, SlotInRing DEF Ring
  <2>3. ASSUME NEW k \in 1 .. hi - lo PROVE at(k) = Written(p, lo + k - 1)
    <3>1. /\ k - 1 \in Nat /\ k - 1 < DeviceRows
          /\ lo + (k - 1) \in head[p] .. tail[p] - 1
      BY <2>1, <2>2
    <3>2. dev[p][DSlot(lo + (k - 1))] = Written(p, lo + (k - 1))
      BY <1>1, <3>1 DEF IInv, ResidentRowIntact
    <3>3. DSlot(lo + (k - 1)) = IF a + (k - 1) < DeviceRows THEN a + (k - 1)
                                                            ELSE a + (k - 1) - DeviceRows
      BY <3>1, <2>2, SlotAfter
    <3>4. lo + (k - 1) = lo + k - 1
      BY <2>2
    <3>5. at(k) = dev[p][DSlot(lo + (k - 1))]
      <4>1. CASE a + (k - 1) < DeviceRows
        <5>1. DSlot(lo + (k - 1)) = a + k - 1 /\ k <= DeviceRows - a
          BY <4>1, <3>3, <2>1, <2>2
        <5>. QED
          BY <5>1
      <4>2. CASE a + (k - 1) >= DeviceRows
        <5>1. /\ DSlot(lo + (k - 1)) = k - (DeviceRows - a) - 1
              /\ ~(k <= DeviceRows - a) /\ ~(a + (hi - lo) <= DeviceRows)
          BY <4>2, <3>3, <2>1, <2>2
        <5>. QED
          BY <5>1
      <4>. QED
        BY <4>1, <4>2, <2>1, <2>2
    <3>. QED
      BY <3>2, <3>4, <3>5
  <2>. QED
    BY <2>3 DEF RunView
<1>. QED
  BY <1>1, Invariance, PTL
=============================================================================
