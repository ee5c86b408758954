------------------------------- MODULE RowPool -------------------------------
(***************************************************************************)
(* The writable row tier of src/kernel/row_pool.py.  A partition appends   *)
(* rows at its tail, in a ring of DeviceRows device rows, and demotes rows *)
(* from its head: the copies to the host store are queued on a side stream *)
(* of the caller's choice and one event is recorded behind them; settle    *)
(* moves the head once the event has fired.  One thread appends, demotes   *)
(* and settles; the streams run behind its back, each in its own order.    *)
(*                                                                         *)
(* A row's content is the row and the version its owner wrote.  The pool   *)
(* hands out views and sees no writes: they are queued on the stream of    *)
(* their owner and land later, and row_view hands out every row that is    *)
(* device-resident, demoted already or not.  Whether the copies run behind *)
(* the writes is up to the caller, who chooses the stream: the owner's own *)
(* one, or one made to wait for it, or neither.                            *)
(***************************************************************************)
EXTENDS Integers, FiniteSets

CONSTANTS Partitions,
          Streams,      \* streams the caller may demote on
          InOrder,      \* those that run behind the writes queued before
          LateWrites,   \* whether the owner writes rows it has demoted
          DeviceRows,   \* device_rows, the ring of a partition
          HostRows,     \* host_rows of a partition
          MaxRows,      \* bound on the rows a partition appends
          MaxVersion    \* bound on the times a row is written again

ASSUME RowPoolAssumption ==
  /\ DeviceRows \in Nat \ {0}
  /\ HostRows \in Nat \ {0}
  /\ MaxRows \in Nat
  /\ MaxVersion \in Nat
  /\ LateWrites \in BOOLEAN

VARIABLES
  head,       \* first row still device-resident
  tail,       \* next row to append
  demoted,    \* rows below it live in the host store
  frontier,   \* rows below it have their copy queued
  pending,    \* demotion batches whose event has not been seen to fire
  queued,     \* copies ever queued on a stream
  executed,   \* copies the stream has executed
  copying,    \* the copies between the two
  dev,        \* what was last written to each device row
  landed,     \* what each device row holds: not yet, maybe, that write
  host,       \* what each host row holds
  version,    \* the version of each row its owner wrote last
  overtaken   \* history: rows a write of which may land after their copy

poolVars   == <<head, tail, demoted, frontier, pending>>
streamVars == <<queued, executed, copying>>
vars == <<poolVars, streamVars, dev, landed, host, version, overtaken>>

Rows == 0 .. MaxRows - 1
Ring == 0 .. DeviceRows - 1
Store == 0 .. HostRows - 1
Nothing == [row |-> -1, version |-> 0]
Contents == [row : Rows, version : 0 .. MaxVersion] \cup {Nothing}

Written(p, i) == [row |-> i, version |-> version[p][i]]

DSlot(i) == i % DeviceRows

Init ==
  /\ head     = [p \in Partitions |-> 0]
  /\ tail     = [p \in Partitions |-> 0]
  /\ demoted  = [p \in Partitions |-> 0]
  /\ frontier = [p \in Partitions |-> 0]
  /\ pending  = {}
  /\ queued   = [s \in Streams |-> 0]
  /\ executed = [s \in Streams |-> 0]
  /\ copying  = {}
  /\ dev      = [p \in Partitions |-> [d \in Ring |-> Nothing]]
  /\ landed   = [p \in Partitions |-> [d \in Ring |-> Nothing]]
  /\ host     = [p \in Partitions |-> [i \in Store |-> Nothing]]
  /\ version  = [p \in Partitions |-> [i \in Rows |-> 0]]
  /\ overtaken = [p \in Partitions |-> {}]

-----------------------------------------------------------------------------
\* Mutant: the ring is taken to have room when it is full.
AppendOverfull(p) ==
  /\ tail[p] - head[p] <= DeviceRows
  /\ tail[p] < MaxRows
  /\ tail' = [tail EXCEPT ![p] = @ + 1]
  /\ dev' = [dev EXCEPT ![p][DSlot(tail[p])] = Written(p, tail[p])]
  /\ UNCHANGED <<head, demoted, frontier, pending, streamVars, landed, host, version, overtaken>>

\* The row is claimed and its owner writes it through the view it gets.
Append(p) ==
  /\ tail[p] - head[p] < DeviceRows
  /\ tail[p] < MaxRows
  /\ tail' = [tail EXCEPT ![p] = @ + 1]
  /\ dev' = [dev EXCEPT ![p][DSlot(tail[p])] = Written(p, tail[p])]
  /\ UNCHANGED <<head, demoted, frontier, pending, streamVars, landed, host, version, overtaken>>

\* The owner writes a row again, in place, through the view of row_view.
Write(p, i) ==
  /\ i \in head[p] .. tail[p] - 1
  /\ i < frontier[p] => LateWrites
  /\ version[p][i] < MaxVersion
  /\ version' = [version EXCEPT ![p][i] = @ + 1]
  /\ dev' = [dev EXCEPT ![p][DSlot(i)] = [row |-> i, version |-> version[p][i] + 1]]
  /\ overtaken' = [overtaken EXCEPT ![p] = IF i < frontier[p] THEN @ \cup {i} ELSE @]
  /\ UNCHANGED <<poolVars, streamVars, landed, host>>

\* The owner's stream has executed what was queued for a device row.
Land(p, d) ==
  /\ landed[p][d] # dev[p][d]
  /\ landed' = [landed EXCEPT ![p][d] = dev[p][d]]
  /\ UNCHANGED <<poolVars, streamVars, dev, host, version, overtaken>>

\* The row has a write that a copy queued now, on this stream, may overtake.
Overtakes(p, i, s) == s \notin InOrder /\ landed[p][DSlot(i)] # Written(p, i)

\* Mutant: the size of the host store is not asked.
DemotePastStore(p, upto, s) ==
  /\ frontier[p] < upto
  /\ upto <= tail[p]
  /\ LET n == upto - frontier[p]
     IN /\ queued' = [queued EXCEPT ![s] = @ + n]
        /\ copying' = copying \cup
             {[p |-> p, row |-> frontier[p] + k - 1, stream |-> s, at |-> queued[s] + k,
               behind |-> version[p][frontier[p] + k - 1]] : k \in 1 .. n}
        /\ pending' = pending \cup
             {[p |-> p, upto |-> upto, stream |-> s, at |-> queued[s] + n]}
  /\ frontier' = [frontier EXCEPT ![p] = upto]
  /\ overtaken' = [overtaken EXCEPT ![p] = @ \cup {i \in frontier[p] .. upto - 1 : Overtakes(p, i, s)}]
  /\ UNCHANGED <<head, tail, demoted, executed, dev, landed, host, version>>

\* From the enqueued frontier, so that no row is ever copied twice.
DemoteHead(p, upto, s) ==
  /\ frontier[p] < upto
  /\ upto <= tail[p]
  /\ upto <= HostRows
  /\ LET n == upto - frontier[p]
     IN /\ queued' = [queued EXCEPT ![s] = @ + n]
        /\ copying' = copying \cup
             {[p |-> p, row |-> frontier[p] + k - 1, stream |-> s, at |-> queued[s] + k,
               behind |-> version[p][frontier[p] + k - 1]] : k \in 1 .. n}
        /\ pending' = pending \cup
             {[p |-> p, upto |-> upto, stream |-> s, at |-> queued[s] + n]}
  /\ frontier' = [frontier EXCEPT ![p] = upto]
  /\ overtaken' = [overtaken EXCEPT ![p] = @ \cup {i \in frontier[p] .. upto - 1 : Overtakes(p, i, s)}]
  /\ UNCHANGED <<head, tail, demoted, executed, dev, landed, host, version>>

\* Mutant: the event is not asked.
FiredUnasked(b) == TRUE

\* Mutant: the event is behind one copy more than the batch has.
FiredLate(b) == b.at < executed[b.stream]

\* An event fires when its stream has executed all that was queued before it.
Fired(b) == b.at <= executed[b.stream]

\* Mutant: a batch settles though an earlier one has not.
FirstOrNot(b) == TRUE

\* The partition's batches are visited in the order they were queued.
First(b) == \A c \in pending : c.p = b.p => b.upto <= c.upto

\* One turn of settle's loop: a batch no earlier batch of its partition blocks.
Settle(b) ==
  /\ First(b)
  /\ Fired(b)
  /\ pending' = pending \ {b}
  /\ demoted' = [demoted EXCEPT ![b.p] = IF @ < b.upto THEN b.upto ELSE @]
  /\ head'    = [head EXCEPT ![b.p] = IF @ < b.upto THEN b.upto ELSE @]
  /\ UNCHANGED <<tail, frontier, streamVars, dev, landed, host, version, overtaken>>

\* The writes that were queued before the copy have landed.
WritesLanded(c) ==
  LET held == landed[c.p][DSlot(c.row)]
  IN held.row = c.row /\ c.behind <= held.version

\* A stream executes its oldest copy.
Execute(c) ==
  /\ c.at = executed[c.stream] + 1
  /\ c.stream \in InOrder => WritesLanded(c)
  /\ executed' = [executed EXCEPT ![c.stream] = @ + 1]
  /\ copying' = copying \ {c}
  /\ host' = [host EXCEPT ![c.p][c.row] = landed[c.p][DSlot(c.row)]]
  /\ UNCHANGED <<poolVars, queued, dev, landed, version, overtaken>>

Next ==
  \/ \E p \in Partitions :
       \/ Append(p)
       \/ \E i \in Rows : Write(p, i)
       \/ \E d \in Ring : Land(p, d)
       \/ \E upto \in 1 .. MaxRows, s \in Streams : DemoteHead(p, upto, s)
  \/ \E b \in pending : Settle(b)
  \/ \E c \in copying : Execute(c)

Spec == Init /\ [][Next]_vars

\* The owner keeps calling settle; the streams keep running.
FairSpec ==
  /\ Spec
  /\ WF_vars(\E b \in pending : Settle(b))
  /\ WF_vars(\E p \in Partitions, d \in Ring : Land(p, d))
  /\ \A s \in Streams : WF_vars(\E c \in copying : c.stream = s /\ Execute(c))

-----------------------------------------------------------------------------
\* Mutant: a run that wraps is read from the start of the ring.
RunViewStraight(p, lo, hi) ==
  [k \in 1 .. hi - lo |->
     IF DSlot(lo) + (hi - lo) <= DeviceRows THEN dev[p][DSlot(lo) + k - 1] ELSE dev[p][k - 1]]

(* What run_view returns, row by row: one run of the ring, or two when the *)
(* run wraps.                                                              *)
RunView(p, lo, hi) ==
  LET a == DSlot(lo)
      b == a + (hi - lo)
  IN [k \in 1 .. hi - lo |->
        IF b <= DeviceRows \/ k <= DeviceRows - a
        THEN dev[p][a + k - 1]
        ELSE dev[p][k - (DeviceRows - a) - 1]]

\* Every variable has its type.
TypeOK ==
  /\ head \in [Partitions -> Nat]
  /\ tail \in [Partitions -> 0 .. MaxRows]
  /\ demoted \in [Partitions -> Nat]
  /\ frontier \in [Partitions -> 0 .. HostRows]
  /\ pending \subseteq [p : Partitions, upto : Nat, stream : Streams, at : Nat]
  /\ queued \in [Streams -> Nat]
  /\ executed \in [Streams -> Nat]
  /\ copying \subseteq [p : Partitions, row : Rows, stream : Streams, at : Nat, behind : 0 .. MaxVersion]
  /\ dev \in [Partitions -> [Ring -> Contents]]
  /\ landed \in [Partitions -> [Ring -> Contents]]
  /\ host \in [Partitions -> [Store -> Contents]]
  /\ version \in [Partitions -> [Rows -> 0 .. MaxVersion]]
  /\ overtaken \in [Partitions -> SUBSET Rows]

(* A device-resident row still holds, for whoever reads it behind its      *)
(* owner's writes, what the owner wrote last: no append reuses a ring slot *)
(* whose row has not been settled to the host.                             *)
ResidentRowIntact ==
  \A p \in Partitions : \A i \in head[p] .. tail[p] - 1 :
    dev[p][DSlot(i)] = Written(p, i)

(* A row the pool serves from the host is the row its owner wrote last, if *)
(* its copy was queued behind all its writes: whatever happens to other    *)
(* rows, no stale, missing or overwritten row is published (settle).       *)
OrderedRowIntact ==
  \A p \in Partitions : \A i \in (0 .. demoted[p] - 1) \ overtaken[p] :
    host[p][i] = Written(p, i)

(* The same of every row, as test_row_pool.py has it: "host copy must be   *)
(* byte-identical to what was written".                                    *)
SettledRowIntact ==
  \A p \in Partitions : \A i \in 0 .. demoted[p] - 1 :
    host[p][i] = Written(p, i)

(* A row an unfinished copy will read is still device-resident: ownership  *)
(* never flips, and a slot is never reused, ahead of the DMA.              *)
CopyReadsResidentRow ==
  \A c \in copying : head[c.p] <= c.row /\ c.row < tail[c.p]

(* run_view is the resident run in order, whether or not it wraps.         *)
RunViewIsTheRun ==
  \A p \in Partitions : \A lo \in head[p] .. tail[p] : \A hi \in lo .. tail[p] :
    RunView(p, lo, hi) = [k \in 1 .. hi - lo |-> Written(p, lo + k - 1)]

(* Every demotion ends: its rows are served from the host in the end.      *)
DemotionsSettle ==
  \A p \in Partitions : \A n \in 1 .. MaxRows :
    frontier[p] >= n ~> demoted[p] >= n
=============================================================================
