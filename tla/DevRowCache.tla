----------------------------- MODULE DevRowCache -----------------------------
(***************************************************************************)
(* The device row cache of src/kernel/dev_row_cache.py, shared by the      *)
(* layers' engines, with the engine's use of it (mxfp4_residency.py:       *)
(* resolve, fill the missing rows, issue the gather, record the tag) and   *)
(* the GPU stream that executes the gathers behind the host's back.        *)
(*                                                                         *)
(* The host runs one step of one layer at a time; a step is the tag of its *)
(* request.  The stream completes the gathers in the order of their issue. *)
(* A tag recorded when n gathers had been issued is done once the stream   *)
(* has completed n.  A fill writes its row at once: the cache's promise    *)
(* does not lean on the fill being queued behind the readers.              *)
(***************************************************************************)
EXTENDS VramSlots, StepCensus

CONSTANT LayerOf(_)   \* the layer of a key

ASSUME DevRowCacheAssumption ==
  /\ Tags = 1 .. MaxClock
  /\ NoTag = 0
  /\ NSlots >= 2
  /\ Protected < NSlots
  /\ \A e \in Experts : LayerOf(e) \in Layers
  /\ \A q \in Requests : \A i, j \in DOMAIN q : LayerOf(q[i]) = LayerOf(q[j])

\* What the engine's attach check demands of the cache's sizes.
ASSUME AttachAssumption ==
  \A q \in Requests :
    /\ 2 * Cardinality(DOMAIN q) <= NSlots
    /\ Protected + Cardinality(DOMAIN q) <= NSlots

VARIABLES
  census,      \* _cur, _last_layer, _per_step, _per_step_max, _max_want
  pc,          \* where the host is
  step,        \* requests made so far: the tag of the one being served
  last,        \* _last
  req,         \* the request being served
  need,        \* the positions of its rows that have to be filled
  todo,        \* those of them not filled yet
  recorded,    \* StepTag.recorded and its event: gathers issued by then, or -1
  issued,      \* gathers issued to the stream
  completed,   \* gathers the stream has executed
  reads,       \* rows the issued and not yet executed gathers will read
  bytes        \* the expert whose bytes a row holds; NoExpert: none or partial

hostVars   == <<census, pc, step, last, req, need, todo>>
streamVars == <<issued, completed, reads>>
vars == <<arena, hostVars, recorded, streamVars, bytes>>

\* Mutant: the tag is taken for done one gather early.
DoneEarly(rec) == {t \in Tags : rec[t] \in 0 .. completed + 1}

\* The tags whose event is recorded and has fired.
Done(rec) == {t \in Tags : rec[t] \in 0 .. completed}

\* StepTag.record is idempotent.
Record(rec, t) == [rec EXCEPT ![t] = IF @ = -1 THEN issued ELSE @]

\* Mutant: a step that never recorded its tag is left alone.
PreviousAsItIs == recorded

\* A previous step that never recorded its tag is recorded now.
PreviousRecorded == IF last # NoTag THEN Record(recorded, last) ELSE recorded

\* The step is over: its locals are gone.
Leave == /\ pc' = "idle"
         /\ req' = <<>>
         /\ need' = {}
         /\ todo' = {}

PendingTags == {arena.pending[s] : s \in Slots} \ {NoTag}

Row(i) == SlotOf(arena, req[i])

-----------------------------------------------------------------------------
Init ==
  /\ arena = EmptyArena
  /\ census = NewCensus
  /\ pc = "idle"
  /\ step = 0
  /\ last = NoTag
  /\ req = <<>>
  /\ need = {}
  /\ todo = {}
  /\ recorded = [t \in Tags |-> -1]
  /\ issued = 0
  /\ completed = 0
  /\ reads = {}
  /\ bytes = [s \in Slots |-> NoExpert]

(* want, before the resolve: the previous step's tag is recorded if it was *)
(* not, the tags that fired are settled, the demand counted.               *)
BeginWant(q) ==
  /\ pc = "idle"
  /\ step < MaxClock
  /\ step' = step + 1
  /\ req' = q
  /\ recorded' = PreviousRecorded
  /\ arena' = IF last # NoTag THEN Settled(arena, Done(PreviousRecorded)) ELSE arena
  /\ census' = Counted(census, LayerOf(q[1]), Cardinality(DOMAIN q))
  /\ pc' = "want"
  /\ UNCHANGED <<last, need, todo, streamVars, bytes>>

\* The resolve succeeds: the step's tag becomes the cache's last one.
Resolve ==
  /\ pc \in {"want", "retry"}
  /\ Want(req, step)
  /\ last' = step
  /\ need' = Misses(arena, req)
  /\ todo' = Misses(arena, req)
  /\ pc' = "fill"
  /\ UNCHANGED <<census, step, req, recorded, streamVars, bytes>>

(* No slot, and a previous step to wait for.  (Without one, or with no slot *)
(* after the wait, want would raise; StallFreesEnough says that it does not.) *)
NoSlot ==
  /\ pc = "want"
  /\ Claims(arena, req, step) = {}
  /\ last # NoTag
  /\ pc' = "stall"
  /\ UNCHANGED <<arena, census, step, last, req, need, todo, recorded, streamVars, bytes>>

\* The stall: every pending tag and the last one are waited for, and settled.
Stall ==
  /\ pc = "stall"
  /\ \A t \in PendingTags \cup {last} : recorded[t] <= completed
  /\ arena' = Settled(arena, Done(recorded))
  /\ pc' = "retry"
  /\ UNCHANGED <<census, step, last, req, need, todo, recorded, streamVars, bytes>>

-----------------------------------------------------------------------------
(* The engine's half of the step.                                          *)

Fill ==
  /\ pc = "fill"
  /\ todo # {}
  /\ LET i == Lowest(todo)
     IN /\ bytes' = [bytes EXCEPT ![Row(i)] = req[i]]
        /\ todo' = todo \ {i}
  /\ UNCHANGED <<arena, census, pc, step, last, req, need, recorded, streamVars>>

\* Mutant: only the row whose fill raised is unpublished.
ForgetOne == Discarded(arena, {req[Lowest(todo)]})

\* Mutant: the rows are emptied behind the cache's back.
ForgetInPlace ==
  [arena EXCEPT !.state = [s \in Slots |-> IF \E i \in need : Row(i) = s THEN "absent" ELSE @[s]]]

Forget == Discarded(arena, {req[i] : i \in need})

\* The tier or a copy raises: unpublish every row of the batch, record the tag.
FillRaises ==
  /\ pc = "fill"
  /\ todo # {}
  /\ \E partial \in {TRUE, FALSE} :
       bytes' = IF partial THEN [bytes EXCEPT ![Row(Lowest(todo))] = NoExpert]
                           ELSE bytes
  /\ arena' = Forget
  /\ recorded' = Record(recorded, step)
  /\ Leave
  /\ UNCHANGED <<census, step, last, streamVars>>

Gather ==
  /\ pc = "fill"
  /\ todo = {}
  /\ issued' = issued + 1
  /\ reads' = reads \cup {[at |-> issued + 1, slot |-> Row(i), key |-> req[i]] :
                            i \in DOMAIN req}
  /\ pc' = "commit"
  /\ UNCHANGED <<arena, census, step, last, req, need, todo, recorded, completed, bytes>>

Commit ==
  /\ pc = "commit"
  /\ recorded' = Record(recorded, step)
  /\ Leave
  /\ UNCHANGED <<arena, census, step, last, streamVars, bytes>>

\* An exception on either side of the gather: the tag is never recorded here.
Abandon ==
  /\ pc = "commit" \/ (pc = "fill" /\ todo = {})
  /\ Leave
  /\ UNCHANGED <<arena, census, step, last, recorded, streamVars, bytes>>

\* The stream executes the oldest gather.
Execute ==
  /\ completed < issued
  /\ completed' = completed + 1
  /\ reads' = {r \in reads : r.at > completed + 1}
  /\ UNCHANGED <<arena, hostVars, recorded, issued, bytes>>

HostStep == Resolve \/ NoSlot \/ Stall \/ Fill \/ Gather \/ Commit

Next ==
  \/ \E q \in Requests : BeginWant(q)
  \/ HostStep
  \/ FillRaises
  \/ Abandon
  \/ Execute

Spec == Init /\ [][Next]_vars

\* A host thread that waits goes on when it can, and the GPU executes what
\* it was given.  Nothing more is asked of the host.
FairSpec ==
  /\ Spec
  /\ WF_vars(Stall \/ (pc = "retry" /\ Resolve))
  /\ WF_vars(Execute)

-----------------------------------------------------------------------------
(* A gather reads the bytes of the expert it was issued for, until the     *)
(* stream has executed it: no row is overwritten under an in-flight reader *)
(* and no hit serves a row that a failed or unfinished fill left behind.   *)
GatherReadsItsExpert == \A r \in reads : bytes[r.slot] = r.key

(* A published row holds its expert's bytes, except the rows the running   *)
(* step has still to fill.                                                 *)
PublishedRowIsFilled ==
  \A s \in Slots :
    arena.state[s] # "absent" =>
      \/ bytes[s] = arena.holds[s]
      \/ (pc = "fill" /\ \E i \in todo : req[i] = arena.holds[s])

(* With the sizes the engine's attach check admits, a request never fails: *)
(* what the stall waits for is always enough to place it.                  *)
StallFreesEnough ==
  pc = "retry" \/ (pc = "want" /\ last = NoTag) => Claims(arena, req, step) # {}

(* The engines write off nothing but rows they had just claimed, so every  *)
(* logical eviction the cache reports is resolved or still waiting.        *)
EvictionsAllAccounted ==
  arena.owed = Cardinality(InState(arena, "retiring") \cup InState(arena, "reclaimable"))

(* A request that has to wait for the GPU is served.                       *)
StallEnds == pc = "stall" ~> pc = "fill"

(* Whatever the cache does to its arena is an operation of the allocator:  *)
(* it implements ArenaSpec.                                                *)
ImplementsArena == ArenaInit /\ [][arena' # arena => ArenaNext]_arena
=============================================================================
