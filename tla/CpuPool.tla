------------------------------- MODULE CpuPool -------------------------------
(***************************************************************************)
(* The worker pool of src/gnf4_native/cpu_kernels.c: one job at a time,    *)
(* run by the first act workers; the others must stay out of it.  A worker *)
(* learns of a job from one atomic load of the generation word, which      *)
(* holds a counter and act.  The engaged workers take chunks of items from *)
(* a shared cursor until it has passed the end, and the caller waits until *)
(* as many workers as it engaged have reported.  Idle workers spin, then   *)
(* sleep on the word (futex).                                              *)
(*                                                                         *)
(* Every step is one atomic access of the code, or several that no other   *)
(* thread can tell apart.  ran, finished and published are histories: how  *)
(* often each item of the job was executed, who has reported, how many     *)
(* words were published.  The spin budget is left open: a worker may sleep *)
(* whenever it finds nothing new.                                          *)
(***************************************************************************)
EXTENDS Integers, FiniteSets

CONSTANTS N,           \* POOL_MAX: the most workers a pool can have
          Modulus,     \* values of the generation word's counter (2^24)
          Grabs,       \* chunks per engaged worker (8)
          MaxItems,    \* bound on the items of a job
          Totals,      \* the sizes of jobs
          MaxJobs      \* bound on the words published in the life of a pool

ASSUME CpuPoolAssumption ==
  /\ N \in Nat \ {0}
  /\ Modulus \in Nat /\ Modulus > 1
  /\ Grabs \in Nat \ {0}
  /\ MaxItems \in Nat
  /\ Totals \subseteq 0 .. MaxItems
  /\ MaxJobs \in Nat

Workers == 0 .. N - 1
Items == 0 .. MaxItems - 1
Words == (0 .. Modulus - 1) \X (0 .. N)

VARIABLES
  caller,      \* where the thread that starts, runs and stops the pool is
  n,           \* P.n
  gen,         \* P.gen: <<counter, act>>
  stop,        \* P.stop
  total,       \* P.total
  next,        \* P.next
  done,        \* P.done
  want,        \* pool_run's want
  pc,          \* where each worker is
  seen,        \* its local seen
  g,           \* its local g
  chunk,       \* its local chunk
  lo,          \* its local lo
  ran, finished, published

callerVars == <<caller, n, want>>
jobVars    == <<stop, total>>
localVars  == <<seen, g, chunk, lo>>
history    == <<ran, finished, published>>
vars == <<caller, n, gen, stop, total, next, done, want, pc, seen, g, chunk, lo,
          ran, finished, published>>

Init ==
  /\ caller = "off"
  /\ n = 0
  /\ gen = <<0, 0>>
  /\ stop = FALSE
  /\ total = 0
  /\ next = 0
  /\ done = 0
  /\ want = 0
  /\ pc = [w \in Workers |-> "none"]
  /\ seen = [w \in Workers |-> <<0, 0>>]
  /\ g = [w \in Workers |-> <<0, 0>>]
  /\ chunk = [w \in Workers |-> 1]
  /\ lo = [w \in Workers |-> 0]
  /\ ran = [i \in Items |-> 0]
  /\ finished = {}
  /\ published = 0

-----------------------------------------------------------------------------
(* The workers.                                                            *)

Load(w) ==
  /\ pc[w] = "top"
  /\ g' = [g EXCEPT ![w] = gen]
  /\ pc' = [pc EXCEPT ![w] = "check"]
  /\ UNCHANGED <<callerVars, jobVars, gen, next, done, seen, chunk, lo, history>>

\* Mutant: the comparison lets in one worker too many.
EngagedToo(w, word) == w <= word[2]

Engaged(w, word) == w < word[2]

\* Mutant: a small job has chunks of no items.
ChunkUnfloored(t, act) == t \div (act * Grabs)

ChunkOf(t, act) == IF t \div (act * Grabs) < 1 THEN 1 ELSE t \div (act * Grabs)

(* What a worker does with the word it has loaded: leave if the pool stops, *)
(* idle if it knows it, adopt it and, if engaged, go to work.              *)
Exit(w) ==
  /\ pc[w] = "check"
  /\ stop
  /\ pc' = [pc EXCEPT ![w] = "gone"]
  /\ UNCHANGED <<callerVars, jobVars, gen, next, done, localVars, history>>

Idle(w) ==
  /\ pc[w] = "check"
  /\ ~stop
  /\ g[w] = seen[w]
  /\ pc' = [pc EXCEPT ![w] = "spin"]
  /\ UNCHANGED <<callerVars, jobVars, gen, next, done, localVars, history>>

Adopt(w) ==
  /\ pc[w] = "check"
  /\ ~stop
  /\ g[w] # seen[w]
  /\ seen' = [seen EXCEPT ![w] = g[w]]
  /\ IF Engaged(w, g[w])
       THEN /\ chunk' = [chunk EXCEPT ![w] = ChunkOf(total, g[w][2])]
            /\ pc' = [pc EXCEPT ![w] = "grab"]
       ELSE /\ pc' = [pc EXCEPT ![w] = "top"]
            /\ UNCHANGED chunk
  /\ UNCHANGED <<callerVars, jobVars, gen, next, done, g, lo, history>>

\* One turn of the idle loop.  Its budget spent, the worker goes to sleep.
Spin(w) ==
  /\ pc[w] = "spin"
  /\ g' = [g EXCEPT ![w] = gen]
  /\ pc' = [pc EXCEPT ![w] = IF gen # seen[w] \/ stop THEN "check" ELSE "wait"]
  /\ UNCHANGED <<callerVars, jobVars, gen, next, done, seen, chunk, lo, history>>

\* FUTEX_WAIT: the kernel compares the word and puts the thread to sleep.
FutexWait(w) ==
  /\ pc[w] = "wait"
  /\ pc' = [pc EXCEPT ![w] = IF gen = seen[w] THEN "asleep" ELSE "spin"]
  /\ UNCHANGED <<callerVars, jobVars, gen, next, done, localVars, history>>

\* FUTEX_WAIT may return for no reason (a signal); the idle loop allows for it.
SpuriousWake(w) ==
  /\ pc[w] = "asleep"
  /\ pc' = [pc EXCEPT ![w] = "spin"]
  /\ UNCHANGED <<callerVars, jobVars, gen, next, done, localVars, history>>

\* Mutant: the cursor is not advanced past the whole chunk.
NextInside(w) == IF chunk[w] > 1 THEN next + chunk[w] - 1 ELSE next + 1

NextAfter(w) == next + chunk[w]

Grab(w) ==
  /\ pc[w] = "grab"
  /\ lo' = [lo EXCEPT ![w] = next]
  /\ next' = NextAfter(w)
  /\ pc' = [pc EXCEPT ![w] = IF next >= total THEN "report" ELSE "run"]
  /\ UNCHANGED <<callerVars, jobVars, gen, done, seen, g, chunk, history>>

ChunkItems(w) == {i \in Items : lo[w] <= i /\ i < lo[w] + chunk[w] /\ i < total}

RunChunk(w) ==
  /\ pc[w] = "run"
  /\ ran' = [i \in Items |-> IF i \in ChunkItems(w) THEN ran[i] + 1 ELSE ran[i]]
  /\ pc' = [pc EXCEPT ![w] = "grab"]
  /\ UNCHANGED <<callerVars, jobVars, gen, next, done, localVars, finished, published>>

Report(w) ==
  /\ pc[w] = "report"
  /\ done' = done + 1
  /\ finished' = finished \cup {w}
  /\ pc' = [pc EXCEPT ![w] = "top"]
  /\ UNCHANGED <<callerVars, jobVars, gen, next, localVars, ran, published>>

Work(w) ==
  \/ Load(w)
  \/ Exit(w)
  \/ Idle(w)
  \/ Adopt(w)
  \/ Spin(w)
  \/ FutexWait(w)
  \/ Grab(w)
  \/ RunChunk(w)
  \/ Report(w)

-----------------------------------------------------------------------------
(* The caller.                                                             *)

(* gnf4_pool_start: created threads out of those asked for, each with      *)
(* seen = 0; a pool of none is no pool.                                    *)
Start(created) ==
  /\ caller = "off"
  /\ gen' = <<0, 0>>
  /\ stop' = FALSE
  /\ n' = created
  /\ caller' = IF created = 0 THEN "off" ELSE "idle"
  /\ pc' = [w \in Workers |-> IF w < created THEN "top" ELSE "none"]
  /\ seen' = [w \in Workers |-> <<0, 0>>]
  /\ g' = [w \in Workers |-> <<0, 0>>]
  /\ finished' = {}
  /\ published' = 0
  /\ UNCHANGED <<total, next, done, want, chunk, lo, ran>>

\* pool_run, up to its store to the generation word.
Prepare(t, k) ==
  /\ caller = "idle"
  /\ published < MaxJobs
  /\ want' = IF k = 0 \/ k > n THEN n ELSE k
  /\ total' = t
  /\ next' = 0
  /\ done' = 0
  /\ caller' = "publish"
  /\ ran' = [i \in Items |-> 0]
  /\ finished' = {}
  /\ UNCHANGED <<n, gen, stop, pc, localVars, published>>

NextWord(act) == <<(gen[1] + 1) % Modulus, act>>

Publish ==
  /\ caller = "publish"
  /\ gen' = NextWord(want)
  /\ published' = published + 1
  /\ caller' = "wake"
  /\ UNCHANGED <<n, want, jobVars, next, done, pc, localVars, ran, finished>>

\* Mutant: one sleeper is woken, not all.
AwokenOne ==
  [w \in Workers |-> IF pc[w] = "asleep" /\ \A v \in Workers : pc[v] = "asleep" => w <= v
                       THEN "spin" ELSE pc[w]]

Awoken == [w \in Workers |-> IF pc[w] = "asleep" THEN "spin" ELSE pc[w]]

Wake ==
  /\ caller = "wake"
  /\ pc' = Awoken
  /\ caller' = "join"
  /\ UNCHANGED <<n, want, jobVars, gen, next, done, localVars, history>>

Return ==
  /\ caller = "join"
  /\ done = want
  /\ caller' = "idle"
  /\ UNCHANGED <<n, want, jobVars, gen, next, done, pc, localVars, history>>

\* gnf4_pool_stop raises the flag, publishes a word for nobody, wakes and joins.
Stop ==
  /\ caller = "idle"
  /\ stop' = TRUE
  /\ caller' = "stopping"
  /\ UNCHANGED <<n, want, total, gen, next, done, pc, localVars, history>>

StopWord ==
  /\ caller = "stopping"
  /\ gen' = NextWord(0)
  /\ caller' = "stopwake"
  /\ finished' = {}
  /\ UNCHANGED <<n, want, jobVars, next, done, pc, localVars, ran, published>>

StopWake ==
  /\ caller = "stopwake"
  /\ pc' = Awoken
  /\ caller' = "stopjoin"
  /\ UNCHANGED <<n, want, jobVars, gen, next, done, localVars, history>>

Stopped ==
  /\ caller = "stopjoin"
  /\ \A w \in Workers : w < n => pc[w] = "gone"
  /\ n' = 0
  /\ stop' = FALSE
  /\ caller' = "off"
  /\ UNCHANGED <<want, total, gen, next, done, pc, localVars, history>>

CallerGoesOn == Publish \/ Wake \/ Return \/ StopWord \/ StopWake \/ Stopped

Next ==
  \/ \E w \in Workers : Work(w) \/ SpuriousWake(w)
  \/ \E created \in 0 .. N : Start(created)
  \/ \E t \in Totals, k \in 0 .. N : Prepare(t, k)
  \/ Stop
  \/ CallerGoesOn

Spec == Init /\ [][Next]_vars

\* The operating system runs every thread that can run, and no sleeper may
\* count on a spurious wake-up.
FairSpec == Spec /\ WF_vars(CallerGoesOn) /\ \A w \in Workers : WF_vars(Work(w))

-----------------------------------------------------------------------------
\* Every variable has its type.
TypeOK ==
  /\ caller \in {"off", "idle", "publish", "wake", "join",
                 "stopping", "stopwake", "stopjoin"}
  /\ n \in 0 .. N
  /\ gen \in Words
  /\ stop \in BOOLEAN
  /\ total \in 0 .. MaxItems
  /\ next \in Nat
  /\ done \in Nat
  /\ want \in 0 .. N
  /\ pc \in [Workers -> {"none", "top", "check", "spin", "wait", "asleep",
                         "grab", "run", "report", "gone"}]
  /\ seen \in [Workers -> Words]
  /\ g \in [Workers -> Words]
  /\ chunk \in [Workers -> Nat \ {0}]
  /\ lo \in [Workers -> Nat]
  /\ ran \in [Items -> Nat]
  /\ finished \subseteq Workers
  /\ published \in Nat

(* A worker at work, or about to be, is one of those the running job has   *)
(* engaged and has not reported yet: nobody runs or reports under an old   *)
(* generation, however long it was held up between two loads.              *)
OnlyEngagedWork ==
  \A w \in Workers :
    pc[w] \in {"grab", "run", "report"} =>
      /\ caller \in {"wake", "join"}
      /\ w < want
      /\ w \notin finished

(* No item is executed twice, and when pool_run returns every item of the  *)
(* job has been executed.                                                  *)
EachItemOnce ==
  /\ \A i \in Items : ran[i] <= 1
  /\ caller = "idle" /\ published > 0 => \A i \in Items : i < total => ran[i] = 1

(* pool_run and pool_stop come back: no wake-up is lost between a worker's *)
(* last look at the word and its sleep, and the caller never waits for a   *)
(* worker that will not report.                                            *)
PoolCallsEnd == (caller \notin {"off", "idle"}) ~> (caller \in {"off", "idle"})
=============================================================================
