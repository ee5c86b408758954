---------------------------- MODULE CpuPoolProofs ----------------------------
(***************************************************************************)
(* For every number of workers, size of job and width of the counter: only *)
(* workers the running job has engaged do any of its work, and every item  *)
(* is executed exactly once before pool_run returns.                       *)
(*                                                                         *)
(* The comment in the code argues that engaged workers cannot race because *)
(* the join waits for each of them.  The invariant is that argument: while *)
(* no job runs every worker the last word engaged knows that word, so that *)
(* whatever a worker loads afterwards is either known to it or the next    *)
(* job's word, and of that job it is one of the workers waited for.        *)
(***************************************************************************)
EXTENDS CpuPool, FiniteSetTheorems, TLAPS

Running == caller \in {"wake", "join"}

Quiet == caller \in {"idle", "publish", "stopping", "stopwake", "stopjoin"}

\* The workers beyond the pool's size do not run.
PoolSize ==
  /\ n > 0 <=> caller # "off"
  /\ \A w \in Workers : pc[w] \notin {"none", "gone"} => w < n

\* The running job's word is the published one; nobody knows a fresh job yet.
JobPublished ==
  /\ caller \in {"publish", "wake", "join"} => want > 0
  /\ Running => gen[2] = want
  /\ caller = "publish" => finished = {}

\* A worker that knows the word has not loaded an older one since.
Knows(w) == seen[w] = gen /\ (pc[w] = "check" => g[w] = gen)

\* Who has reported was engaged and knows the word; done counts them.
ReportsCounted ==
  /\ caller \in {"publish", "wake", "join"} => done = Cardinality(finished)
  /\ Running => \A w \in finished : w < want /\ Knows(w)

\* Between two jobs, whoever the last word engaged knows it.
EngagedKnow == Quiet => \A w \in Workers : Engaged(w, gen) => Knows(w)

\* A worker that is about to join a job joins the running one, once.
JoinersAreEngaged ==
  \A w \in Workers :
    pc[w] = "check" /\ g[w] # seen[w] /\ Engaged(w, g[w]) =>
      /\ Running
      /\ g[w] = gen
      /\ w \notin finished

\* A worker at work knows the running job's word.
WorkersKnow == \A w \in Workers : pc[w] \in {"grab", "run", "report"} => seen[w] = gen

InChunk(w, i) == pc[w] = "run" /\ lo[w] <= i /\ i < lo[w] + chunk[w]

\* The chunks being executed lie before the cursor and do not overlap.
ChunksApart ==
  /\ \A w \in Workers : pc[w] = "run" => lo[w] + chunk[w] <= next
  /\ \A v, w \in Workers : v # w /\ pc[v] = "run" /\ pc[w] = "run" =>
       lo[v] + chunk[v] <= lo[w] \/ lo[w] + chunk[w] <= lo[v]

\* Whoever has nothing left to take has seen the cursor past the end.
CursorPast ==
  caller \in {"publish", "wake", "join"} =>
    \A w \in Workers : w \in finished \/ pc[w] = "report" => next >= total

\* What is before the cursor has been executed, or is in somebody's chunk.
Progress ==
  caller \in {"publish", "wake", "join"} =>
    \A i \in Items :
      ran[i] = IF /\ i < total
                  /\ i < next
                  /\ \A w \in Workers : ~InChunk(w, i)
                 THEN 1 ELSE 0

\* Between two jobs every item of the last one has been executed.
JobDone ==
  caller \in {"stopping", "stopwake", "stopjoin", "idle"} /\ published > 0 =>
    \A i \in Items : i < total => ran[i] = 1

IInv ==
  /\ TypeOK
  /\ OnlyEngagedWork
  /\ EachItemOnce
  /\ JobDone
  /\ PoolSize
  /\ JobPublished
  /\ ReportsCounted
  /\ EngagedKnow
  /\ JoinersAreEngaged
  /\ WorkersKnow
  /\ ChunksApart
  /\ CursorPast
  /\ Progress

-----------------------------------------------------------------------------
\* A worker's chunk has at least one item.
LEMMA ChunkPositive ==
  ASSUME NEW t \in Nat, NEW act \in Nat \ {0}
  PROVE  ChunkOf(t, act) \in Nat \ {0}
<1>. DEFINE d == act * Grabs
<1>1. d \in Nat \ {0}
  BY CpuPoolAssumption
<1>2. \A e \in Nat \ {0} : t \div e \in Int
  OBVIOUS
<1>3. t \div d \in Int
  BY <1>1, <1>2
<1>. HIDE DEF d
<1>4. \A x \in Int : (IF x < 1 THEN 1 ELSE x) \in Nat \ {0}
  OBVIOUS
<1>. QED
  BY <1>3, <1>4 DEF ChunkOf, d

\* The next word is a word.
LEMMA NextWordIsWord ==
  ASSUME gen \in Words, NEW act \in 0 .. N
  PROVE  /\ NextWord(act) \in Words
         /\ NextWord(act)[2] = act
<1>1. \A c \in 0 .. Modulus - 1 : (c + 1) % Modulus \in 0 .. Modulus - 1
  BY CpuPoolAssumption
<1>. QED
  BY <1>1 DEF NextWord, Words

\* Initially the invariant holds: there is no pool.
LEMMA InitInv == Init => IInv
<1>. SUFFICES ASSUME Init PROVE IInv
  OBVIOUS
<1>0. <<0, 0>> \in Words /\ 0 \in 0 .. N /\ 0 \in 0 .. MaxItems
  BY CpuPoolAssumption DEF Words
<1>1. TypeOK
  <2>1. pc \in [Workers -> {"none", "top", "check", "spin", "wait", "asleep",
                           "grab", "run", "report", "gone"}]
    BY DEF Init
  <2>2. seen \in [Workers -> Words] /\ g \in [Workers -> Words] /\ gen \in Words
    BY <1>0 DEF Init
  <2>3. /\ chunk \in [Workers -> Nat \ {0}] /\ lo \in [Workers -> Nat]
        /\ ran \in [Items -> Nat]
    BY DEF Init
  <2>4. stop \in BOOLEAN
    BY Zenon DEF Init
  <2>. QED
    BY <1>0, <2>1, <2>2, <2>3, <2>4 DEF Init, TypeOK
<1>2. OnlyEngagedWork /\ EachItemOnce /\ JobDone /\ PoolSize /\ JobPublished /\ ReportsCounted
  BY DEF Init, OnlyEngagedWork, EachItemOnce, JobDone, PoolSize, JobPublished, ReportsCounted, Knows,
         Running
<1>3. EngagedKnow /\ JoinersAreEngaged /\ WorkersKnow /\ ChunksApart /\ CursorPast /\ Progress
  BY DEF Init, EngagedKnow, Quiet, JoinersAreEngaged, WorkersKnow, ChunksApart, CursorPast,
         Progress
<1>. QED
  BY <1>1, <1>2, <1>3 DEF IInv, Init

-----------------------------------------------------------------------------
(* The workers' steps.                                                     *)

\* Steps that end outside of the work and leave the job alone.
LEMMA LookStep ==
  ASSUME IInv, NEW w \in Workers,
         Load(w) \/ Exit(w) \/ Idle(w) \/ Spin(w) \/ FutexWait(w) \/ SpuriousWake(w)
  PROVE  IInv'
<1>. USE DEF IInv, callerVars, jobVars, localVars, history
<1>. DEFINE Unmoved == UNCHANGED <<caller, n, gen, stop, total, next, done, want, seen, chunk,
                                   lo, ran, finished, published>>
<1>1. /\ Unmoved
      /\ pc[w] \notin {"none", "gone", "grab", "run", "report"}
      /\ pc'[w] \in {"top", "check", "spin", "wait", "asleep", "gone"}
      /\ \A v \in Workers : v # w => pc'[v] = pc[v] /\ g'[v] = g[v]
      /\ pc' \in [Workers -> {"none", "top", "check", "spin", "wait", "asleep",
                              "grab", "run", "report", "gone"}]
      /\ g' \in [Workers -> Words]
      /\ pc'[w] = "check" => g'[w] = gen
  BY DEF TypeOK, Load, Exit, Idle, Spin, FutexWait, SpuriousWake
<1>2. TypeOK'
  BY <1>1 DEF TypeOK
<1>3. OnlyEngagedWork' /\ WorkersKnow' /\ PoolSize'
  BY <1>1 DEF OnlyEngagedWork, WorkersKnow, PoolSize
<1>4. EachItemOnce' /\ JobDone' /\ JobPublished'
  BY <1>1 DEF EachItemOnce, JobDone, JobPublished, Running
<1>9. \A v \in Workers : Knows(v) => Knows(v)'
  BY <1>1 DEF Knows
<1>10. ReportsCounted' /\ EngagedKnow'
  BY <1>1, <1>9 DEF ReportsCounted, EngagedKnow, Engaged, Running, Quiet, TypeOK
<1>5. JoinersAreEngaged'
  <2>1. ASSUME NEW v \in Workers, (pc[v] = "check" /\ g[v] # seen[v] /\ Engaged(v, g[v]))'
        PROVE  Running' /\ g'[v] = gen' /\ v \notin finished'
    <3>1. CASE v = w
      <4>1. gen # seen[w] /\ Engaged(w, gen) /\ g'[w] = gen
        BY <1>1, <2>1, <3>1 DEF Engaged
      <4>2. ~Quiet /\ caller # "off"
        BY <1>1, <4>1, CpuPoolAssumption DEF EngagedKnow, Knows, PoolSize, Workers, TypeOK
      <4>3. Running
        BY <4>2 DEF Running, Quiet, TypeOK
      <4>4. w \notin finished
        BY <4>1, <4>3 DEF ReportsCounted, Knows
      <4>. QED
        BY <1>1, <3>1, <4>1, <4>3, <4>4 DEF Running
    <3>2. CASE v # w
      BY <1>1, <2>1, <3>2 DEF JoinersAreEngaged, Engaged, Running
    <3>. QED
      BY <3>1, <3>2
  <2>. QED
    BY <2>1 DEF JoinersAreEngaged
<1>6. \A v \in Workers : (pc'[v] = "run" <=> pc[v] = "run") /\ (pc'[v] = "report" <=> pc[v] = "report")
  BY <1>1
<1>7. ChunksApart' /\ CursorPast'
  BY <1>1, <1>6 DEF ChunksApart, CursorPast
<1>8. Progress'
  BY <1>1, <1>6 DEF Progress, InChunk
<1>. QED
  BY <1>1, <1>2, <1>3, <1>4, <1>5, <1>7, <1>8, <1>10

\* A worker adopts a word: if engaged by it, it is one of the running job's.
LEMMA AdoptStep ==
  ASSUME IInv, NEW w \in Workers, Adopt(w)
  PROVE  IInv'
<1>. USE DEF IInv, callerVars, jobVars, history
<1>1. /\ UNCHANGED <<caller, n, gen, stop, total, next, done, want, g, lo, ran, finished, published>>
      /\ pc[w] = "check" /\ g[w] # seen[w]
      /\ seen' = [seen EXCEPT ![w] = g[w]]
      /\ \A v \in Workers : v # w => pc'[v] = pc[v] /\ seen'[v] = seen[v] /\ chunk'[v] = chunk[v]
      /\ pc'[w] = IF Engaged(w, g[w]) THEN "grab" ELSE "top"
      /\ seen'[w] = g[w]
  BY DEF Adopt, TypeOK
<1>2. chunk' \in [Workers -> Nat \ {0}]
  <2>1. CASE Engaged(w, g[w])
    <3>1. g[w][2] \in Nat \ {0}
      <4>1. g[w] \in Words
        BY DEF TypeOK
      <4>2. w \in Nat /\ g[w][2] \in Nat
        BY <4>1, CpuPoolAssumption DEF Words, Workers
      <4>. QED
        BY <2>1, <4>2 DEF Engaged
    <3>2. total \in Nat
      BY CpuPoolAssumption DEF TypeOK
    <3>3. ChunkOf(total, g[w][2]) \in Nat \ {0}
      BY <3>1, <3>2, ChunkPositive
    <3>. QED
      BY <2>1, <3>3 DEF Adopt, TypeOK
  <2>2. CASE ~Engaged(w, g[w])
    BY <2>2 DEF Adopt, TypeOK
  <2>. QED
    BY <2>1, <2>2
<1>3. TypeOK'
  BY <1>1, <1>2 DEF Adopt, TypeOK
<1>4. Engaged(w, g[w]) => Running /\ g[w] = gen /\ w \notin finished /\ w < want /\ seen'[w] = gen
  BY <1>1 DEF JoinersAreEngaged, JobPublished, Engaged
<1>5. OnlyEngagedWork'
  BY <1>1, <1>4 DEF OnlyEngagedWork, Running
<1>6. PoolSize' /\ EachItemOnce' /\ JobDone' /\ JobPublished'
  BY <1>1 DEF PoolSize, EachItemOnce, JobDone, JobPublished, Running
<1>7. WorkersKnow'
  BY <1>1, <1>4 DEF WorkersKnow
<1>8. Knows(w) => FALSE
  BY <1>1 DEF Knows
<1>9. \A v \in Workers : Knows(v) => Knows(v)'
  BY <1>1, <1>8 DEF Knows
<1>10. ReportsCounted' /\ EngagedKnow'
  BY <1>1, <1>9 DEF ReportsCounted, EngagedKnow, Engaged, Running, Quiet, TypeOK
<1>11. JoinersAreEngaged'
  BY <1>1 DEF JoinersAreEngaged, Engaged, Running
<1>12. \A v \in Workers : (pc'[v] = "run" <=> pc[v] = "run") /\ (pc'[v] = "report" <=> pc[v] = "report")
  BY <1>1
<1>13. ChunksApart' /\ CursorPast'
  BY <1>1, <1>12 DEF ChunksApart, CursorPast
<1>14. Progress'
  BY <1>1, <1>12 DEF Progress, InChunk
<1>. QED
  BY <1>1, <1>3, <1>5, <1>6, <1>7, <1>10, <1>11, <1>13, <1>14

\* A worker at work is engaged, so its job is running.
LEMMA AtWork ==
  ASSUME IInv, NEW w \in Workers, pc[w] \in {"grab", "run", "report"}
  PROVE  Running /\ w < want /\ w \notin finished /\ seen[w] = gen
BY DEF IInv, OnlyEngagedWork, WorkersKnow, Running

\* A worker takes a chunk, or finds that nothing is left.
LEMMA GrabStep ==
  ASSUME IInv, NEW w \in Workers, Grab(w)
  PROVE  IInv'
<1>. USE DEF IInv, callerVars, jobVars, history
<1>1. /\ UNCHANGED <<caller, n, gen, stop, total, done, want, seen, g, chunk, ran, finished, published>>
      /\ pc[w] = "grab"
      /\ lo' = [lo EXCEPT ![w] = next]
      /\ next' = next + chunk[w]
      /\ \A v \in Workers : v # w => pc'[v] = pc[v] /\ lo'[v] = lo[v]
      /\ pc'[w] = IF next >= total THEN "report" ELSE "run"
      /\ lo'[w] = next
  BY DEF Grab, NextAfter, TypeOK
<1>2. TypeOK'
  BY <1>1 DEF Grab, TypeOK
<1>3. Running /\ w < want /\ w \notin finished /\ seen[w] = gen
  BY <1>1, AtWork
<1>4. OnlyEngagedWork' /\ WorkersKnow' /\ PoolSize'
  BY <1>1, <1>3 DEF OnlyEngagedWork, WorkersKnow, PoolSize, Running
<1>5. EachItemOnce' /\ JobDone' /\ JobPublished' /\ JoinersAreEngaged'
  BY <1>1 DEF EachItemOnce, JobDone, JobPublished, JoinersAreEngaged, Engaged, Running
<1>6. \A v \in Workers : Knows(v) => Knows(v)'
  BY <1>1 DEF Knows
<1>7. ReportsCounted' /\ EngagedKnow'
  BY <1>1, <1>6 DEF ReportsCounted, EngagedKnow, Engaged, Running, Quiet, TypeOK
<1>8. /\ next \in Nat /\ total \in Nat
      /\ \A v \in Workers : chunk[v] \in Nat \ {0} /\ lo[v] \in Nat
  BY CpuPoolAssumption DEF TypeOK
<1>9. ChunksApart'
  <2>1. \A v \in Workers : pc'[v] = "run" => lo'[v] + chunk'[v] <= next'
    BY <1>1, <1>8 DEF ChunksApart
  <2>2. \A v \in Workers : v # w /\ pc'[v] = "run" => lo'[v] + chunk'[v] <= lo'[w]
    BY <1>1, <1>8 DEF ChunksApart
  <2>. QED
    BY <1>1, <2>1, <2>2 DEF ChunksApart
<1>10. CursorPast'
  BY <1>1, <1>8 DEF CursorPast
<1>11. Progress'
  <2>1. ASSUME NEW i \in Items
        PROVE  (/\ i < total
                /\ i < next'
                /\ \A v \in Workers : ~InChunk(v, i)')
               <=> (/\ i < total
                    /\ i < next
                    /\ \A v \in Workers : ~InChunk(v, i))
    <3>0. i \in Nat
      BY CpuPoolAssumption DEF Items
    <3>1. \A v \in Workers : v # w => (InChunk(v, i)' <=> InChunk(v, i))
      BY <1>1 DEF InChunk
    <3>2. ~InChunk(w, i)
      BY <1>1 DEF InChunk
    <3>3. CASE next >= total
      <4>1. ~InChunk(w, i)'
        BY <1>1, <3>3 DEF InChunk
      <4>. QED
        BY <1>1, <1>8, <3>0, <3>1, <3>2, <3>3, <4>1
    <3>4. CASE next < total
      <4>1. InChunk(w, i)' <=> next <= i /\ i < next'
        BY <1>1, <1>8, <3>4 DEF InChunk
      <4>. QED
        BY <1>1, <1>8, <3>0, <3>1, <3>2, <3>4, <4>1
    <3>. QED
      BY <1>8, <3>3, <3>4
  <2>. QED
    BY <1>1, <2>1 DEF Progress
<1>. QED
  BY <1>1, <1>2, <1>4, <1>5, <1>7, <1>9, <1>10, <1>11

\* A worker executes its chunk.
LEMMA RunStep ==
  ASSUME IInv, NEW w \in Workers, RunChunk(w)
  PROVE  IInv'
<1>. USE DEF IInv, callerVars, jobVars, localVars
<1>1. /\ UNCHANGED <<caller, n, gen, stop, total, next, done, want, seen, g, chunk, lo, finished, published>>
      /\ pc[w] = "run"
      /\ \A v \in Workers : v # w => pc'[v] = pc[v]
      /\ pc'[w] = "grab"
      /\ ran' = [i \in Items |-> IF i \in ChunkItems(w) THEN ran[i] + 1 ELSE ran[i]]
  BY DEF RunChunk, TypeOK
<1>2. TypeOK'
  BY <1>1 DEF RunChunk, TypeOK
<1>3. Running /\ w < want /\ w \notin finished /\ seen[w] = gen
  BY <1>1, AtWork
<1>4. OnlyEngagedWork' /\ WorkersKnow' /\ PoolSize'
  BY <1>1, <1>3 DEF OnlyEngagedWork, WorkersKnow, PoolSize, Running
<1>5. JobPublished' /\ JoinersAreEngaged'
  BY <1>1 DEF JobPublished, JoinersAreEngaged, Engaged, Running
<1>6. \A v \in Workers : Knows(v) => Knows(v)'
  BY <1>1 DEF Knows
<1>7. ReportsCounted' /\ EngagedKnow'
  BY <1>1, <1>6 DEF ReportsCounted, EngagedKnow, Engaged, Running, Quiet, TypeOK
<1>8. ChunksApart' /\ CursorPast'
  BY <1>1 DEF ChunksApart, CursorPast
<1>9. ASSUME NEW i \in Items
      PROVE  ran'[i] = IF /\ i < total
                          /\ i < next
                          /\ \A v \in Workers : ~InChunk(v, i)'
                         THEN 1 ELSE 0
  <2>1. /\ \A v \in Workers : v # w => (InChunk(v, i)' <=> InChunk(v, i))
        /\ ~InChunk(w, i)'
    BY <1>1 DEF InChunk
  <2>2. ran[i] = IF i < total /\ i < next /\ (\A v \in Workers : ~InChunk(v, i)) THEN 1 ELSE 0
    BY <1>3 DEF Progress, Running
  <2>5. /\ i \in Nat /\ next \in Nat
        /\ \A v \in Workers : chunk[v] \in Nat /\ lo[v] \in Nat
    BY CpuPoolAssumption DEF Items, TypeOK
  <2>3. CASE InChunk(w, i)
    <3>1. i < next
      BY <2>3, <2>5 DEF InChunk, ChunksApart
    <3>2. \A v \in Workers : v # w => ~InChunk(v, i)
      BY <2>3, <2>5 DEF InChunk, ChunksApart
    <3>3. i \in ChunkItems(w) <=> i < total
      BY <2>3 DEF InChunk, ChunkItems
    <3>. QED
      BY <1>1, <2>1, <2>2, <2>3, <3>1, <3>2, <3>3
  <2>4. CASE ~InChunk(w, i)
    <3>1. i \notin ChunkItems(w)
      BY <1>1, <2>4 DEF InChunk, ChunkItems
    <3>. QED
      BY <1>1, <2>1, <2>2, <2>4, <3>1
  <2>. QED
    BY <2>3, <2>4
<1>10. Progress'
  BY <1>1, <1>9 DEF Progress
<1>11. EachItemOnce' /\ JobDone'
  BY <1>1, <1>3, <1>9 DEF EachItemOnce, JobDone, Running
<1>. QED
  BY <1>1, <1>2, <1>3, <1>4, <1>5, <1>7, <1>8, <1>10, <1>11 DEF Running

\* A worker reports, once in a job.
LEMMA ReportStep ==
  ASSUME IInv, NEW w \in Workers, Report(w)
  PROVE  IInv'
<1>. USE DEF IInv, callerVars, jobVars, localVars
<1>1. /\ UNCHANGED <<caller, n, gen, stop, total, next, want, seen, g, chunk, lo, ran, published>>
      /\ pc[w] = "report"
      /\ \A v \in Workers : v # w => pc'[v] = pc[v]
      /\ pc'[w] = "top"
      /\ done' = done + 1
      /\ finished' = finished \cup {w}
  BY DEF Report, TypeOK
<1>2. TypeOK'
  BY <1>1 DEF Report, TypeOK
<1>3. Running /\ w < want /\ w \notin finished /\ seen[w] = gen
  BY <1>1, AtWork
<1>4. OnlyEngagedWork' /\ WorkersKnow' /\ PoolSize'
  BY <1>1, <1>3 DEF OnlyEngagedWork, WorkersKnow, PoolSize, Running
<1>5. EachItemOnce' /\ JobDone' /\ JobPublished'
  BY <1>1, <1>3 DEF EachItemOnce, JobDone, JobPublished, Running
<1>6. JoinersAreEngaged'
  BY <1>1 DEF JoinersAreEngaged, Engaged, Running
<1>7. \A v \in Workers : Knows(v) => Knows(v)'
  BY <1>1 DEF Knows
<1>8. Knows(w)'
  BY <1>1, <1>3 DEF Knows
<1>9. done' = Cardinality(finished')
  <2>1. IsFiniteSet(Workers)
    BY CpuPoolAssumption, FS_Interval DEF Workers
  <2>2. IsFiniteSet(finished)
    BY <2>1, FS_Subset DEF TypeOK
  <2>3. Cardinality(finished \cup {w}) = Cardinality(finished) + 1
    BY <1>3, <2>2, FS_AddElement
  <2>4. done = Cardinality(finished)
    BY <1>3 DEF ReportsCounted, Running
  <2>. QED
    BY <1>1, <2>3, <2>4
<1>10. ReportsCounted' /\ EngagedKnow'
  BY <1>1, <1>3, <1>7, <1>8, <1>9 DEF ReportsCounted, EngagedKnow, Engaged, Running, Quiet, TypeOK
<1>11. ChunksApart' /\ CursorPast'
  BY <1>1, <1>3 DEF ChunksApart, CursorPast, Running
<1>12. Progress'
  BY <1>1 DEF Progress, InChunk
<1>. QED
  BY <1>1, <1>2, <1>3, <1>4, <1>5, <1>6, <1>10, <1>11, <1>12 DEF Running

-----------------------------------------------------------------------------
(* The caller's steps.                                                     *)

\* While the pool is quiet nobody is at work or about to be.
LEMMA NobodyAtWork ==
  ASSUME IInv, ~Running, NEW w \in Workers
  PROVE  /\ pc[w] \notin {"grab", "run", "report"}
         /\ pc[w] = "check" /\ g[w] # seen[w] => ~Engaged(w, g[w])
BY DEF IInv, OnlyEngagedWork, JoinersAreEngaged, Running

\* A pool is started: no worker knows or has loaded any word but the first.
LEMMA StartStep ==
  ASSUME IInv, NEW created \in 0 .. N, Start(created)
  PROVE  IInv'
<1>. USE DEF IInv
<1>0. <<0, 0>> \in Words
  BY CpuPoolAssumption DEF Words
<1>1. TypeOK'
  BY <1>0 DEF Start, TypeOK
<1>2. OnlyEngagedWork' /\ EachItemOnce' /\ JobDone' /\ WorkersKnow'
  BY DEF Start, OnlyEngagedWork, EachItemOnce, JobDone, WorkersKnow
<1>3. PoolSize' /\ JobPublished' /\ ReportsCounted'
  BY DEF Start, PoolSize, JobPublished, ReportsCounted, Running
<1>4. EngagedKnow' /\ JoinersAreEngaged'
  BY CpuPoolAssumption DEF Start, EngagedKnow, JoinersAreEngaged, Engaged, Workers
<1>5. ChunksApart' /\ CursorPast' /\ Progress'
  BY DEF Start, ChunksApart, CursorPast, Progress
<1>. QED
  BY <1>1, <1>2, <1>3, <1>4, <1>5 DEF Start

\* A job is prepared: nothing of it has been executed.
LEMMA PrepareStep ==
  ASSUME IInv, NEW t \in Totals, NEW k \in 0 .. N, Prepare(t, k)
  PROVE  IInv'
<1>. USE DEF IInv, localVars
<1>1. /\ UNCHANGED <<n, gen, stop, pc, seen, g, chunk, lo, published>>
      /\ caller = "idle" /\ caller' = "publish"
      /\ want' = IF k = 0 \/ k > n THEN n ELSE k
      /\ total' = t /\ next' = 0 /\ done' = 0
      /\ ran' = [i \in Items |-> 0] /\ finished' = {}
  BY DEF Prepare
<1>2. ~Running
  BY <1>1 DEF Running
<1>3. \A w \in Workers : pc'[w] \notin {"grab", "run", "report"}
  BY <1>1, <1>2, NobodyAtWork
<1>4. TypeOK'
  BY <1>1, CpuPoolAssumption DEF TypeOK
<1>5. OnlyEngagedWork' /\ EachItemOnce' /\ JobDone' /\ WorkersKnow' /\ PoolSize'
  BY <1>1, <1>3 DEF OnlyEngagedWork, EachItemOnce, JobDone, WorkersKnow, PoolSize
<1>6. JobPublished' /\ ReportsCounted'
  BY <1>1, FS_EmptySet DEF JobPublished, ReportsCounted, Running, PoolSize
<1>7. EngagedKnow' /\ JoinersAreEngaged'
  BY <1>1, <1>2, NobodyAtWork DEF EngagedKnow, Knows, Quiet, JoinersAreEngaged, Engaged
<1>8. ChunksApart' /\ CursorPast'
  BY <1>1, <1>3 DEF ChunksApart, CursorPast
<1>9. \A i \in Items : ~(i < 0)
  BY CpuPoolAssumption DEF Items
<1>10. Progress'
  BY <1>1, <1>9 DEF Progress
<1>. QED
  BY <1>1, <1>4, <1>5, <1>6, <1>7, <1>8, <1>10

\* The job's word is published, and its workers may begin.
LEMMA PublishStep ==
  ASSUME IInv, Publish
  PROVE  IInv'
<1>. USE DEF IInv, localVars, jobVars
<1>1. /\ UNCHANGED <<n, want, stop, total, next, done, pc, seen, g, chunk, lo, ran, finished>>
      /\ caller = "publish" /\ caller' = "wake"
      /\ published' = published + 1
      /\ gen' \in Words /\ gen'[2] = want
  BY NextWordIsWord DEF Publish, TypeOK
<1>2. ~Running
  BY <1>1 DEF Running
<1>3. \A w \in Workers : pc'[w] \notin {"grab", "run", "report"}
  BY <1>1, <1>2, NobodyAtWork
<1>4. TypeOK'
  BY <1>1, CpuPoolAssumption DEF TypeOK
<1>5. OnlyEngagedWork' /\ EachItemOnce' /\ JobDone' /\ WorkersKnow' /\ PoolSize'
  BY <1>1, <1>3 DEF OnlyEngagedWork, EachItemOnce, JobDone, WorkersKnow, PoolSize
<1>6. JobPublished' /\ ReportsCounted'
  BY <1>1 DEF JobPublished, ReportsCounted, Running
<1>7. EngagedKnow' /\ JoinersAreEngaged'
  BY <1>1, <1>2, NobodyAtWork DEF EngagedKnow, Quiet, JoinersAreEngaged, Engaged
<1>8. ChunksApart' /\ CursorPast'
  BY <1>1, <1>3 DEF ChunksApart, CursorPast
<1>9. Progress'
  BY <1>1 DEF Progress, InChunk
<1>. QED
  BY <1>1, <1>4, <1>5, <1>6, <1>7, <1>8, <1>9

\* The sleepers are woken, by pool_run or by pool_stop.
LEMMA WakeStep ==
  ASSUME IInv, Wake \/ StopWake
  PROVE  IInv'
<1>. USE DEF IInv, localVars, jobVars, history
<1>1. /\ UNCHANGED <<n, want, gen, stop, total, next, done, seen, g, chunk, lo, ran, finished, published>>
      /\ \/ caller = "wake" /\ caller' = "join"
         \/ caller = "stopwake" /\ caller' = "stopjoin"
      /\ pc' = [w \in Workers |-> IF pc[w] = "asleep" THEN "spin" ELSE pc[w]]
  BY DEF Wake, StopWake, Awoken
<1>2. \A w \in Workers : \A p \in {"none", "gone", "check", "grab", "run", "report"} :
        pc'[w] = p <=> pc[w] = p
  BY <1>1
<1>3. TypeOK'
  BY <1>1 DEF TypeOK
<1>4. OnlyEngagedWork' /\ WorkersKnow' /\ PoolSize'
  BY <1>1, <1>2 DEF OnlyEngagedWork, WorkersKnow, PoolSize
<1>5. EachItemOnce' /\ JobDone' /\ JobPublished'
  BY <1>1 DEF EachItemOnce, JobDone, JobPublished, Running
<1>6. \A w \in Workers : Knows(w)' <=> Knows(w)
  BY <1>1, <1>2 DEF Knows
<1>7. ReportsCounted' /\ EngagedKnow'
  BY <1>1, <1>6 DEF ReportsCounted, EngagedKnow, Engaged, Running, Quiet, TypeOK
<1>8. JoinersAreEngaged'
  BY <1>1, <1>2 DEF JoinersAreEngaged, Engaged, Running
<1>9. ChunksApart' /\ CursorPast'
  BY <1>1, <1>2 DEF ChunksApart, CursorPast
<1>10. Progress'
  BY <1>1, <1>2 DEF Progress, InChunk
<1>. QED
  BY <1>1, <1>3, <1>4, <1>5, <1>7, <1>8, <1>9, <1>10

(* pool_run returns: as many workers have reported as were engaged, so all *)
(* of them have, and none is at work.                                      *)
LEMMA ReturnStep ==
  ASSUME IInv, Return
  PROVE  IInv'
<1>. USE DEF IInv, localVars, jobVars, history
<1>1. /\ UNCHANGED <<n, want, gen, stop, total, next, done, pc, seen, g, chunk, lo, ran, finished, published>>
      /\ caller = "join" /\ caller' = "idle" /\ done = want
  BY DEF Return
<1>2. Running /\ want > 0 /\ gen[2] = want
  BY <1>1 DEF Running, JobPublished
<1>3. \A w \in Workers : w < want => w \in finished
  <2>. DEFINE E == 0 .. want - 1
  <2>1. finished \subseteq E
    BY <1>2, CpuPoolAssumption DEF ReportsCounted, TypeOK, Workers
  <2>0. want \in Nat \ {0} /\ want <= N
    BY <1>2, CpuPoolAssumption DEF TypeOK
  <2>2. IsFiniteSet(E) /\ Cardinality(E) = want
    BY <2>0, FS_Interval
  <2>3. Cardinality(finished) = Cardinality(E)
    BY <1>1, <1>2, <2>2 DEF ReportsCounted, Running
  <2>4. finished = E
    BY <2>1, <2>2, <2>3, FS_Subset
  <2>. QED
    BY <2>0, <2>4, CpuPoolAssumption DEF Workers
<1>4. \A w \in Workers : pc[w] \notin {"grab", "run", "report"}
  BY <1>3, AtWork
<1>5. \A w \in Workers : pc[w] = "check" /\ g[w] # seen[w] => ~Engaged(w, g[w])
  BY <1>2, <1>3 DEF JoinersAreEngaged, Engaged
<1>6. next >= total
  <2>1. 0 \in Workers /\ 0 \in finished
    BY <1>2, <1>3, CpuPoolAssumption DEF Workers, TypeOK
  <2>. QED
    BY <1>1, <2>1 DEF CursorPast
<1>7. \A i \in Items : i < total => ran[i] = 1
  <2>1. \A i \in Items : i < total => i < next
    BY <1>6, CpuPoolAssumption DEF Items, TypeOK
  <2>. QED
    BY <1>1, <1>4, <2>1 DEF Progress, InChunk
<1>8. OnlyEngagedWork' /\ WorkersKnow' /\ PoolSize' /\ EachItemOnce' /\ JobDone'
  BY <1>1, <1>4, <1>7 DEF OnlyEngagedWork, WorkersKnow, PoolSize, EachItemOnce, JobDone
<1>9. JobPublished' /\ ReportsCounted' /\ JoinersAreEngaged'
  BY <1>1, <1>5 DEF JobPublished, ReportsCounted, JoinersAreEngaged, Engaged, Running
<1>10. EngagedKnow'
  BY <1>1, <1>2, <1>3 DEF EngagedKnow, ReportsCounted, Knows, Engaged
<1>11. ChunksApart' /\ CursorPast' /\ Progress'
  BY <1>1 DEF ChunksApart, CursorPast, Progress
<1>12. TypeOK'
  BY <1>1 DEF TypeOK
<1>. QED
  BY <1>8, <1>9, <1>10, <1>11, <1>12

\* The pool is told to stop, and is joined.
LEMMA StopStep ==
  ASSUME IInv, Stop \/ StopWord \/ Stopped
  PROVE  IInv'
<1>. USE DEF IInv, localVars, jobVars, history
<1>1. /\ UNCHANGED <<want, total, next, done, pc, seen, g, chunk, lo, ran, published>>
      /\ \/ /\ caller = "idle" /\ caller' = "stopping" /\ stop' = TRUE
            /\ UNCHANGED <<n, gen, finished>>
         \/ /\ caller = "stopping" /\ caller' = "stopwake"
            /\ gen' \in Words /\ gen'[2] = 0 /\ finished' = {}
            /\ UNCHANGED <<n, stop>>
         \/ /\ caller = "stopjoin" /\ caller' = "off" /\ n' = 0 /\ stop' = FALSE
            /\ \A w \in Workers : w < n => pc[w] = "gone"
            /\ UNCHANGED <<gen, finished>>
  BY NextWordIsWord, CpuPoolAssumption DEF TypeOK, Stop, StopWord, Stopped
<1>2. ~Running
  BY <1>1 DEF Running
<1>3. \A w \in Workers : pc'[w] \notin {"grab", "run", "report"}
  BY <1>1, <1>2, NobodyAtWork
<1>4. TypeOK'
  <2>1. stop' \in BOOLEAN
    BY <1>1, Zenon DEF TypeOK
  <2>2. n' \in 0 .. N /\ gen' \in Words /\ finished' \subseteq Workers
    BY <1>1, CpuPoolAssumption DEF TypeOK
  <2>3. caller' \in {"stopping", "stopwake", "off"}
    BY <1>1
  <2>. QED
    BY <1>1, <2>1, <2>2, <2>3 DEF TypeOK
<1>5. OnlyEngagedWork' /\ EachItemOnce' /\ JobDone' /\ WorkersKnow'
  BY <1>1, <1>3 DEF OnlyEngagedWork, EachItemOnce, JobDone, WorkersKnow
<1>6. PoolSize'
  BY <1>1 DEF PoolSize
<1>7. JobPublished' /\ ReportsCounted'
  BY <1>1 DEF JobPublished, ReportsCounted, Running
<1>8. EngagedKnow'
  <2>1. \A w \in Workers : ~(w < 0)
    BY CpuPoolAssumption DEF Workers
  <2>. QED
    BY <1>1, <2>1 DEF EngagedKnow, Knows, Quiet, Engaged
<1>10. JoinersAreEngaged'
  BY <1>1, <1>2, NobodyAtWork DEF JoinersAreEngaged, Engaged
<1>9. ChunksApart' /\ CursorPast' /\ Progress'
  BY <1>1, <1>3 DEF ChunksApart, CursorPast, Progress
<1>. QED
  BY <1>4, <1>5, <1>6, <1>7, <1>8, <1>9, <1>10

-----------------------------------------------------------------------------
\* Every step keeps the invariant.
LEMMA NextInv == IInv /\ [Next]_vars => IInv'
<1>. SUFFICES ASSUME IInv, [Next]_vars PROVE IInv'
  OBVIOUS
<1>1. ASSUME NEW w \in Workers, Work(w) \/ SpuriousWake(w) PROVE IInv'
  BY <1>1, LookStep, AdoptStep, GrabStep, RunStep, ReportStep DEF Work
<1>2. ASSUME NEW created \in 0 .. N, Start(created) PROVE IInv'
  BY <1>2, StartStep
<1>3. ASSUME NEW t \in Totals, NEW k \in 0 .. N, Prepare(t, k) PROVE IInv'
  BY <1>3, PrepareStep
<1>4. CASE Stop \/ CallerGoesOn
  BY <1>4, PublishStep, WakeStep, ReturnStep, StopStep DEF CallerGoesOn
<1>5. CASE UNCHANGED vars
  BY <1>5 DEF vars, IInv, TypeOK, OnlyEngagedWork, EachItemOnce, JobDone, PoolSize, JobPublished,
              ReportsCounted, EngagedKnow, Knows, JoinersAreEngaged, WorkersKnow, ChunksApart,
              CursorPast, Progress, InChunk, Running, Quiet, Engaged
<1>. QED
  BY <1>1, <1>2, <1>3, <1>4, <1>5 DEF Next

\* The inductive invariant holds in every behaviour of the pool.
THEOREM Invariance == Spec => []IInv
BY InitInv, NextInv, PTL DEF Spec

(* Every variable of the pool keeps its type; in particular a chunk is     *)
(* never empty, so that the workers' loop over the cursor ends.            *)
THEOREM TypeCorrect == Spec => []TypeOK
<1>1. IInv => TypeOK
  BY DEF IInv
<1>. QED
  BY Invariance, <1>1, PTL

(* No worker that the running job has not engaged, or that has reported,   *)
(* takes or reports work: for any number of workers, and whatever the      *)
(* width of the generation word's counter.                                 *)
THEOREM OnlyEngagedWorkers == Spec => []OnlyEngagedWork
<1>1. IInv => OnlyEngagedWork
  BY DEF IInv
<1>. QED
  BY Invariance, <1>1, PTL

(* Every item of a job is executed at most once, and exactly once when     *)
(* pool_run has returned: for every size of job and of pool.               *)
THEOREM ItemsOnce == Spec => []EachItemOnce
<1>1. IInv => EachItemOnce
  BY DEF IInv
<1>. QED
  BY Invariance, <1>1, PTL
=============================================================================
