--------------------------- MODULE HaveSkipProofs ---------------------------
(***************************************************************************)
(* For any number of layers, stores, slots, experts and rows, and whatever *)
(* the caches do to their rows: kernels read the experts their engine      *)
(* wants.                                                                  *)
(*                                                                         *)
(* The property alone says nothing of the engines that are not computing,  *)
(* whose slots the next fetch may keep.  The invariant adds what makes     *)
(* skipping sound: have tells the truth of every row of a pinned engine,   *)
(* whoever filled the slot and whoever shares the store, and the mirror of *)
(* a tiered engine that owns its store does of the others, if no captured  *)
(* engine shares it.                                                       *)
(***************************************************************************)
EXTENDS HaveSkip, TLAPS

TypeOK ==
  /\ row \in [Addresses -> Keys \cup {Nothing}]
  /\ owner \in [Stores -> Layers \cup {NoLayer}]
  /\ have \in [Stores -> [Slots -> Addresses \cup {NoAddress}]]
  /\ want \in [Stores -> [Slots -> Experts]]
  /\ bytes \in [Stores -> [Slots -> Keys \cup {Nothing}]]
  /\ eid \in [Layers -> [Slots -> Experts \cup {NoExpert}]]
  /\ addr \in [Layers -> [Slots -> Addresses \cup {NoAddress}]]
  /\ primed \in SUBSET Layers
  /\ graphs \in SUBSET (Captured \X BOOLEAN)
  /\ computing \in Layers \cup {NoLayer}

\* A row that stays has its expert, always.
HotRowsStay == \A key \in DOMAIN Hot : row[Hot[key]] = key

\* A store belongs to engines that exist: the constructor always takes it over.
OwnersExist == \A l \in Layers : owner[StoreOf[l]] = l => l \in primed

\* The mirror of a tiered owner names the experts whose bytes its slots have.
MirrorsTrue ==
  \A l \in Tiered : MirrorIsKept(l) /\ owner[StoreOf[l]] = l =>
    \A s \in Slots : eid[l][s] # NoExpert => bytes[StoreOf[l]][s] = <<l, eid[l][s]>>

\* A slot filled from a row of a pinned engine has its expert.
PinnedKeys == {key \in DOMAIN Hot : key[1] \notin Tiered}

HaveTrue ==
  \A st \in Stores, s \in Slots, key \in PinnedKeys :
    have[st][s] = Hot[key] => bytes[st][s] = key

IInv ==
  /\ TypeOK
  /\ HotRowsStay
  /\ OwnersExist
  /\ MirrorsTrue
  /\ HaveTrue
  /\ SlotsHoldTheirExperts

-----------------------------------------------------------------------------
(* A fetch, a priming or a replay: gathered but for what is skipped        *)
(* against has, and committed.  A replay does not claim the store.         *)
Serves(l, wanted, src, has) ==
  /\ Resolves(l, wanted, src)
  /\ bytes' = Gathered(l, src, has)
  /\ Committed(l, wanted, src)
  /\ want' = [want EXCEPT ![StoreOf[l]] = wanted]
  /\ computing' = l
  /\ UNCHANGED graphs

Claims(l) == owner' = Owned(l) /\ primed' = primed \cup {l}
Unclaimed(l) == l \in Captured /\ UNCHANGED <<owner, primed>>

\* Skipping against has is sound: a slot skipped has the expert wanted.
SkipsSoundly(l, wanted, src, has) ==
  \A s \in Slots : src[s] = has[s] => bytes[StoreOf[l]][s] = <<l, wanted[s]>>

(* The rows move within their type, and the pinned ones do not move.       *)
LEMMA RowsKept ==
  ASSUME TypeOK, HotRowsStay, RowsMove
  PROVE  /\ row' \in [Addresses -> Keys \cup {Nothing}]
         /\ HotRowsStay'
<1>1. PICK cold \in [Addresses \ HotAddresses -> Keys \cup {Nothing}] :
        row' = [a \in Addresses |-> IF a \in HotAddresses THEN row[a] ELSE cold[a]]
  BY DEF RowsMove
<1>2. row' \in [Addresses -> Keys \cup {Nothing}]
  BY <1>1 DEF TypeOK
<1>3. ASSUME NEW key \in DOMAIN Hot
      PROVE  row'[Hot[key]] = key
  <2>1. Hot[key] \in Addresses /\ Hot[key] \in HotAddresses
    BY HaveSkipAssumption DEF HotAddresses
  <2> QED
    BY <2>1, <1>1 DEF HotRowsStay
<1> QED
  BY <1>2, <1>3 DEF HotRowsStay

(* An engine that just took its store over skips nothing: have is poisoned *)
(* (_claim).                                                               *)
LEMMA TakeoverSkips ==
  ASSUME NEW l \in Layers, TakesOver(l),
         NEW wanted, NEW src \in [Slots -> Addresses]
  PROVE  SkipsSoundly(l, wanted, src, HaveClaimed(l))
BY HaveSkipAssumption DEF HaveClaimed, HaveUnless, SkipsSoundly

(* A pinned engine's fetch or replay, have poisoned or not: an address     *)
(* stands for one expert.                                                  *)
LEMMA PinnedSkips ==
  ASSUME IInv, NEW l \in Layers \ Tiered, NEW poisoned \in BOOLEAN,
         NEW wanted \in [Slots -> Experts], NEW src \in [Slots -> Addresses],
         Resolves(l, wanted, src)
  PROVE  SkipsSoundly(l, wanted, src, HaveUnless(poisoned, l))
<1> SUFFICES ASSUME NEW s \in Slots, src[s] = HaveUnless(poisoned, l)[s]
             PROVE  bytes[StoreOf[l]][s] = <<l, wanted[s]>>
  BY DEF SkipsSoundly
<1>1. have[StoreOf[l]][s] = src[s]
  BY HaveSkipAssumption DEF HaveUnless
<1>2. <<l, wanted[s]>> \in PinnedKeys /\ <<l, wanted[s]>> \in DOMAIN Hot /\ StoreOf[l] \in Stores
  BY HaveSkipAssumption DEF PinnedKeys
<1>3. src[s] = Hot[<<l, wanted[s]>>]
  BY <1>2 DEF Resolves
<1> QED
  BY <1>1, <1>2, <1>3 DEF IInv, HaveTrue

(* A tiered engine's fetch: what _invalidate leaves of have is what the    *)
(* mirror says of the expert wanted.                                       *)
LEMMA TieredSkips ==
  ASSUME IInv, NEW l \in Tiered, MirrorIsKept(l),
         NEW wanted \in [Slots -> Experts], NEW src \in [Slots -> Addresses]
  PROVE  SkipsSoundly(l, wanted, src, HaveInvalidated(l, wanted))
<1> SUFFICES ASSUME NEW s \in Slots, src[s] = HaveInvalidated(l, wanted)[s]
             PROVE  bytes[StoreOf[l]][s] = <<l, wanted[s]>>
  BY DEF SkipsSoundly
<1>1. src[s] # NoAddress /\ wanted[s] # NoExpert
  BY HaveSkipAssumption
<1>2. wanted[s] = EidClaimed(l)[s]
  BY <1>1 DEF HaveInvalidated
<1>3. owner[StoreOf[l]] = l /\ eid[l][s] = wanted[s]
  BY <1>1, <1>2 DEF EidClaimed, TakesOver
<1> QED
  BY <1>1, <1>3 DEF IInv, MirrorsTrue

(* After a sound skip every slot has the expert wanted (_gather).          *)
LEMMA ServedSlots ==
  ASSUME IInv, NEW l \in Layers,
         NEW wanted \in [Slots -> Experts], NEW src \in [Slots -> Addresses],
         NEW has, Serves(l, wanted, src, has), SkipsSoundly(l, wanted, src, has)
  PROVE  \A s \in Slots : bytes'[StoreOf[l]][s] = <<l, wanted[s]>>
<1> SUFFICES ASSUME NEW s \in Slots
             PROVE  bytes'[StoreOf[l]][s] = <<l, wanted[s]>>
  OBVIOUS
<1>1. StoreOf[l] \in Stores
  BY HaveSkipAssumption
<1>2. bytes'[StoreOf[l]][s] = IF src[s] = has[s] THEN bytes[StoreOf[l]][s] ELSE row'[src[s]]
  BY <1>1 DEF Serves, Gathered, IInv, TypeOK
<1>3. row'[src[s]] = <<l, wanted[s]>>
  BY DEF Serves, Resolves
<1> QED
  BY <1>2, <1>3 DEF SkipsSoundly

(* A fetch that skips soundly keeps the invariant, and so does one that    *)
(* claims nothing if it is of a captured engine.  Where a replay may take  *)
(* the store of a tiered engine its skips need not be sound: no other      *)
(* engine relies on what it leaves.                                        *)
LEMMA ServesKeepsIInv ==
  ASSUME IInv, NEW l \in Layers,
         NEW wanted \in [Slots -> Experts], NEW src \in [Slots -> Addresses],
         NEW has, Serves(l, wanted, src, has),
         MirrorIsKept(l) => SkipsSoundly(l, wanted, src, has),
         Claims(l) \/ Unclaimed(l)
  PROVE  IInv'
<1> DEFINE st == StoreOf[l]
<1>1. st \in Stores /\ Tiered \subseteq Layers
  BY HaveSkipAssumption
<1>2. MirrorIsKept(l) => \A s \in Slots : bytes'[st][s] = <<l, wanted[s]>>
  BY ServedSlots
<1>3. row' \in [Addresses -> Keys \cup {Nothing}] /\ HotRowsStay'
  BY RowsKept DEF Serves, Resolves, IInv
<1>5. bytes' \in [Stores -> [Slots -> Keys \cup {Nothing}]]
  <2> DEFINE kept(s) == IF src[s] = has[s] THEN bytes[st][s] ELSE row'[src[s]]
  <2>1. [s \in Slots |-> kept(s)] \in [Slots -> Keys \cup {Nothing}]
    <3>1. \A s \in Slots : bytes[st][s] \in Keys \cup {Nothing} /\ row'[src[s]] \in Keys \cup {Nothing}
      BY <1>1, <1>3 DEF IInv, TypeOK
    <3> QED
      BY <3>1
  <2>2. bytes' = [bytes EXCEPT ![st] = [s \in Slots |-> kept(s)]]
    BY DEF Serves, Gathered
  <2> HIDE DEF kept
  <2> QED
    BY <2>1, <2>2 DEF IInv, TypeOK
<1>6. TypeOK'
  <2>1. owner' \in [Stores -> Layers \cup {NoLayer}]
    BY <1>1 DEF Claims, Unclaimed, Owned, IInv, TypeOK
  <2>2. have' \in [Stores -> [Slots -> Addresses \cup {NoAddress}]]
    <3>1. src \in [Slots -> Addresses \cup {NoAddress}]
      OBVIOUS
    <3> QED
      BY <1>1, <3>1 DEF Serves, Committed, IInv, TypeOK
  <2>3. want' \in [Stores -> [Slots -> Experts]]
    BY <1>1 DEF Serves, IInv, TypeOK
  <2>4. eid' \in [Layers -> [Slots -> Experts \cup {NoExpert}]]
    <3>1. wanted \in [Slots -> Experts \cup {NoExpert}]
      OBVIOUS
    <3> QED
      BY <3>1 DEF Serves, Committed, IInv, TypeOK
  <2>5. addr' \in [Layers -> [Slots -> Addresses \cup {NoAddress}]]
    <3>1. src \in [Slots -> Addresses \cup {NoAddress}]
      OBVIOUS
    <3> QED
      BY <3>1 DEF Serves, Committed, IInv, TypeOK
  <2>6. primed' \in SUBSET Layers
    BY DEF Claims, Unclaimed, IInv, TypeOK
  <2>7. graphs' \in SUBSET (Captured \X BOOLEAN) /\ computing' \in Layers \cup {NoLayer}
    BY DEF Serves, IInv, TypeOK
  <2> QED
    BY <1>3, <1>5, <2>1, <2>2, <2>3, <2>4, <2>5, <2>6, <2>7 DEF TypeOK
<1>7. OwnersExist'
  BY <1>1, HaveSkipAssumption DEF Claims, Unclaimed, Owned, IInv, TypeOK, OwnersExist
<1>8. \A other \in Tiered : other # l /\ MirrorIsKept(other) /\ owner'[StoreOf[other]] = other =>
        /\ StoreOf[other] # st
        /\ owner[StoreOf[other]] = other
        /\ bytes'[StoreOf[other]] = bytes[StoreOf[other]]
        /\ eid'[other] = eid[other]
  <2> SUFFICES ASSUME NEW other \in Tiered, other # l, MirrorIsKept(other),
                      owner'[StoreOf[other]] = other
               PROVE  /\ StoreOf[other] # st
                      /\ owner[StoreOf[other]] = other
                      /\ bytes'[StoreOf[other]] = bytes[StoreOf[other]]
                      /\ eid'[other] = eid[other]
    OBVIOUS
  <2>1. StoreOf[other] \in Stores
    BY HaveSkipAssumption
  <2>2. StoreOf[other] # st /\ owner[StoreOf[other]] = other
    <3>1. CASE Claims(l)
      BY <1>1, <2>1, <3>1 DEF Claims, Owned, IInv, TypeOK
    <3>2. CASE Unclaimed(l)
      BY <2>1, <3>2, HaveSkipAssumption DEF Unclaimed, MirrorIsKept, IInv, TypeOK
    <3> QED
      BY <3>1, <3>2
  <2>3. bytes'[StoreOf[other]] = bytes[StoreOf[other]]
    BY <2>1, <2>2 DEF Serves, Gathered, IInv, TypeOK
  <2>4. eid'[other] = eid[other]
    BY <1>1 DEF Serves, Committed, IInv, TypeOK
  <2> QED
    BY <2>2, <2>3, <2>4
<1>9. MirrorsTrue'
  <2> SUFFICES ASSUME NEW other \in Tiered, MirrorIsKept(other), owner'[StoreOf[other]] = other,
                      NEW s \in Slots, eid'[other][s] # NoExpert
               PROVE  bytes'[StoreOf[other]][s] = <<other, eid'[other][s]>>
    BY DEF MirrorsTrue
  <2>1. CASE other = l
    <3>1. eid'[l] = wanted
      BY <2>1 DEF Serves, Committed, IInv, TypeOK
    <3> QED
      BY <2>1, <3>1, <1>2
  <2>2. CASE other # l
    <3>1. /\ owner[StoreOf[other]] = other
          /\ bytes'[StoreOf[other]] = bytes[StoreOf[other]]
          /\ eid'[other] = eid[other]
      BY <2>2, <1>1, <1>8
    <3>2. eid[other][s] # NoExpert
      BY <3>1
    <3>3. bytes[StoreOf[other]][s] = <<other, eid[other][s]>>
      BY <3>1, <3>2 DEF IInv, MirrorsTrue
    <3> QED
      BY <3>1, <3>3
  <2> QED
    BY <2>1, <2>2
<1>10. HaveTrue'
  <2> SUFFICES ASSUME NEW any \in Stores, NEW s \in Slots, NEW key \in PinnedKeys,
                      have'[any][s] = Hot[key]
               PROVE  bytes'[any][s] = key
    BY DEF HaveTrue
  <2>1. CASE any = st
    <3>1. src[s] = Hot[key]
      BY <1>1, <2>1 DEF Serves, Committed, IInv, TypeOK
    <3>2. row'[src[s]] = <<l, wanted[s]>>
      BY DEF Serves, Resolves
    <3>3. row'[Hot[key]] = key
      BY <1>3 DEF HotRowsStay, PinnedKeys
    <3>4. MirrorIsKept(l)
      <4>1. key = <<l, wanted[s]>>
        BY <3>1, <3>2, <3>3
      <4> QED
        BY <4>1 DEF PinnedKeys, MirrorIsKept
    <3> QED
      BY <2>1, <3>1, <3>2, <3>3, <3>4, <1>2
  <2>2. CASE any # st
    <3>1. have'[any] = have[any]
      BY <2>2 DEF Serves, Committed, IInv, TypeOK
    <3>2. bytes'[any] = bytes[any]
      BY <2>2 DEF Serves, Gathered, IInv, TypeOK
    <3>3. have[any][s] = Hot[key]
      BY <3>1
    <3> QED
      BY <3>2, <3>3 DEF IInv, HaveTrue
  <2> QED
    BY <2>1, <2>2
<1>11. SlotsHoldTheirExperts'
  <2>1. computing' = l /\ want'[st] = wanted
    BY <1>1 DEF Serves, IInv, TypeOK
  <2> QED
    BY <2>1, <1>2, HaveSkipAssumption DEF SlotsHoldTheirExperts, ReadsItsExperts
<1> QED
  BY <1>3, <1>6, <1>7, <1>9, <1>10, <1>11 DEF IInv

-----------------------------------------------------------------------------
LEMMA InitIInv ==
  ASSUME Init
  PROVE  IInv
<1>1. PICK cold \in [Addresses \ HotAddresses -> Keys \cup {Nothing}] :
        row = [a \in Addresses |-> IF a \in HotAddresses THEN HotKey(a) ELSE cold[a]]
  BY DEF Init
<1>2. ASSUME NEW key \in DOMAIN Hot
      PROVE  Hot[key] \in Addresses /\ Hot[key] \in HotAddresses /\ HotKey(Hot[key]) = key
  BY HaveSkipAssumption DEF HotAddresses, HotKey
<1>3. HotRowsStay
  BY <1>1, <1>2 DEF HotRowsStay
<1>4. row \in [Addresses -> Keys \cup {Nothing}]
  <2>1. \A a \in HotAddresses : HotKey(a) \in Keys
    BY <1>2, HaveSkipAssumption DEF HotAddresses
  <2> QED
    BY <1>1, <2>1
<1>5. TypeOK
  BY <1>4, HaveSkipAssumption DEF Init, TypeOK
<1>6. \A l \in Layers : StoreOf[l] \in Stores /\ owner[StoreOf[l]] # l /\ computing # l
  BY HaveSkipAssumption DEF Init
<1>7. \A st \in Stores, s \in Slots, key \in PinnedKeys : have[st][s] # Hot[key]
  BY <1>2, HaveSkipAssumption DEF Init, PinnedKeys
<1>8. OwnersExist /\ MirrorsTrue /\ SlotsHoldTheirExperts
  BY <1>6, HaveSkipAssumption DEF OwnersExist, MirrorsTrue, SlotsHoldTheirExperts, ReadsItsExperts
<1> QED
  BY <1>3, <1>5, <1>7, <1>8 DEF IInv, HaveTrue

(* The constructor.                                                        *)
LEMMA PrimeIInv ==
  ASSUME IInv, NEW l \in Layers, Prime(l)
  PROVE  IInv'
<1> DEFINE wanted == [s \in Slots |-> FirstExpert]
<1>1. wanted \in [Slots -> Experts]
  BY HaveSkipAssumption
<1>2. PICK src \in [Slots -> Addresses] : Serves(l, wanted, src, HaveClaimed(l))
  BY DEF Prime, Serves
<1>3. Claims(l)
  BY DEF Prime, Claims
<1>4. TakesOver(l)
  BY DEF Prime, TakesOver, IInv, OwnersExist
<1>5. SkipsSoundly(l, wanted, src, HaveClaimed(l))
  BY <1>4, TakeoverSkips
<1> HIDE DEF wanted
<1> QED
  BY <1>1, <1>2, <1>3, <1>5, ServesKeepsIInv

(* A fetch, of either kind of engine.                                      *)
LEMMA FetchIInv ==
  ASSUME IInv, NEW l \in Layers, NEW wanted \in [Slots -> Experts],
         Fetch(l, wanted)
  PROVE  IInv'
<1>1. PICK src \in [Slots -> Addresses] :
        Serves(l, wanted, src, HaveInvalidated(l, wanted))
  BY DEF Fetch, Serves
<1>2. Claims(l)
  BY DEF Fetch, Claims, IInv, TypeOK
<1>3. Resolves(l, wanted, src)
  BY <1>1 DEF Serves
<1>4. MirrorIsKept(l) => SkipsSoundly(l, wanted, src, HaveInvalidated(l, wanted))
  <2>1. CASE l \in Tiered
    BY <2>1, TieredSkips
  <2>2. CASE l \notin Tiered
    <3>1. TakesOver(l) \in BOOLEAN
      BY DEF TakesOver
    <3>2. HaveInvalidated(l, wanted) = HaveUnless(TakesOver(l), l)
      BY <2>2 DEF HaveInvalidated, HaveClaimed
    <3> QED
      BY <1>3, <2>2, <3>1, <3>2, PinnedSkips
  <2> QED
    BY <2>1, <2>2
<1> QED
  BY <1>1, <1>2, <1>4, ServesKeepsIInv

(* A replay: its graph has the claim of when it was captured, and none of  *)
(* the engines that share its store keeps a mirror.                        *)
LEMMA ReplayIInv ==
  ASSUME IInv, NEW l \in Layers, NEW poisons \in BOOLEAN,
         NEW wanted \in [Slots -> Experts], Replay(l, poisons, wanted)
  PROVE  IInv'
<1>1. PICK src \in [Slots -> Addresses] :
        Serves(l, wanted, src, HaveUnless(poisons, l))
  BY DEF Replay, Serves
<1>2. l \in Captured /\ Unclaimed(l)
  BY DEF Replay, Unclaimed, IInv, TypeOK
<1>3. l \in Layers \ Tiered
  BY <1>2, HaveSkipAssumption
<1>4. Resolves(l, wanted, src)
  BY <1>1 DEF Serves
<1>5. SkipsSoundly(l, wanted, src, HaveUnless(poisons, l))
  BY <1>3, <1>4, PinnedSkips
<1> QED
  BY <1>1, <1>2, <1>5, ServesKeepsIInv

(* A capture: the store has an owner that has done nothing with it yet.    *)
LEMMA CaptureIInv ==
  ASSUME IInv, NEW l \in Layers, Capture(l)
  PROVE  IInv'
<1>1. StoreOf[l] \in Stores /\ l \in primed /\ l \in Captured /\ l \notin Tiered
  BY HaveSkipAssumption DEF Capture
<1>2. TypeOK'
  <2>1. owner' \in [Stores -> Layers \cup {NoLayer}]
    BY <1>1 DEF Capture, Owned, IInv, TypeOK
  <2>2. graphs' \in SUBSET (Captured \X BOOLEAN)
    <3>1. TakesOver(l) \in BOOLEAN
      BY DEF TakesOver
    <3>2. <<l, TakesOver(l)>> \in Captured \X BOOLEAN
      BY <1>1, <3>1
    <3> QED
      BY <3>2 DEF Capture, IInv, TypeOK
  <2> QED
    BY <2>1, <2>2 DEF Capture, IInv, TypeOK
<1>3. \A other \in Layers : owner'[StoreOf[other]] = other =>
        other = l \/ owner[StoreOf[other]] = other
  BY <1>1, HaveSkipAssumption DEF Capture, Owned, IInv, TypeOK
<1>4. OwnersExist'
  BY <1>1, <1>3 DEF Capture, IInv, OwnersExist
<1>5. MirrorsTrue'
  BY <1>1, <1>3, HaveSkipAssumption DEF Capture, IInv, MirrorsTrue
<1>6. HotRowsStay' /\ HaveTrue' /\ SlotsHoldTheirExperts'
  BY DEF Capture, IInv, HotRowsStay, HaveTrue, SlotsHoldTheirExperts, ReadsItsExperts
<1> QED
  BY <1>2, <1>4, <1>5, <1>6 DEF IInv

(* A fetch whose read fails leaves the store claimed and its have, if it   *)
(* changed hands, poisoned; nothing computes on it.                        *)
LEMMA FetchRaisesIInv ==
  ASSUME IInv, NEW l \in Layers, NEW wanted \in [Slots -> Experts],
         FetchRaises(l, wanted)
  PROVE  IInv'
<1> DEFINE st == StoreOf[l]
<1>1. st \in Stores /\ Tiered \subseteq Layers /\ l \in Tiered /\ l \in primed
  BY HaveSkipAssumption DEF FetchRaises
<1>2. row' \in [Addresses -> Keys \cup {Nothing}] /\ HotRowsStay'
  BY RowsKept DEF FetchRaises, IInv
<1>3. TypeOK'
  <2>1. HaveClaimed(l) \in [Slots -> Addresses \cup {NoAddress}]
    BY <1>1 DEF HaveClaimed, HaveUnless, IInv, TypeOK
  <2>2. EidClaimed(l) \in [Slots -> Experts \cup {NoExpert}]
    BY DEF EidClaimed, IInv, TypeOK
  <2>3. AddrClaimed(l) \in [Slots -> Addresses \cup {NoAddress}]
    BY DEF AddrClaimed, IInv, TypeOK
  <2> QED
    BY <1>1, <1>2, <2>1, <2>2, <2>3 DEF FetchRaises, Owned, IInv, TypeOK
<1>4. OwnersExist'
  BY <1>1, HaveSkipAssumption DEF FetchRaises, Owned, IInv, TypeOK, OwnersExist
<1>5. \A other \in Layers : other # l /\ owner'[StoreOf[other]] = other =>
        /\ owner[StoreOf[other]] = other
        /\ eid'[other] = eid[other]
  BY <1>1, HaveSkipAssumption DEF FetchRaises, Owned, IInv, TypeOK
<1>6. bytes' = bytes
  BY DEF FetchRaises
<1>7. MirrorsTrue'
  <2> SUFFICES ASSUME NEW other \in Tiered, MirrorIsKept(other), owner'[StoreOf[other]] = other,
                      NEW s \in Slots, eid'[other][s] # NoExpert
               PROVE  bytes'[StoreOf[other]][s] = <<other, eid'[other][s]>>
    BY DEF MirrorsTrue
  <2>1. CASE other = l
    <3>1. eid'[l] = EidClaimed(l)
      BY DEF FetchRaises, IInv, TypeOK
    <3>2. owner[st] = l /\ eid'[l] = eid[l]
      BY <2>1, <3>1 DEF EidClaimed, TakesOver
    <3> QED
      BY <2>1, <3>2, <1>6 DEF IInv, MirrorsTrue
  <2>2. CASE other # l
    <3>1. owner[StoreOf[other]] = other /\ eid'[other] = eid[other]
      BY <2>2, <1>1, <1>5
    <3>2. eid[other][s] # NoExpert
      BY <3>1
    <3>3. bytes[StoreOf[other]][s] = <<other, eid[other][s]>>
      BY <3>1, <3>2 DEF IInv, MirrorsTrue
    <3> QED
      BY <3>1, <3>3, <1>6
  <2> QED
    BY <2>1, <2>2
<1>8. HaveTrue'
  <2> SUFFICES ASSUME NEW any \in Stores, NEW s \in Slots, NEW key \in PinnedKeys,
                      have'[any][s] = Hot[key]
               PROVE  have[any][s] = Hot[key]
    BY <1>6 DEF HaveTrue, IInv
  <2>1. Hot[key] # NoAddress
    BY HaveSkipAssumption DEF PinnedKeys
  <2>2. CASE any = st
    <3>1. have'[st] = HaveClaimed(l)
      BY <1>1 DEF FetchRaises, IInv, TypeOK
    <3> QED
      BY <2>1, <2>2, <3>1 DEF HaveClaimed, HaveUnless
  <2>3. CASE any # st
    BY <2>3 DEF FetchRaises, IInv, TypeOK
  <2> QED
    BY <2>2, <2>3
<1>9. SlotsHoldTheirExperts'
  BY HaveSkipAssumption DEF FetchRaises, SlotsHoldTheirExperts, ReadsItsExperts
<1> QED
  BY <1>2, <1>3, <1>4, <1>7, <1>8, <1>9 DEF IInv

(* The caches at work for somebody else.                                   *)
LEMMA ElsewhereIInv ==
  ASSUME IInv, Elsewhere
  PROVE  IInv'
<1>1. row' \in [Addresses -> Keys \cup {Nothing}] /\ HotRowsStay'
  BY RowsKept DEF Elsewhere, IInv
<1> QED
  BY <1>1 DEF Elsewhere, IInv, TypeOK, OwnersExist, MirrorsTrue, HaveTrue,
         SlotsHoldTheirExperts, ReadsItsExperts

LEMMA NextIInv ==
  ASSUME IInv, [Next]_vars
  PROVE  IInv'
<1>1. ASSUME NEW l \in Layers, Prime(l)
      PROVE  IInv'
  BY <1>1, PrimeIInv
<1>2. ASSUME NEW l \in Layers, NEW wanted \in [Slots -> Experts],
             Fetch(l, wanted) \/ FetchRaises(l, wanted)
      PROVE  IInv'
  BY <1>2, FetchIInv, FetchRaisesIInv
<1>3. ASSUME NEW l \in Layers, Capture(l)
      PROVE  IInv'
  BY <1>3, CaptureIInv
<1>4. ASSUME NEW l \in Layers, NEW wanted \in [Slots -> Experts],
             NEW poisons \in BOOLEAN, Replay(l, poisons, wanted)
      PROVE  IInv'
  BY <1>4, ReplayIInv
<1>5. CASE Elsewhere
  BY <1>5, ElsewhereIInv
<1>6. CASE UNCHANGED vars
  BY <1>6 DEF vars, IInv, TypeOK, HotRowsStay, OwnersExist, MirrorsTrue, HaveTrue,
              SlotsHoldTheirExperts, ReadsItsExperts
<1> QED
  BY <1>1, <1>2, <1>3, <1>4, <1>5, <1>6 DEF Next

(* Whatever the caches do to their rows, and however engines share stores, *)
(* the kernels of an engine read the experts it wants: the skip test of    *)
(* _gather, with _claim, _forget and _invalidate, never keeps a wrong row. *)
(* Of a pinned engine it holds on every store, of a tiered one where no    *)
(* captured engine shares the store.                                       *)
THEOREM SlotsCorrect == Spec => []SlotsHoldTheirExperts
<1>1. Init => IInv
  BY InitIInv
<1>2. IInv /\ [Next]_vars => IInv'
  BY NextIInv
<1>3. IInv => SlotsHoldTheirExperts
  BY DEF IInv
<1> QED
  BY <1>1, <1>2, <1>3, PTL DEF Spec

(* A store changes hands only to engines that exist, and every variable    *)
(* keeps its type.                                                         *)
THEOREM TypeCorrect == Spec => [](TypeOK /\ OwnersExist)
<1>1. Init => IInv
  BY InitIInv
<1>2. IInv /\ [Next]_vars => IInv'
  BY NextIInv
<1>3. IInv => TypeOK /\ OwnersExist
  BY DEF IInv
<1> QED
  BY <1>1, <1>2, <1>3, PTL DEF Spec
=============================================================================
