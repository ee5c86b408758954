------------------------------- MODULE RowCache -------------------------------
(***************************************************************************)
(* What a row cache promises the one thread that reads from it: it asks    *)
(* for a set of rows, and either is refused (a read failed) or is granted  *)
(* exactly those rows, which then stay until it is done with them.  Rows   *)
(* come and go one at a time, within the capacity.                         *)
(***************************************************************************)
EXTENDS Naturals, FiniteSets

CONSTANTS Keys, Capacity

VARIABLES
  resident,  \* the rows in the cache
  asked,     \* the rows of the request under way
  granted    \* the request is answered, and its rows are being read

cache == <<resident, asked, granted>>

Init == resident = {} /\ asked = {} /\ ~granted

Ask(ks) ==
  /\ asked = {}
  /\ ks \subseteq Keys /\ ks # {}
  /\ asked' = ks
  /\ UNCHANGED <<resident, granted>>

Grant ==
  /\ asked # {} /\ asked \subseteq resident
  /\ ~granted /\ granted'
  /\ UNCHANGED <<resident, asked>>

\* The reader is done, or the request failed.
Finish ==
  /\ asked # {} /\ asked' = {}
  /\ ~granted'
  /\ UNCHANGED resident

Load(k) ==
  /\ k \notin resident
  /\ Cardinality(resident) < Capacity
  /\ resident' = resident \cup {k}
  /\ UNCHANGED <<asked, granted>>

Drop(k) ==
  /\ k \in resident
  /\ granted => k \notin asked
  /\ resident' = resident \ {k}
  /\ UNCHANGED <<asked, granted>>

Next ==
  \/ \E ks \in SUBSET Keys : Ask(ks)
  \/ Grant \/ Finish
  \/ \E k \in Keys : Load(k) \/ Drop(k)

Spec == Init /\ [][Next]_cache
=============================================================================
