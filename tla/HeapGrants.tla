----------------------------- MODULE HeapGrants -----------------------------
(***************************************************************************)
(* What the DPMI host promises about extended memory, whatever list it     *)
(* keeps: at any time the granted ranges lie in the heap and no two of     *)
(* them share a byte; a range stays granted until its handle is freed.     *)
(* DpmiHeap implements this.                                               *)
(***************************************************************************)
EXTENDS Integers

CONSTANTS
  HeapBase,   (* the first byte of the heap                                *)
  HeapTop     (* the first byte above it                                   *)

VARIABLE grants   (* the ranges in use, a set of [base, len]               *)

Ranges == [base : HeapBase .. HeapTop, len : 1 .. HeapTop]

Within(g)   == g.base + g.len <= HeapTop
Apart(g, h) == g.base + g.len <= h.base \/ h.base + h.len <= g.base

Init == grants = {}

Grant(g) ==
  /\ Within(g)
  /\ \A h \in grants : Apart(g, h)
  /\ grants' = grants \union {g}

Release(g) == grants' = grants \ {g}

Next ==
  /\ grants' # grants
  /\ \/ \E g \in grants : Release(g)
     \/ \E g \in Ranges : Grant(g)

Spec == Init /\ [][Next]_grants
=============================================================================
