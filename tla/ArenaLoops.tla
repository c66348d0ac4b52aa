----------------------------- MODULE ArenaLoops -----------------------------
(***************************************************************************)
(* The loops of src/dos.cpp over blocks_, transcribed over a sequence of   *)
(* Blocks: the reference the closed forms of module Arena are compared     *)
(* with.  The state is the vector itself; a step is one call a guest can   *)
(* make of the allocator, run through the loops.                           *)
(***************************************************************************)
EXTENDS Arena, Sequences

CONSTANT Owners     (* the PSPs the calls are made for *)

ASSUME OwnersAssumption == Owners \subseteq Word

VARIABLE list       (* std::vector<Block> blocks_ *)

Row(s, b)   == [seg |-> s, paras |-> b.paras, owner |-> b.owner, used |-> b.used]
Cell(r)     == IF r.used THEN [paras |-> r.paras, owner |-> r.owner, used |-> TRUE]
               ELSE FreeBlock(r.paras)
ToArena(v)  == [s \in {v[i].seg : i \in DOMAIN v} |->
                  Cell(v[CHOOSE i \in DOMAIN v : v[i].seg = s])]

InsertAfter(v, i, r) == SubSeq(v, 1, i) \o <<r>> \o SubSeq(v, i + 1, Len(v))
Erase(v, i, k)       == SubSeq(v, 1, i - 1) \o SubSeq(v, k, Len(v))

(* Where a search that stops at the first of these indexes stops.          *)
First(v, at)     == Least(at \union {Len(v) + 1})
At(v, mcb)       == First(v, {i \in DOMAIN v : v[i].seg = mcb})
LoopFind(v, seg) == First(v, {i \in DOMAIN v : v[i].seg + 1 = seg})

(* Mutant: the remainder keeps the paragraph its MCB takes.                *)
LoopSplitGains(v, mcb, n) ==
  LET i == At(v, mcb)
  IN  IF i > Len(v) \/ v[i].paras < n + 1 THEN v
      ELSE InsertAfter([v EXCEPT ![i].paras = n], i,
                       Row(mcb + 1 + n, FreeBlock(v[i].paras - n)))

LoopSplit(v, mcb, n) ==
  LET i == At(v, mcb)
  IN  IF i > Len(v) \/ v[i].paras < n + 1 THEN v
      ELSE InsertAfter([v EXCEPT ![i].paras = n], i,
                       Row(mcb + 1 + n, FreeBlock(v[i].paras - n - 1)))

(* mem_coalesce: i goes on only past a pair that does not merge, so that a *)
(* vector of k blocks takes k - 1 turns.                                   *)
Mergeable(v, i) == ~v[i].used /\ ~v[i-1].used /\ v[i-1].seg + 1 + v[i-1].paras = v[i].seg
MergeAt(v, i)   == Erase([v EXCEPT ![i-1].paras = @ + 1 + v[i].paras], i, i + 1)
CoalesceTurn(c) ==
  IF c.i > Len(c.list) THEN c
  ELSE IF Mergeable(c.list, c.i) THEN [list |-> MergeAt(c.list, c.i), i |-> c.i]
  ELSE [list |-> c.list, i |-> c.i + 1]
LoopCoalesce(v) ==
  LET turn[k \in 0 .. Len(v)] ==
        IF k = 0 THEN [list |-> v, i |-> 2] ELSE CoalesceTurn(turn[k-1])
  IN  turn[Len(v)].list

(* mem_own: split off what lies before seg, then what lies after, and take *)
(* the block at index j.                                                   *)
SplitBefore(v, i, seg) ==
  IF seg > v[i].seg + 1 THEN LoopSplit(v, v[i].seg, seg - 1 - v[i].seg - 1) ELSE v
SplitAfter(v, j, n) == IF v[j].paras > n THEN LoopSplit(v, v[j].seg, n) ELSE v
Taken(v, j, n, owner) == [SplitAfter(v, j, n) EXCEPT ![j].used = TRUE, ![j].owner = owner]
TakeAt(v, j, seg, n, owner) ==
  IF j > Len(v) \/ v[j].seg + 1 # seg THEN v ELSE LoopCoalesce(Taken(v, j, n, owner))
OwnIn(v, i, seg, n, owner) ==
  IF i > Len(v) \/ v[i].used THEN v
  ELSE TakeAt(SplitBefore(v, i, seg), IF seg > v[i].seg + 1 THEN i + 1 ELSE i, seg, n, owner)
LoopOwn(v, seg, n, owner) ==
  IF n = 0 THEN v
  ELSE OwnIn(v, First(v, {i \in DOMAIN v : v[i].seg + 1 <= seg /\ seg < v[i].seg + 1 + v[i].paras}),
             seg, n, owner)

(* mem_largest and the search of mem_alloc_at: what the loop holds after   *)
(* it has looked at block k.                                               *)
Better(r, best) == IF ~r.used /\ r.paras > best THEN r.paras ELSE best
LoopLargest(v) ==
  LET best[k \in 0 .. Len(v)] == IF k = 0 THEN 0 ELSE Better(v[k], best[k-1])
  IN  best[Len(v)]

PickTurn(v, n, biggest, i, pick) ==
  IF v[i].used \/ v[i].paras < n THEN pick
  ELSE IF ~biggest THEN (IF pick > Len(v) THEN i ELSE pick)
  ELSE IF pick > Len(v) THEN i
  ELSE IF v[i].paras > v[pick].paras THEN i
  ELSE pick
LoopPick(v, n, biggest) ==
  LET pick[k \in 0 .. Len(v)] ==
        IF k = 0 THEN Len(v) + 1 ELSE PickTurn(v, n, biggest, k, pick[k-1])
  IN  pick[Len(v)]

AllocIn(v, i, n, owner) ==
  IF i > Len(v) THEN [seg |-> 0, list |-> v]
  ELSE [seg |-> v[i].seg + 1, list |-> Taken(v, i, n, owner)]
LoopAlloc(v, request, biggest, owner) ==
  LET n == IF request = 0 THEN 1 ELSE request
  IN  AllocIn(v, LoopPick(v, n, biggest), n, owner)

LoopFree(v, seg) ==
  LET i == LoopFind(v, seg)
  IN  IF i > Len(v) THEN [ok |-> FALSE, list |-> v]
      ELSE IF ~v[i].used THEN [ok |-> FALSE, list |-> v]
      ELSE [ok |-> TRUE, list |-> LoopCoalesce([v EXCEPT ![i].used = FALSE])]

(* mem_resize, once the block is found or asserted: shrink, or absorb the  *)
(* free run behind it, up to block k, and give back what is left over.     *)
RunStop(v, i) == First(v, {k \in DOMAIN v : k > i /\ v[k].used})
LoopAvail(v, i) ==
  LET avail[k \in 0 .. Len(v)] ==
        IF k <= i THEN v[i].paras ELSE avail[k-1] + 1 + v[k].paras
  IN  avail[RunStop(v, i) - 1]
GrowOver(v, i, n) ==
  IF LoopAvail(v, i) < n THEN [ok |-> FALSE, list |-> v]
  ELSE [ok |-> TRUE,
        list |-> LoopCoalesce(SplitAfter(
                   Erase([v EXCEPT ![i].paras = LoopAvail(v, i)], i + 1, RunStop(v, i)), i, n))]
ResizeAt(v, i, n) ==
  IF i > Len(v) THEN [ok |-> FALSE, list |-> v]
  ELSE IF n < v[i].paras THEN [ok |-> TRUE, list |-> LoopCoalesce(LoopSplit(v, v[i].seg, n))]
  ELSE IF n = v[i].paras THEN [ok |-> TRUE, list |-> v]
  ELSE GrowOver(v, i, n)
ResizeIn(v, seg, n) == ResizeAt(v, LoopFind(v, seg), n)
LoopResize(v, seg, n, owner) ==
  ResizeIn(IF LoopFind(v, seg) > Len(v) THEN LoopOwn(v, seg, 1, owner) ELSE v, seg, n)

----------------------------------------------------------------------------
(* Every list of adjacent blocks that covers ArenaMcb .. HeapEnd - 1, free *)
(* neighbours included: the loops are compared on more lists than the      *)
(* allocator itself produces.                                              *)
ListInit ==
  \E k \in 1 .. HeapEnd - ArenaMcb : \E at \in [1 .. k -> Paragraphs] :
    /\ at[1] = ArenaMcb /\ \A i \in 1 .. k - 1 : at[i] < at[i+1]
    /\ \E busy \in [1 .. k -> BOOLEAN] :
         list = [i \in 1 .. k |->
                   Row(at[i], [paras |-> (IF i < k THEN at[i+1] ELSE HeapEnd) - at[i] - 1,
                               owner |-> 0, used |-> busy[i]])]

Segments == ArenaMcb .. HeapEnd + 1
Sizes    == 0 .. HeapEnd - ArenaMcb + 1

ListNext ==
  \/ \E n \in Sizes, b \in BOOLEAN, o \in Owners : list' = LoopAlloc(list, n, b, o).list
  \/ \E s \in Segments : list' = LoopFree(list, s).list
  \/ \E s \in Segments, n \in Sizes, o \in Owners : list' = LoopResize(list, s, n, o).list
  \/ \E s \in Segments, n \in Sizes, o \in Owners : list' = LoopOwn(list, s, n, o)

ListSpec == ListInit /\ [][ListNext]_list

----------------------------------------------------------------------------
(* The vector stays in address order, each block beginning where the one   *)
(* before it ends: what lets a function of the MCB paragraph stand for it. *)
ListInOrder ==
  \A i \in DOMAIN list :
    list[i].seg + 1 + list[i].paras = (IF i < Len(list) THEN list[i+1].seg ELSE HeapEnd)

(* Every search and update loop of mem_own, mem_alloc_at, mem_free, mem_   *)
(* resize, mem_largest and mem_coalesce computes what the closed form of   *)
(* module Arena says, on every list and for every argument.                *)
LoopsAgree ==
  LET bs == ToArena(list)
  IN  /\ ListInOrder
      /\ ToArena(LoopCoalesce(list)) = Coalesce(bs)
      /\ LoopLargest(list) = Largest(bs)
      /\ \A n \in Sizes, o \in Owners :
           /\ \A b \in BOOLEAN :
                LET r == LoopAlloc(list, n, b, o)
                IN  [seg |-> r.seg, blocks |-> ToArena(r.list)] = Alloc(bs, n, b, o)
           /\ \A s \in Segments :
                LET r == LoopResize(list, s, n, o)
                IN  /\ [ok |-> r.ok, blocks |-> ToArena(r.list)] = Resize(bs, s, n, o)
                    /\ ToArena(LoopOwn(list, s, n, o)) = Own(bs, s, n, o)
      /\ \A s \in Segments :
           LET r == LoopFree(list, s)
           IN  [ok |-> r.ok, blocks |-> ToArena(r.list)] = Free(bs, s)
=============================================================================
