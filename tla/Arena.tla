------------------------------- MODULE Arena -------------------------------
(***************************************************************************)
(* Conventional memory: the MCB arena of src/dos.cpp (mem_find .. mem_     *)
(* resize) and the Block list of src/dos.h.                                *)
(*                                                                         *)
(* The code keeps a vector of Blocks in address order.  Here the arena is  *)
(* a function from the paragraph of a block's MCB (Block::seg) to the rest *)
(* of the Block: the order of the vector is the order of the domain.  The  *)
(* guest is given segment s + 1 for the block whose MCB is at s, and the   *)
(* block's paragraphs are s+1 .. s+paras.                                  *)
(*                                                                         *)
(* The operators are pure: they map the list before a call to the list     *)
(* after it.  Loops of the code appear as their closed forms; the module   *)
(* ArenaLoops transcribes the loops and MCArenaLoops compares the two.     *)
(***************************************************************************)
EXTENDS Integers, FiniteSets

CONSTANTS
  ArenaMcb,   (* the paragraph of the first MCB (kArenaMcb, 0x0090)        *)
  HeapEnd     (* the first paragraph above the arena (heap_end_, 0x9F00)   *)

MaxWord == 65535

(* Both are 16-bit paragraph numbers and the arena is not empty.           *)
ASSUME ArenaAssumption ==
  /\ ArenaMcb \in Nat
  /\ HeapEnd \in Nat
  /\ ArenaMcb < HeapEnd
  /\ HeapEnd <= MaxWord

Paragraphs == ArenaMcb .. HeapEnd - 1
Word       == 0 .. MaxWord
Block      == [paras : 0 .. HeapEnd, owner : Word, used : BOOLEAN]

(* A list of blocks: MCB paragraphs with what the Block says of each.      *)
IsArena(bs) == DOMAIN bs \subseteq Paragraphs /\ bs \in [DOMAIN bs -> Block]

(* The owner of a free block is never read: it is 0 here.                  *)
FreeBlock(n) == [paras |-> n, owner |-> 0, used |-> FALSE]

(* The first paragraph above block s: where the next MCB is.               *)
End(bs, s) == s + 1 + bs[s].paras

IsFree(bs, s)    == s \in DOMAIN bs /\ ~bs[s].used
IsUsed(bs, s)    == s \in DOMAIN bs /\ bs[s].used
Least(S)         == CHOOSE x \in S : \A y \in S : x <= y

(* mem_find: the MCB of the block the guest calls seg, if there is one.    *)
IsBlock(bs, seg) == seg - 1 \in DOMAIN bs

----------------------------------------------------------------------------
(* Where the run of adjacent free blocks that follows s stops: s itself if *)
(* the next block is used, else the last free block of the run.            *)
RunEnd(bs, s) ==
  Least({e \in {End(bs, t) : t \in {u \in DOMAIN bs : u >= s}} : ~IsFree(bs, e)})

(* mem_coalesce: only free neighbours merge; the first block of a run of   *)
(* free blocks absorbs the others with their MCB paragraphs.               *)
Absorbed(bs) ==
  {s \in DOMAIN bs : IsFree(bs, s) /\ \E p \in DOMAIN bs : IsFree(bs, p) /\ End(bs, p) = s}

(* Mutant: the absorbed MCB's paragraph is lost.                           *)
CoalesceLosesMcb(bs) ==
  [s \in DOMAIN bs \ Absorbed(bs) |->
     IF bs[s].used \/ RunEnd(bs, s) = End(bs, s) THEN bs[s]
     ELSE [bs[s] EXCEPT !.paras = RunEnd(bs, s) - s - 2]]

Coalesce(bs) ==
  [s \in DOMAIN bs \ Absorbed(bs) |->
     IF bs[s].used THEN bs[s] ELSE [bs[s] EXCEPT !.paras = RunEnd(bs, s) - s - 1]]

(* mem_split: carve n paragraphs off the front of block s; the rest pays a *)
(* paragraph for its MCB and is free.                                      *)
Split(bs, s, n) ==
  IF bs[s].paras < n + 1
  THEN bs
  ELSE [t \in DOMAIN bs \union {s + 1 + n} |->
          CASE t = s         -> [bs[s] EXCEPT !.paras = n]
            [] t = s + 1 + n -> FreeBlock(bs[s].paras - n - 1)
            [] OTHER         -> bs[t]]

(* Split unless the block is exactly n paragraphs long.                    *)
Trim(bs, s, n) == IF bs[s].paras > n THEN Split(bs, s, n) ELSE bs

Claim(bs, s, owner) == [bs EXCEPT ![s].used = TRUE, ![s].owner = owner]

----------------------------------------------------------------------------
(* mem_own: claim n paragraphs at seg out of the free block that contains  *)
(* seg; a block somebody owns is left alone.                               *)
Containing(bs, seg) == {s \in DOMAIN bs : s + 1 <= seg /\ seg < End(bs, s)}

(* Mutant: the claim is as long as was asked, whatever the block holds.    *)
OwnAsAsked(bs, seg, n, owner) ==
  IF n = 0 \/ \A s \in Containing(bs, seg) : bs[s].used
  THEN bs
  ELSE LET s      == CHOOSE s \in Containing(bs, seg) : TRUE
           gapped == IF seg > s + 1 THEN Split(bs, s, seg - s - 2) ELSE bs
           cut    == Trim(gapped, seg - 1, n)
       IN  Coalesce(Claim([cut EXCEPT ![seg - 1].paras = n], seg - 1, owner))

Own(bs, seg, n, owner) ==
  IF n = 0 \/ \A s \in Containing(bs, seg) : bs[s].used
  THEN bs
  ELSE LET s      == CHOOSE s \in Containing(bs, seg) : TRUE
           gapped == IF seg > s + 1 THEN Split(bs, s, seg - s - 2) ELSE bs
       IN  Coalesce(Claim(Trim(gapped, seg - 1, n), seg - 1, owner))

(* mem_largest.                                                            *)
FreeSizes(bs) == {bs[s].paras : s \in {t \in DOMAIN bs : ~bs[t].used}}
Largest(bs)   == CHOOSE m \in FreeSizes(bs) \union {0} : \A n \in FreeSizes(bs) : n <= m

(* Mutant: the search does not look at used.                               *)
FittingAny(bs, n) == {s \in DOMAIN bs : bs[s].paras >= n}

(* mem_alloc_at: the first free block that fits, or, with biggest, the     *)
(* first of the largest ones.  The result's seg is 0 when none fits.       *)
AtLeastOne(n)  == IF n = 0 THEN 1 ELSE n
Fitting(bs, n) == {s \in DOMAIN bs : ~bs[s].used /\ bs[s].paras >= n}
Roomiest(bs, S) == {s \in S : \A t \in S : bs[t].paras <= bs[s].paras}

Alloc(bs, request, biggest, owner) ==
  LET n    == AtLeastOne(request)
      fits == Fitting(bs, n)
      pick == Least(IF biggest THEN Roomiest(bs, fits) ELSE fits)
  IN  IF fits = {}
      THEN [seg |-> 0, blocks |-> bs]
      ELSE [seg |-> pick + 1, blocks |-> Claim(Trim(bs, pick, n), pick, owner)]

(* Mutant: a freed block is not merged with its neighbours.                *)
FreeUnmerged(bs, seg) ==
  IF IsUsed(bs, seg - 1)
  THEN [ok |-> TRUE, blocks |-> [bs EXCEPT ![seg - 1] = FreeBlock(@.paras)]]
  ELSE [ok |-> FALSE, blocks |-> bs]

(* mem_free.                                                               *)
Free(bs, seg) ==
  IF IsUsed(bs, seg - 1)
  THEN [ok |-> TRUE, blocks |-> Coalesce([bs EXCEPT ![seg - 1] = FreeBlock(@.paras)])]
  ELSE [ok |-> FALSE, blocks |-> bs]

(* What block s could grow to: the free run above it, MCBs included.  This *)
(* is mem_resize's avail and the figure AH=4Ah reports in BX.              *)
Avail(bs, s) == RunEnd(bs, s) - s - 1

(* Block s takes over every block of that run.                             *)
Extend(bs, s) ==
  [t \in DOMAIN bs \ {u \in DOMAIN bs : s < u /\ u < RunEnd(bs, s)} |->
     IF t = s THEN [bs[s] EXCEPT !.paras = Avail(bs, s)] ELSE bs[t]]

(* mem_resize.  A segment that is no block is claimed first, one paragraph *)
(* of it, and the claim stays when the growth that follows is refused.     *)
Resize(bs, seg, n, owner) ==
  LET s  == seg - 1
      b1 == IF IsBlock(bs, seg) THEN bs ELSE Own(bs, seg, 1, owner)
  IN  CASE s \notin DOMAIN b1 -> [ok |-> FALSE, blocks |-> b1]
        [] s \in DOMAIN b1 /\ n = b1[s].paras -> [ok |-> TRUE, blocks |-> b1]
        [] s \in DOMAIN b1 /\ n < b1[s].paras ->
             [ok |-> TRUE, blocks |-> Coalesce(Split(b1, s, n))]
        [] s \in DOMAIN b1 /\ n > b1[s].paras /\ n > Avail(b1, s) ->
             [ok |-> FALSE, blocks |-> b1]
        [] OTHER -> [ok |-> TRUE, blocks |-> Coalesce(Trim(Extend(b1, s), s, n))]

(* Mutant: the report leaves the free run above the block out.             *)
AttainableAlone(bs, seg) == IF IsBlock(bs, seg) THEN bs[seg - 1].paras ELSE 0

(* What AH=4Ah reports after a refusal.                                    *)
Attainable(bs, seg) == IF IsBlock(bs, seg) THEN Avail(bs, seg - 1) ELSE 0

----------------------------------------------------------------------------
(* What makes a list of blocks an arena.  The first MCB is at ArenaMcb,    *)
(* every block ends where the next begins or at HeapEnd, and no two        *)
(* overlap: the walk from the first MCB visits every block and nothing     *)
(* else.                                                                   *)
StartsAtBottom(bs) == ArenaMcb \in DOMAIN bs
Contiguous(bs)     == \A s \in DOMAIN bs : End(bs, s) \in DOMAIN bs \union {HeapEnd}
Disjoint(bs)       == \A s, t \in DOMAIN bs : s < t => End(bs, s) <= t

IsTiling(bs) ==
  /\ IsArena(bs)
  /\ StartsAtBottom(bs)
  /\ Contiguous(bs)
  /\ Disjoint(bs)

(* No free block has a free neighbour.                                     *)
Merged(bs) == \A s \in DOMAIN bs : ~bs[s].used => ~IsFree(bs, End(bs, s))
=============================================================================
