------------------------------ MODULE DpmiHeap ------------------------------
(***************************************************************************)
(* Extended memory of the DPMI host: alloc_mem and free_mem of             *)
(* src/dpmi.cpp, the INT 31h functions 0500h-0502h over them, and the      *)
(* stack the host takes from the same heap for callbacks (cb_stack).       *)
(*                                                                         *)
(* blocks is blocks_: a vector in the order the entries were made, which   *)
(* is the order first fit looks at them.  An entry that was absorbed by a  *)
(* neighbour stays in the vector with length 0.  Whether the descriptor    *)
(* table has a selector left for the callback stack is seen from here as   *)
(* something that ends at any time (DpmiLdt has the table).  owed is what  *)
(* the client believes it holds and astray what it freed without holding   *)
(* it; no code reads either.                                               *)
(***************************************************************************)
EXTENDS Integers, Sequences

CONSTANTS
  PageSize,    (* 0x1000                                                   *)
  WordLimit,   (* 2^32: lengths and addresses are 32-bit                   *)
  HeapBase,    (* kHeapBase, 0x200000                                      *)
  HeapTop,     (* Memory::kSize, 0x4000000                                 *)
  StackLen,    (* the callback stack's length, 0x2000                      *)
  Lengths,     (* the lengths a client asks for                            *)
  MaxEntries   (* bound on the vector, which never shrinks                 *)

ASSUME HeapAssumption ==
  /\ PageSize \in Nat \ {0}
  /\ HeapBase \in Nat \ {0} /\ HeapTop \in Nat /\ WordLimit \in Nat
  /\ HeapBase <= HeapTop /\ HeapTop < WordLimit
  /\ Lengths \subseteq 0 .. WordLimit - 1
  /\ StackLen \in 0 .. WordLimit - PageSize
  /\ MaxEntries \in Nat

ASSUME PageAssumption ==
  HeapBase % PageSize = 0 /\ HeapTop % PageSize = 0 /\ WordLimit % PageSize = 0

VARIABLES
  blocks,      (* Dpmi::blocks_                                            *)
  heapNext,    (* Dpmi::heap_next_                                         *)
  hostStack,   (* where the last callback stack allocated is: None until   *)
               (* the first callback, 0 when the heap had no room for it   *)
  cb_ss,       (* Dpmi::cb_ss_ is a selector, not 0                        *)
  tableFull,   (* alloc_sel has none left and answers 0                    *)
  owed,        (* what each handle of the client was asked for             *)
  astray       (* the client has freed an address it did not hold          *)

heapVars == <<blocks, heapNext, hostStack, cb_ss, tableFull, owed, astray>>

None  == -1
Entry == [base : HeapBase .. HeapTop, len : 0 .. HeapTop, used : BOOLEAN]

End(b)         == b.base + b.len
Filled(bs)     == {i \in DOMAIN bs : bs[i].len > 0}
FreeAt(bs, a)  == {i \in Filled(bs) : ~bs[i].used /\ bs[i].base = a}
UsedAt(bs, a)  == {i \in DOMAIN bs : bs[i].used /\ bs[i].base = a}
Least(S)       == CHOOSE x \in S : \A y \in S : x <= y

----------------------------------------------------------------------------
(* Mutant: the length is rounded down to whole pages.                      *)
RoundedDown(len) == IF len < PageSize THEN PageSize ELSE len - (len % PageSize)

(* Page granularity, in 32-bit arithmetic; no bytes at all are one page.   *)
Rounded(len) ==
  LET up == (len + PageSize - 1) % WordLimit
  IN  IF up < PageSize THEN PageSize ELSE up - (up % PageSize)

(* Mutant: the search does not look at used.                               *)
FittingAny(bs, n) == {i \in DOMAIN bs : bs[i].len >= n}

Fitting(bs, n) == {i \in DOMAIN bs : ~bs[i].used /\ bs[i].len >= n}

(* Mutant: the rest of the block is listed with the block's whole length.  *)
TakeWhole(bs, i, n) ==
  LET taken == [bs EXCEPT ![i].len = n, ![i].used = TRUE]
  IN  IF bs[i].len = n THEN taken
      ELSE Append(taken, [base |-> bs[i].base + n, len |-> bs[i].len, used |-> FALSE])

(* Entry i serves n bytes; what is left over becomes a new last entry.     *)
Take(bs, i, n) ==
  LET taken == [bs EXCEPT ![i].len = n, ![i].used = TRUE]
  IN  IF bs[i].len = n THEN taken
      ELSE Append(taken, [base |-> bs[i].base + n, len |-> bs[i].len - n, used |-> FALSE])

(* Mutant: only the first byte has to be in the heap.                      *)
RoomToStart(next, n) == next < HeapTop

(* Mutant: the last page is never handed out.                              *)
RoomBelowTop(next, n) == next + n < HeapTop

(* There is room for n more bytes above everything handed out so far.      *)
Room(next, n) == next + n <= HeapTop

(* alloc_mem refuses: no free entry serves the request and no room above.  *)
Refuses(len) == Fitting(blocks, Rounded(len)) = {} /\ ~Room(heapNext, Rounded(len))

(* alloc_mem succeeds with base: first fit, else the heap grows.           *)
AllocMem(len, base) ==
  LET n    == Rounded(len)
      fits == Fitting(blocks, n)
  IN  \/ /\ fits # {}
         /\ LET i == Least(fits)
            IN  /\ blocks[i].len = n \/ Len(blocks) < MaxEntries
                /\ base = blocks[i].base
                /\ blocks' = Take(blocks, i, n)
         /\ UNCHANGED heapNext
      \/ /\ fits = {} /\ Room(heapNext, n)
         /\ Len(blocks) < MaxEntries
         /\ base = heapNext
         /\ heapNext' = heapNext + n
         /\ blocks' = Append(blocks, [base |-> base, len |-> n, used |-> TRUE])

(* Where the run of free blocks that starts at the end of entry f stops.   *)
RunEnd(bs, f) ==
  Least({e \in {End(bs[i]) : i \in Filled(bs)} :
           e >= End(bs[f]) /\ FreeAt(bs, e) = {}})

(* Mutant: the blocks absorbed keep their length.                          *)
AbsorbTwice(bs, f) == [bs EXCEPT ![f].len = RunEnd(bs, f) - bs[f].base]

(* The loop of free_mem: entry f, just freed, absorbs every free block     *)
(* that starts where it ends, as long as there is one.                     *)
Absorb(bs, f) ==
  [i \in DOMAIN bs |->
     CASE i = f -> [bs[f] EXCEPT !.len = RunEnd(bs, f) - bs[f].base]
       [] i # f /\ ~bs[i].used /\ End(bs[f]) <= bs[i].base /\ bs[i].base < RunEnd(bs, f)
            -> [bs[i] EXCEPT !.len = 0]
       [] OTHER -> bs[i]]

----------------------------------------------------------------------------
HeapInit ==
  /\ blocks = <<>>
  /\ heapNext = HeapBase
  /\ hostStack = None
  /\ cb_ss = FALSE
  /\ tableFull = FALSE
  /\ owed = [b \in {} |-> 0]
  /\ astray = FALSE

(* 0501h.  The handle is the address.                                      *)
AllocateBlock(len) ==
  \E base \in HeapBase .. HeapTop :
    /\ AllocMem(len, base)
    /\ owed' = [b \in DOMAIN owed \union {base} |-> IF b = base THEN len ELSE owed[b]]
    /\ UNCHANGED <<hostStack, cb_ss, tableFull, astray>>

(* 0502h.  A handle that is none is ignored; the answer is always success. *)
(* A client may free again what it no longer holds, and the address may    *)
(* have become the host's: free_mem asks only for a used entry.            *)
FreeBlock(handle) ==
  LET fs == UsedAt(blocks, handle)
  IN  /\ fs # {}
      /\ LET f == Least(fs)
         IN  blocks' = Absorb([blocks EXCEPT ![f].used = FALSE], f)
      /\ astray' = (astray \/ handle \notin DOMAIN owed)
      /\ owed' = [b \in DOMAIN owed \ {handle} |-> owed[b]]
      /\ UNCHANGED <<heapNext, hostStack, cb_ss, tableFull>>

(* Mutant: the stack is allocated anew at every callback.                  *)
StackEachTime ==
  /\ \/ \E base \in HeapBase .. HeapTop : AllocMem(StackLen, base) /\ hostStack' = base
     \/ Refuses(StackLen) /\ hostStack' = 0 /\ UNCHANGED <<blocks, heapNext>>
  /\ cb_ss' = ~tableFull
  /\ UNCHANGED <<tableFull, owed, astray>>

(* cb_stack, at a callback while cb_ss_ is 0: the first, and every one     *)
(* after it that finds the table full.  The result of alloc_mem is not     *)
(* looked at, so a full heap gives a stack at linear address 0.            *)
CallbackStack ==
  /\ ~cb_ss
  /\ \/ \E base \in HeapBase .. HeapTop : AllocMem(StackLen, base) /\ hostStack' = base
     \/ Refuses(StackLen) /\ hostStack' = 0 /\ UNCHANGED <<blocks, heapNext>>
  /\ cb_ss' = ~tableFull
  /\ UNCHANGED <<tableFull, owed, astray>>

(* Some call takes the last selector: next_sel_ only grows.                *)
TableFills ==
  /\ ~tableFull
  /\ tableFull' = TRUE
  /\ UNCHANGED <<blocks, heapNext, hostStack, cb_ss, owed, astray>>

HeapNext ==
  \/ \E len \in Lengths : AllocateBlock(len)
  \/ \E handle \in HeapBase .. HeapTop : FreeBlock(handle)
  \/ CallbackStack
  \/ TableFills

HeapSpec == HeapInit /\ [][HeapNext]_heapVars

----------------------------------------------------------------------------
HeapTypeOK ==
  /\ blocks \in Seq(Entry)
  /\ heapNext \in HeapBase .. HeapTop
  /\ hostStack \in {None, 0} \union HeapBase .. HeapTop
  /\ {cb_ss, tableFull, astray} \subseteq BOOLEAN
  /\ DOMAIN owed \subseteq HeapBase .. HeapTop /\ owed \in [DOMAIN owed -> Lengths \union {0}]

Follows(bs, b) == \E j \in Filled(bs) : End(bs[j]) = b
InHeap(bs, next)     == \A i \in DOMAIN bs : End(bs[i]) <= next
Disjoint(bs)         == \A i, j \in Filled(bs) : i # j => End(bs[i]) <= bs[j].base \/ End(bs[j]) <= bs[i].base
Gapless(bs, next)    == /\ \A i \in Filled(bs) : bs[i].base = HeapBase \/ Follows(bs, bs[i].base)
                        /\ next = HeapBase \/ Follows(bs, next)

(* The vector accounts for every byte ever handed out exactly once: its    *)
(* non-empty entries lie below heap_next_, no two overlap, and none is     *)
(* missing in between, through splits, absorptions and dead entries.       *)
HeapTiled ==
  /\ InHeap(blocks, heapNext)
  /\ Disjoint(blocks)
  /\ Gapless(blocks, heapNext)
  /\ \A i \in DOMAIN blocks : blocks[i].used => blocks[i].len > 0

(* A request so close to 2^32 that rounding it up wraps to zero.           *)
Wraps(len) == len + PageSize - 1 >= WordLimit

(* n bytes are what alloc_mem owes a request for len: whole pages with     *)
(* less than a page to spare, and a single page for a request that wraps.  *)
Serves(n, len) ==
  IF len = 0 \/ Wraps(len) THEN n = PageSize ELSE len <= n /\ n < len + PageSize

(* Every block the client holds is a used entry of its size, after any     *)
(* mixture of requests, frees (twice over, and of the host's stack) and    *)
(* callbacks: as long as was asked with less than a page to spare, or one  *)
(* page for the request of nothing and, wrongly, for one within a page of  *)
(* 2^32, which is told that it succeeded.                                  *)
GrantsCoverRequests ==
  \A b \in DOMAIN owed : \E i \in UsedAt(blocks, b) : Serves(blocks[i].len, owed[b])

(* A client that asks for the figure 0500h reports as the largest free     *)
(* block is given it, whatever the order of earlier calls.                 *)
FigureCanBeHad == heapNext < HeapTop => ~Refuses(HeapTop - heapNext)

(* As long as the client frees only what it holds, the callback stack,     *)
(* once it has memory, is never given to it nor merged into a free block   *)
(* beside it, also when it is not the first one.  (A client that frees an  *)
(* address once too often frees the host's stack if it has come to lie     *)
(* there.)                                                                 *)
HostStackApart ==
  ~astray /\ hostStack \notin {None, 0} =>
    /\ hostStack \notin DOMAIN owed
    /\ \E i \in UsedAt(blocks, hostStack) : blocks[i].len >= StackLen

(* Callbacks have found no selector for the stack they allocated.          *)
StacksLost == tableFull /\ ~cb_ss /\ hostStack # None

(* Every used entry is one some handle of the client still frees or the    *)
(* callback stack, whatever is freed twice; only once callbacks find the   *)
(* table full are there others, and each is a stack of theirs.             *)
NothingLeaks ==
  \A i \in DOMAIN blocks : blocks[i].used =>
    \/ blocks[i].base \in DOMAIN owed
    \/ /\ blocks[i].len = Rounded(StackLen)
       /\ blocks[i].base = hostStack \/ StacksLost

(* dpmi.cpp:579 describes the list as "first-fit over a list of blocks,    *)
(* with adjacent free blocks merged".                                      *)
AdjacentFreeMerged ==
  \A i \in Filled(blocks) : ~blocks[i].used => FreeAt(blocks, End(blocks[i])) = {}

(* The list is an allocator: its used entries behave as HeapGrants says.   *)
UsedRanges == {[base |-> blocks[i].base, len |-> blocks[i].len] :
                 i \in {j \in DOMAIN blocks : blocks[j].used}}

Promise == INSTANCE HeapGrants WITH grants <- UsedRanges

GrantsNeverOverlap == Promise!Spec
=============================================================================
