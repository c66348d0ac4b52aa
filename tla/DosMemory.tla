----------------------------- MODULE DosMemory -----------------------------
(***************************************************************************)
(* Conventional memory as the guest sees it: the INT 21h memory calls, the *)
(* MCB chain published into guest memory, EXEC and termination, and the    *)
(* DPMI host's allocations out of the same arena (src/dos.cpp, src/dos.h,  *)
(* src/dpmi.cpp, and the start-up order of src/main.cpp).                  *)
(*                                                                         *)
(* One guest instruction at a time reaches a handler, so an action is one  *)
(* whole call.  A child runs in a step loop nested in its parent's EXEC:   *)
(* frames holds what each suspended exec() keeps in its locals.  Contents  *)
(* of memory other than the MCBs are left out.                             *)
(***************************************************************************)
EXTENDS Arena, Sequences

CONSTANTS
  DosSeg, DosParas,   (* the DPMI entry points and list-of-lists (0xE0, 26) *)
  BootEnvParas,       (* size of the first program's environment block      *)
  FirstPsp,           (* where main() loads the first program (0x100)       *)
  ScratchParas,       (* the reflection stack's size (0x20)                 *)
  CaseMapPara,        (* the paragraph AH=38h writes to (0090:0100 = 0xA0)  *)
  Segments,           (* segments a guest passes                            *)
  Requests,           (* paragraph counts a guest asks for                  *)
  EnvSizes,           (* sizes a child's environment needs                  *)
  MaxDepth            (* bound: how deep the model nests EXEC               *)

DosOwner == 8         \* the MCB convention for memory of DOS's own

ASSUME DosAssumption ==
  /\ DosOwner < ArenaMcb          \* no PSP is at 8
  /\ DosSeg \in Nat /\ DosParas \in Nat
  /\ BootEnvParas \in Nat
  /\ FirstPsp \in Word /\ FirstPsp > 0 /\ FirstPsp < HeapEnd
  /\ ScratchParas \in Nat
  /\ CaseMapPara \in Nat
  /\ Segments \subseteq Word
  /\ Requests \subseteq Word
  /\ EnvSizes \subseteq Word
  /\ MaxDepth \in Nat

(* The first program's environment fits between the first MCB and DOS's    *)
(* own block (78 paragraphs in the code), and the program is loaded above  *)
(* both: main() puts its PSP at a fixed segment and asks for no memory.    *)
ASSUME BootAssumption ==
  /\ 0 < DosParas
  /\ AtLeastOne(BootEnvParas) <= DosSeg - ArenaMcb - 2
  /\ DosSeg + DosParas < FirstPsp

VARIABLES
  blocks,       (* blocks_                                                 *)
  chain,        (* the MCBs guest memory holds, by paragraph of the arena  *)
  psp_seg,      (* the process allocations are charged to                  *)
  env_seg,      (* the running program's environment                       *)
  frames,       (* the suspended exec() calls, outermost first             *)
  scratch_ss,   (* Dpmi::scratch_ss_                                       *)
  halted        (* Cpu::halted                                             *)

vars == <<blocks, chain, psp_seg, env_seg, frames, scratch_ss, halted>>

Segment == 0 .. HeapEnd
Mcb     == [sig : {"M", "Z", "none"}, owner : Word, paras : 0 .. HeapEnd]
NoMcb   == [sig |-> "none", owner |-> 0, paras |-> 0]
IsFrame(f) == IsArena(f.blocks) /\ f.psp \in Word /\ f.env \in Segment

----------------------------------------------------------------------------
(* mem_publish: an MCB for every block.  Any other paragraph is inside      *)
(* somebody's block, so what it holds is not followed: NoMcb.              *)
McbOf(bs, s) ==
  [sig   |-> IF \A t \in DOMAIN bs : t <= s THEN "Z" ELSE "M",
   owner |-> IF bs[s].used THEN bs[s].owner ELSE 0,
   paras |-> bs[s].paras]

Publish(bs) == [s \in Paragraphs |-> IF s \in DOMAIN bs THEN McbOf(bs, s) ELSE NoMcb]

(* The mem_* calls end in mem_publish() whenever they changed the list.    *)
Update(bs) ==
  /\ blocks' = bs
  /\ chain' = IF bs = blocks THEN chain ELSE Publish(bs)

----------------------------------------------------------------------------
(* Start-up: the constructor gives DOS its own block; main() allocates the *)
(* environment while psp_seg is still 0, loads the program at FirstPsp and *)
(* init_psp() claims everything above it.                                  *)
DosArena ==
  LET whole == [s \in {ArenaMcb} |-> FreeBlock(HeapEnd - ArenaMcb - 1)]
      owned == Own(whole, DosSeg, DosParas, 0)
  IN  [s \in DOMAIN owned |->
         IF s + 1 = DosSeg THEN [owned[s] EXCEPT !.owner = DosOwner] ELSE owned[s]]

BootEnv == Alloc(DosArena, BootEnvParas, FALSE, 0)

(* init_psp(): a block already at psp changes hands; else psp claims all   *)
(* memory above it.                                                        *)
GiveTo(bs, psp) == [s \in DOMAIN bs |->
                      IF s + 1 = psp THEN [bs[s] EXCEPT !.owner = psp] ELSE bs[s]]
InitPsp(bs, psp, owner) ==
  GiveTo(IF IsUsed(bs, psp - 1) THEN bs ELSE Own(bs, psp, HeapEnd - psp, owner), psp)

Init ==
  /\ blocks = InitPsp(BootEnv.blocks, FirstPsp, FirstPsp)
  /\ chain = Publish(blocks)
  /\ psp_seg = FirstPsp
  /\ env_seg = BootEnv.seg
  /\ frames = <<>>
  /\ scratch_ss = 0
  /\ halted = FALSE

----------------------------------------------------------------------------
(* AH=48h, and DPMI function 0100h through alloc_dos.                      *)
AllocateMemory(n) ==
  /\ ~halted
  /\ Update(Alloc(blocks, n, FALSE, psp_seg).blocks)
  /\ UNCHANGED <<psp_seg, env_seg, frames, scratch_ss, halted>>

(* AH=49h.                                                                 *)
FreeMemory(seg) ==
  /\ ~halted
  /\ Update(Free(blocks, seg).blocks)
  /\ UNCHANGED <<psp_seg, env_seg, frames, scratch_ss, halted>>

(* Mutant: the shrinking path returns before mem_publish().                *)
ResizeUnpublished(seg, n) ==
  /\ ~halted
  /\ blocks' = Resize(blocks, seg, n, psp_seg).blocks
  /\ UNCHANGED <<chain, psp_seg, env_seg, frames, scratch_ss, halted>>

(* AH=4Ah.                                                                 *)
ResizeMemory(seg, n) ==
  /\ ~halted
  /\ Update(Resize(blocks, seg, n, psp_seg).blocks)
  /\ UNCHANGED <<psp_seg, env_seg, frames, scratch_ss, halted>>

(* AH=4B03h: an overlay of n paragraphs lands at seg, and is owned.        *)
LoadOverlay(seg, n) ==
  /\ ~halted
  /\ Update(Own(blocks, seg, n, psp_seg))
  /\ UNCHANGED <<psp_seg, env_seg, frames, scratch_ss, halted>>

(* AH=50h.                                                                 *)
SetPsp(psp) ==
  /\ ~halted
  /\ psp_seg' = psp
  /\ UNCHANGED <<blocks, chain, env_seg, frames, scratch_ss, halted>>

(* AH=38h writes its case-map routine over one paragraph of the arena.     *)
GetCountryInfo ==
  /\ ~halted
  /\ chain' = [s \in Paragraphs |-> IF s = CaseMapPara THEN NoMcb ELSE chain[s]]
  /\ UNCHANGED <<blocks, psp_seg, env_seg, frames, scratch_ss, halted>>

(* scratch_stack_seg(): the first reflected interrupt allocates the stack; *)
(* while there is no room, each one tries again.                           *)
ReflectInterrupt ==
  /\ ~halted
  /\ scratch_ss = 0
  /\ LET r == Alloc(blocks, ScratchParas, FALSE, psp_seg)
     IN  scratch_ss' = r.seg /\ Update(r.blocks)
  /\ UNCHANGED <<psp_seg, env_seg, frames, halted>>

----------------------------------------------------------------------------
(* EXEC.  make_child_env() copies into a block carved from the largest     *)
(* free one, or shares the source when there is no room; stamp_env_path()  *)
(* keeps the caller's block if it is not the caller's own environment and  *)
(* has room.                                                               *)
(* Mutant: the environment is copied into memory it does not claim.        *)
EnvUnclaimed(source, need) ==
  LET r == Alloc(blocks, need, TRUE, psp_seg)
  IN  [env |-> IF r.seg = 0 THEN source ELSE r.seg, blocks |-> blocks]

MakeChildEnv(source, need) ==
  LET r == Alloc(blocks, need, TRUE, psp_seg)
  IN  [env |-> IF r.seg = 0 THEN source ELSE r.seg, blocks |-> r.blocks]

Room(seg) == IF IsBlock(blocks, seg) THEN blocks[seg - 1].paras ELSE 0

ChildEnv(given, need) ==
  CASE given = 0 -> MakeChildEnv(env_seg, need)
    [] given # 0 /\ (given = env_seg \/ need > Room(given)) -> MakeChildEnv(given, need)
    [] OTHER -> [env |-> given, blocks |-> blocks]

(* Mutant: a child of fixed size.                                          *)
FixedChildBlock(bs) == Alloc(bs, 2, FALSE, psp_seg)

(* The child is given the largest free block, after its environment.       *)
ChildBlock(bs) == Alloc(bs, Largest(bs), FALSE, psp_seg)

(* No block for the child: error 8, and what the environment took stays.   *)
ExecNoMemory(given, need) ==
  LET e == ChildEnv(given, need)
  IN  /\ ~halted
      /\ ChildBlock(e.blocks).seg = 0
      /\ Update(e.blocks)
      /\ UNCHANGED <<psp_seg, env_seg, frames, scratch_ss, halted>>

(* load_program() refuses the image: the saved list comes back, the chain  *)
(* published for the child stays in guest memory.                          *)
ExecLoadFails(given, need) ==
  LET c == ChildBlock(ChildEnv(given, need).blocks)
  IN  /\ ~halted
      /\ c.seg # 0
      /\ chain' = Publish(c.blocks)
      /\ UNCHANGED <<blocks, psp_seg, env_seg, frames, scratch_ss, halted>>

(* The child starts.  init_psp() changes the owner after the last publish. *)
ExecChild(given, need) ==
  LET e == ChildEnv(given, need)
      c == ChildBlock(e.blocks)
  IN  /\ ~halted
      /\ Len(frames) < MaxDepth
      /\ c.seg # 0
      /\ frames' = Append(frames, [blocks |-> blocks, psp |-> psp_seg, env |-> env_seg])
      /\ chain' = Publish(c.blocks)
      /\ blocks' = InitPsp(c.blocks, c.seg, psp_seg)
      /\ psp_seg' = c.seg
      /\ env_seg' = e.env
      /\ UNCHANGED <<scratch_ss, halted>>

(* Back in the exec() of frame f: the parent's list, PSP and environment.  *)
(* Guest memory is not written: it holds the chain the child left.         *)
Resume(f) ==
  /\ blocks' = f.blocks
  /\ psp_seg' = f.psp
  /\ env_seg' = f.env
  /\ UNCHANGED chain

(* AH=4Ch in a child ends the child only ...                               *)
TerminateChild ==
  /\ ~halted
  /\ frames # <<>>
  /\ Resume(frames[Len(frames)])
  /\ frames' = SubSeq(frames, 1, Len(frames) - 1)
  /\ UNCHANGED <<scratch_ss, halted>>

(* ... and in the first program stops the CPU.                             *)
TerminateFirst ==
  /\ ~halted
  /\ frames = <<>>
  /\ halted' = TRUE
  /\ UNCHANGED <<blocks, chain, psp_seg, env_seg, frames, scratch_ss>>

(* HLT at any depth leaves every nested step loop, innermost first.        *)
Halt ==
  /\ ~halted
  /\ frames # <<>>
  /\ Resume(frames[1])
  /\ frames' = <<>>
  /\ halted' = TRUE
  /\ UNCHANGED scratch_ss

----------------------------------------------------------------------------
LivePsps == {psp_seg} \union {frames[i].psp : i \in DOMAIN frames}
OwnBlocks == {s + 1 : s \in {t \in DOMAIN blocks : blocks[t].used /\ blocks[t].owner = psp_seg}}
EnvArgs   == {0, env_seg} \union OwnBlocks

(* Calls that take no segment from the guest.                              *)
SystemNext ==
  \/ \E n \in Requests : AllocateMemory(n)
  \/ GetCountryInfo
  \/ ReflectInterrupt
  \/ \E given \in EnvArgs, need \in EnvSizes :
       \/ ExecNoMemory(given, need)
       \/ ExecLoadFails(given, need)
       \/ ExecChild(given, need)
  \/ TerminateChild
  \/ TerminateFirst
  \/ Halt

(* Any guest: segments need not be blocks, nor the caller's.               *)
Next ==
  \/ SystemNext
  \/ \E psp \in LivePsps : SetPsp(psp)
  \/ \E seg \in Segments :
       \/ FreeMemory(seg)
       \/ \E n \in Requests : ResizeMemory(seg, n) \/ LoadOverlay(seg, n)

Spec == Init /\ [][Next]_vars

(* A guest that frees and resizes blocks it was given, keeps the one it    *)
(* runs in, and asserts or loads over nothing but memory that is free or   *)
(* its own.  It was not given the reflection stack and cannot name it.     *)
Assertable(seg) ==
  \A s \in Containing(blocks, seg) \union (DOMAIN blocks \intersect {seg - 1}) :
    ~blocks[s].used \/ blocks[s].owner = psp_seg

PoliteNext ==
  \/ SystemNext
  \/ \E seg \in OwnBlocks \ {psp_seg, scratch_ss} : FreeMemory(seg)
  \/ \E seg \in Segments, n \in Requests :
       /\ Assertable(seg) /\ seg # scratch_ss
       /\ ResizeMemory(seg, n) \/ LoadOverlay(seg, n)

PoliteSpec == Init /\ [][PoliteNext]_vars

----------------------------------------------------------------------------
(* The types of the allocator's, the process's and the host's fields.      *)
TypeOK ==
  /\ IsArena(blocks)
  /\ chain \in [Paragraphs -> Mcb]
  /\ psp_seg \in Word
  /\ env_seg \in Segment
  /\ Len(frames) <= MaxDepth /\ \A i \in DOMAIN frames : IsFrame(frames[i])
  /\ scratch_ss \in Segment
  /\ halted \in BOOLEAN

(* Whatever segments a guest passes to AH=48h/49h/4Ah/4B03h and however    *)
(* deep it EXECs, the live list and every list an exec() will bring back   *)
(* tile the arena: no gap, no overlap, each MCB where the last block ends. *)
ArenaTiled == /\ IsTiling(blocks)
              /\ \A i \in DOMAIN frames : IsTiling(frames[i].blocks)

(* mem_free, mem_own and mem_resize leave no two free blocks side by side, *)
(* so a request that fits the free memory of a hole fits its one block.    *)
FreeBlocksMerged == /\ Merged(blocks)
                    /\ \A i \in DOMAIN frames : Merged(frames[i].blocks)

(* A refusal of AH=48h or AH=4Ah reports in BX what can really be had: less *)
(* than was asked for, the retry with that figure succeeds, and asking for *)
(* one paragraph more fails.  W32RUN sizes itself this way.                *)
TruthfulRefusal ==
  /\ \A n \in Requests :
       Alloc(blocks, n, FALSE, psp_seg).seg = 0 =>
         LET most == Largest(blocks)
         IN  /\ most < AtLeastOne(n)
             /\ most > 0 => Alloc(blocks, most, FALSE, psp_seg).seg # 0
             /\ Alloc(blocks, most + 1, FALSE, psp_seg).seg = 0
  /\ \A n \in Requests, seg \in Segments :
       LET r == Resize(blocks, seg, n, psp_seg)
           got == Attainable(r.blocks, seg)
           again == Resize(r.blocks, seg, got, psp_seg)
       IN  ~r.ok /\ got > 0 =>
             /\ got < n
             /\ again.ok /\ again.blocks[seg - 1].paras = got
             /\ ~Resize(r.blocks, seg, got + 1, psp_seg).ok

(* When a child starts, the ceiling init_psp() writes at PSP:02 is what    *)
(* AH=4Ah would report for its block.                                      *)
CeilingAgrees ==
  [][Len(frames') > Len(frames) =>
       /\ IsUsed(blocks', psp_seg' - 1)
       /\ Attainable(blocks', psp_seg') = blocks'[psp_seg' - 1].paras]_vars

----------------------------------------------------------------------------
(* Properties of polite guests.                                            *)

(* While a child runs, every block its ancestors had allocated stays        *)
(* allocated, where it was and as long as it was: a child that asks for    *)
(* and releases everything cannot reach its parent's memory, nor DOS's own *)
(* block, where the DPMI entry points and the list of lists are.           *)
AncestorsKeepMemory ==
  /\ IsUsed(blocks, DosSeg - 1)
  /\ blocks[DosSeg - 1] = [paras |-> DosParas, owner |-> DosOwner, used |-> TRUE]
  /\ \A i \in DOMAIN frames :
       \A s \in DOMAIN frames[i].blocks :
         frames[i].blocks[s].used =>
           IsUsed(blocks, s) /\ blocks[s].paras = frames[i].blocks[s].paras

(* exec() brings back a list it does not publish, so guest memory may hold *)
(* the chain of a child that has ended.  Even so, and whatever calls come   *)
(* between, a program that walks the chain is led from MCB to MCB to the    *)
(* top of the arena, and finds every allocated block with its length and    *)
(* owner: stale entries only ever show free memory as taken.  The two      *)
(* exceptions: the paragraph AH=38h wrote over, and a new child's own      *)
(* block, shown as its parent's until the next publish.                    *)
Overwritten(ch, s) == s = CaseMapPara /\ ch[s] = NoMcb

LeadsOn(ch, s) ==
  LET next == s + ch[s].paras + 1
  IN  /\ ch[s].sig = "M" => /\ next \in Paragraphs
                            /\ ch[next].sig # "none" \/ Overwritten(ch, next)
      /\ ch[s].sig = "Z" => next = HeapEnd

LeadsToTop(ch) == /\ ch[ArenaMcb].sig # "none" \/ Overwritten(ch, ArenaMcb)
                  /\ \A s \in Paragraphs : LeadsOn(ch, s)

ShownOwners(s) == {blocks[s].owner} \union
                  (IF s + 1 = psp_seg /\ frames # <<>> THEN {frames[Len(frames)].psp} ELSE {})

ShowsBlock(s) == /\ chain[s].sig # "none"
                 /\ chain[s].paras = blocks[s].paras
                 /\ chain[s].owner \in ShownOwners(s)

ChainShowsAllocated ==
  /\ LeadsToTop(chain)
  /\ \A s \in DOMAIN blocks : blocks[s].used => ShowsBlock(s) \/ Overwritten(chain, s)

(* The running program's environment is a block that stays allocated and   *)
(* is not the program's own, so growing into all it owns cannot reach it.  *)
EnvOutsideProgram ==
  env_seg # 0 => IsUsed(blocks, env_seg - 1) /\ env_seg # psp_seg

----------------------------------------------------------------------------
(* Statements of the sources the code does not keep.                       *)

(* dpmi.h: alloc_dos exists because two allocators over one heap would     *)
(* overlap; the reflection stack is memory the arena knows as allocated.   *)
ScratchStackReserved == scratch_ss # 0 => IsUsed(blocks, scratch_ss - 1)
=============================================================================
