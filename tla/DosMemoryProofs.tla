--------------------------- MODULE DosMemoryProofs ---------------------------
(***************************************************************************)
(* What a guest cannot do to the arena, for every arena, every set of      *)
(* segments and requests and every depth of EXEC: theorems about the       *)
(* specification DosMemory!Spec.  The inductive invariant IInv ties the    *)
(* live list and the lists that suspended exec() calls will bring back.    *)
(***************************************************************************)
EXTENDS DosMemory, ArenaProofs

(* A list that is an arena whose free blocks are merged.                   *)
Proper(bs) == IsTiling(bs) /\ Merged(bs)

(* The locals of a suspended exec().                                       *)
ProperArenas == {bs \in UNION {[S -> Block] : S \in SUBSET Paragraphs} : Proper(bs)}
SavedFrame   == [blocks : ProperArenas, psp : Word, env : Segment]

IInv ==
  /\ Proper(blocks)
  /\ chain \in [Paragraphs -> Mcb]
  /\ psp_seg \in Word
  /\ env_seg \in Segment
  /\ frames \in Seq(SavedFrame)
  /\ Len(frames) <= MaxDepth
  /\ scratch_ss \in Segment
  /\ halted \in BOOLEAN

----------------------------------------------------------------------------
(* The set of saved lists has every proper arena and nothing else.         *)
LEMMA ProperArenasFact ==
  ASSUME NEW bs
  PROVE  bs \in ProperArenas <=> Proper(bs)
<1>1. ASSUME Proper(bs) PROVE bs \in ProperArenas
  <2>1. DOMAIN bs \in SUBSET Paragraphs /\ bs \in [DOMAIN bs -> Block]
    BY <1>1 DEF Proper, IsTiling, IsArena
  <2> QED BY <1>1, <2>1 DEF ProperArenas
<1> QED BY <1>1 DEF ProperArenas

(* The sizes of the arena are 16-bit numbers, as are the guest's.          *)
LEMMA Numbers ==
  /\ ArenaMcb \in Nat /\ HeapEnd \in Nat /\ HeapEnd \in Word /\ Segment \subseteq Word
  /\ Word \subseteq Nat /\ DosOwner \in Word /\ 0 \in Word /\ 0 \in Segment
<1>1. ArenaMcb \in Nat /\ HeapEnd \in Nat /\ HeapEnd <= MaxWord
  BY ArenaAssumption
<1>2. MaxWord \in Nat /\ DosOwner \in Nat /\ DosOwner <= MaxWord
  BY DEF MaxWord, DosOwner
<1>3. HeapEnd \in Word /\ DosOwner \in Word /\ 0 \in Word
  BY <1>1, <1>2 DEF Word
<1>4. ASSUME NEW w \in Word PROVE w \in Nat
  BY <1>2 DEF Word
<1>5. ASSUME NEW w \in Segment PROVE w \in Word
  BY <1>1, <1>2 DEF Word, Segment
<1>6. 0 \in Segment
  BY <1>1 DEF Segment
<1> QED BY <1>1, <1>3, <1>4, <1>5, <1>6

(* mem_own, mem_alloc_at, mem_free and mem_resize keep a list proper.      *)
LEMMA CallsKeepProper ==
  ASSUME NEW bs, Proper(bs), NEW seg \in Nat, NEW n \in Nat, NEW owner \in Word,
         NEW biggest \in BOOLEAN
  PROVE  /\ Proper(Own(bs, seg, n, owner))
         /\ Proper(Alloc(bs, n, biggest, owner).blocks)
         /\ Alloc(bs, n, biggest, owner).seg \in Segment
         /\ Proper(Free(bs, seg).blocks)
         /\ Proper(Resize(bs, seg, n, owner).blocks)
<1>1. Proper(Own(bs, seg, n, owner))
  BY OwnTiles DEF Proper
<1>2. Proper(Alloc(bs, n, biggest, owner).blocks)
  BY AllocTiles DEF Proper
<1>3. Alloc(bs, n, biggest, owner).seg \in Segment
  BY AllocTiles DEF Proper, Segment
<1>4. Proper(Free(bs, seg).blocks)
  BY FreeTiles DEF Proper
<1>5. Proper(Resize(bs, seg, n, owner).blocks)
  BY ResizeTiles DEF Proper
<1> QED BY <1>1, <1>2, <1>3, <1>4, <1>5

(* A block that changes hands.                                             *)
LEMMA GiveToProper ==
  ASSUME NEW bs, Proper(bs), NEW psp \in Word
  PROVE  Proper(GiveTo(bs, psp))
<1> DEFINE cs == GiveTo(bs, psp)
<1>1. bs \in [DOMAIN bs -> Block] /\ IsTiling(bs)
  BY DEF Proper, IsTiling, IsArena
<1>2. DOMAIN cs = DOMAIN bs
  BY DEF GiveTo
<1>3. \A t \in DOMAIN bs : /\ cs[t] \in Block
                           /\ cs[t].paras = bs[t].paras /\ cs[t].used = bs[t].used
  BY <1>1 DEF GiveTo, Block
<1>4. cs \in [DOMAIN bs -> Block]
  BY <1>3 DEF GiveTo
<1> HIDE DEF cs
<1>5. IsTiling(cs) /\ \A t \in DOMAIN bs : End(cs, t) = End(bs, t)
  BY <1>1, <1>2, <1>3, <1>4, RelabelTiles
<1>6. Merged(cs)
  BY <1>2, <1>3, <1>5 DEF Proper, Merged, IsFree
<1> QED BY <1>5, <1>6 DEF Proper, cs

(* init_psp.                                                               *)
LEMMA InitPspProper ==
  ASSUME NEW bs, Proper(bs), NEW psp \in Segment, NEW owner \in Word
  PROVE  Proper(InitPsp(bs, psp, owner))
<1>1. psp \in Nat /\ psp \in Word /\ HeapEnd - psp \in Nat
  BY Numbers DEF Segment
<1>2. Proper(Own(bs, psp, HeapEnd - psp, owner))
  BY <1>1, CallsKeepProper
<1>3. Proper(IF IsUsed(bs, psp - 1) THEN bs ELSE Own(bs, psp, HeapEnd - psp, owner))
  BY <1>2
<1> QED BY <1>1, <1>3, GiveToProper DEF InitPsp

(* mem_largest answers the size of the largest free block, or zero.        *)
LEMMA LargestIsSize ==
  ASSUME NEW bs, IsTiling(bs)
  PROVE  /\ Largest(bs) \in Nat
         /\ Largest(bs) \in FreeSizes(bs) \union {0}
         /\ \A n \in FreeSizes(bs) : n <= Largest(bs)
<1> DEFINE S     == FreeSizes(bs) \union {0}
           lacks == {HeapEnd - n : n \in S}
<1>1. \A n \in S : n \in Nat /\ n <= HeapEnd
  BY BlockFacts, Numbers DEF FreeSizes, Block
<1>2. lacks \subseteq Nat /\ lacks # {}
  BY <1>1, Numbers
<1>3. Least(lacks) \in lacks /\ \A y \in lacks : Least(lacks) <= y
  BY <1>2, LeastExists
<1>4. PICK m \in S : Least(lacks) = HeapEnd - m
  BY <1>3
<1>5. \A n \in S : HeapEnd - m <= HeapEnd - n
  BY <1>3, <1>4
<1>6. m \in S /\ \A n \in FreeSizes(bs) : n <= m
  BY <1>1, <1>5, Numbers
<1>7. Largest(bs) \in S /\ \A n \in FreeSizes(bs) : n <= Largest(bs)
  BY <1>6 DEF Largest
<1> QED BY <1>1, <1>7

(* The MCBs written for a proper list, and what remains of them.           *)
LEMMA PublishType ==
  ASSUME NEW bs, Proper(bs)
  PROVE  Publish(bs) \in [Paragraphs -> Mcb]
<1>1. NoMcb \in Mcb
  BY Numbers DEF NoMcb, Mcb
<1>2. ASSUME NEW s \in DOMAIN bs PROVE McbOf(bs, s) \in Mcb
  <2>1. bs[s].paras \in 0 .. HeapEnd /\ bs[s].owner \in Word
    BY BlockFacts DEF Proper, Block
  <2> QED BY <2>1, Numbers DEF McbOf, Mcb
<1> QED BY <1>1, <1>2 DEF Publish

----------------------------------------------------------------------------
(* Start-up.                                                               *)
LEMMA DosArenaProper == Proper(DosArena)
<1> DEFINE whole == [s \in {ArenaMcb} |-> FreeBlock(HeapEnd - ArenaMcb - 1)]
           owned == Own(whole, DosSeg, DosParas, 0)
<1>1. HeapEnd - ArenaMcb - 1 \in 0 .. HeapEnd
  BY ArenaAssumption
<1>2. /\ DOMAIN whole = {ArenaMcb}
      /\ whole[ArenaMcb] \in Block /\ ~whole[ArenaMcb].used
      /\ whole[ArenaMcb].paras = HeapEnd - ArenaMcb - 1
  BY <1>1, FreeBlockType
<1>3. End(whole, ArenaMcb) = HeapEnd
  BY <1>2, ArenaAssumption DEF End
<1>4. IsArena(whole)
  <2>1. ArenaMcb \in Paragraphs
    BY ArenaAssumption DEF Paragraphs
  <2>2. whole \in [{ArenaMcb} -> Block]
    BY <1>1, FreeBlockType
  <2> QED BY <1>2, <2>1, <2>2 DEF IsArena
<1> HIDE DEF whole
<1>5. IsTiling(whole) /\ Merged(whole)
  <2>1. StartsAtBottom(whole) /\ Contiguous(whole)
    BY <1>2, <1>3 DEF StartsAtBottom, Contiguous
  <2>2. Disjoint(whole)
    BY <1>2, ArenaAssumption DEF Disjoint
  <2>3. Merged(whole)
    BY <1>2, <1>3, ArenaAssumption DEF Merged, IsFree
  <2> QED BY <1>4, <2>1, <2>2, <2>3 DEF IsTiling
<1>6. Proper(owned)
  <2>1. Proper(whole)
    BY <1>5 DEF Proper
  <2>2. DosSeg \in Nat /\ DosParas \in Nat
    BY DosAssumption
  <2> QED BY <2>1, <2>2, CallsKeepProper, Numbers
<1> QED
  <2> DEFINE ds == DosArena
  <2>1. owned \in [DOMAIN owned -> Block] /\ IsTiling(owned)
    BY <1>6 DEF Proper, IsTiling, IsArena
  <2>2. ds = [s \in DOMAIN owned |->
               IF s + 1 = DosSeg THEN [owned[s] EXCEPT !.owner = DosOwner] ELSE owned[s]]
    BY DEF DosArena, whole
  <2> HIDE DEF owned, ds
  <2>3. DOMAIN ds = DOMAIN owned
    BY <2>2
  <2>4. \A t \in DOMAIN owned : /\ ds[t] \in Block
                                /\ ds[t].paras = owned[t].paras /\ ds[t].used = owned[t].used
    BY <2>1, <2>2, Numbers DEF Block
  <2>5. ds \in [DOMAIN owned -> Block]
    BY <2>2, <2>4
  <2>6. IsTiling(ds) /\ \A t \in DOMAIN owned : End(ds, t) = End(owned, t)
    BY <2>1, <2>3, <2>4, <2>5, RelabelTiles
  <2>7. Merged(owned)
    BY <1>6 DEF Proper
  <2>8. Merged(ds)
    BY <2>3, <2>4, <2>6, <2>7 DEF Merged, IsFree
  <2> QED BY <2>6, <2>8 DEF Proper, ds

(* The machine starts with a proper arena.                                 *)
LEMMA InitInv == Init => IInv
<1> SUFFICES ASSUME Init PROVE IInv
  OBVIOUS
<1>1. Proper(BootEnv.blocks) /\ BootEnv.seg \in Segment
  BY DosArenaProper, DosAssumption, CallsKeepProper, Numbers DEF BootEnv
<1>2. FirstPsp \in Word /\ FirstPsp \in Segment
  BY DosAssumption, ArenaAssumption DEF Word, Segment
<1>3. Proper(blocks)
  BY <1>1, <1>2, InitPspProper DEF Init
<1>4. chain \in [Paragraphs -> Mcb]
  BY <1>3, PublishType DEF Init
<1>5. frames \in Seq(SavedFrame) /\ Len(frames) <= MaxDepth
  BY DosAssumption DEF Init
<1> QED BY <1>1, <1>2, <1>3, <1>4, <1>5, Numbers DEF Init, IInv

----------------------------------------------------------------------------
(* make_child_env() and stamp_env_path(), then the child's block.          *)
LEMMA ChildEnvProper ==
  ASSUME IInv, NEW given \in EnvArgs, NEW need \in EnvSizes
  PROVE  /\ Proper(ChildEnv(given, need).blocks)
         /\ ChildEnv(given, need).env \in Segment
<1>1. need \in Nat /\ psp_seg \in Word /\ Proper(blocks) /\ env_seg \in Segment
  BY DosAssumption, Numbers DEF IInv
<1>2. given \in Segment
  <2>1. ASSUME NEW s \in DOMAIN blocks PROVE s + 1 \in Segment
    BY <1>1, BlockFacts, Numbers DEF Proper, Segment
  <2> QED BY <1>1, <2>1, Numbers DEF EnvArgs, OwnBlocks
<1>3. ASSUME NEW source \in Segment
      PROVE  /\ Proper(MakeChildEnv(source, need).blocks)
             /\ MakeChildEnv(source, need).env \in Segment
  BY <1>1, CallsKeepProper, Numbers DEF MakeChildEnv
<1> QED BY <1>1, <1>2, <1>3 DEF ChildEnv

(* exec() takes a child's block out of a proper arena.                     *)
LEMMA ChildBlockProper ==
  ASSUME NEW bs, Proper(bs), psp_seg \in Word
  PROVE  Proper(ChildBlock(bs).blocks) /\ ChildBlock(bs).seg \in Segment
<1>1. Largest(bs) \in Nat
  BY LargestIsSize DEF Proper
<1> QED BY <1>1, CallsKeepProper, Numbers DEF ChildBlock
----------------------------------------------------------------------------
(* Every call keeps the invariant.                                         *)
LEMMA UpdateInv ==
  ASSUME IInv, NEW bs, Proper(bs), Update(bs)
  PROVE  Proper(blocks') /\ chain' \in [Paragraphs -> Mcb]
BY PublishType DEF IInv, Update

(* exec() puts a saved list back, which is proper.                         *)
LEMMA ResumeInv ==
  ASSUME IInv, NEW i \in DOMAIN frames, Resume(frames[i])
  PROVE  /\ Proper(blocks') /\ chain' \in [Paragraphs -> Mcb]
         /\ psp_seg' \in Word /\ env_seg' \in Segment
<1>1. frames[i] \in SavedFrame
  BY DEF IInv
<1>2. Proper(frames[i].blocks) /\ frames[i].psp \in Word /\ frames[i].env \in Segment
  BY <1>1, ProperArenasFact DEF SavedFrame
<1> QED BY <1>2 DEF IInv, Resume

(* The calls of any guest, with any segment.                               *)
AnyCall ==
  \/ SystemNext
  \/ \E psp \in LivePsps : SetPsp(psp)
  \/ \E seg \in Nat :
       \/ FreeMemory(seg)
       \/ \E n \in Requests : ResizeMemory(seg, n) \/ LoadOverlay(seg, n)

(* Every call keeps the invariant.                                         *)
LEMMA CallInv == IInv /\ [AnyCall]_vars => IInv'
<1> SUFFICES ASSUME IInv, [AnyCall]_vars PROVE IInv'
  OBVIOUS
<1>0. psp_seg \in Word /\ Proper(blocks) /\ DosOwner \in Word
  BY Numbers DEF IInv
<1>1. ASSUME NEW n \in Requests, AllocateMemory(n) PROVE IInv'
  <2>1. Proper(Alloc(blocks, n, FALSE, psp_seg).blocks)
    BY <1>0, DosAssumption, CallsKeepProper, Numbers
  <2> QED BY <1>1, <2>1, UpdateInv DEF AllocateMemory, IInv
<1>2. CASE GetCountryInfo
  <2>1. chain' \in [Paragraphs -> Mcb]
    BY <1>2, Numbers DEF GetCountryInfo, NoMcb, Mcb, IInv
  <2> QED BY <1>2, <2>1 DEF GetCountryInfo, IInv
<1>3. CASE ReflectInterrupt
  <2>1. /\ Proper(Alloc(blocks, ScratchParas, FALSE, psp_seg).blocks)
        /\ Alloc(blocks, ScratchParas, FALSE, psp_seg).seg \in Segment
    BY <1>0, DosAssumption, CallsKeepProper, Numbers
  <2> QED BY <1>3, <2>1, UpdateInv DEF ReflectInterrupt, IInv
<1>4. ASSUME NEW given \in EnvArgs, NEW need \in EnvSizes,
             \/ ExecNoMemory(given, need) \/ ExecLoadFails(given, need)
             \/ ExecChild(given, need)
      PROVE  IInv'
  <2> DEFINE e == ChildEnv(given, need)
             c == ChildBlock(e.blocks)
  <2>1. Proper(e.blocks) /\ e.env \in Segment
    BY ChildEnvProper
  <2>2. Proper(c.blocks) /\ c.seg \in Segment
    BY <1>0, <2>1, ChildBlockProper
  <2>3. Publish(c.blocks) \in [Paragraphs -> Mcb]
    BY <2>2, PublishType
  <2>4. CASE ExecNoMemory(given, need)
    BY <2>1, <2>4, UpdateInv DEF ExecNoMemory, IInv
  <2>5. CASE ExecLoadFails(given, need)
    <3>1. chain' \in [Paragraphs -> Mcb]
      BY <2>3, <2>5 DEF ExecLoadFails
    <3> QED BY <2>5, <3>1 DEF ExecLoadFails, IInv
  <2>6. CASE ExecChild(given, need)
    <3>1. Proper(blocks')
      BY <1>0, <2>2, <2>6, InitPspProper DEF ExecChild
    <3>2. [blocks |-> blocks, psp |-> psp_seg, env |-> env_seg] \in SavedFrame
      BY <1>0, ProperArenasFact DEF SavedFrame, IInv
    <3>3. frames' \in Seq(SavedFrame) /\ Len(frames') <= MaxDepth
      BY <2>6, <3>2, DosAssumption DEF ExecChild, IInv
    <3>4. psp_seg' \in Word /\ env_seg' \in Segment
      BY <2>1, <2>2, <2>6, Numbers DEF ExecChild
    <3>5. chain' \in [Paragraphs -> Mcb]
      BY <2>3, <2>6 DEF ExecChild
    <3> QED BY <2>6, <3>1, <3>3, <3>4, <3>5 DEF ExecChild, IInv
  <2> QED BY <1>4, <2>4, <2>5, <2>6
<1>5. CASE TerminateChild
  <2>1. Len(frames) \in DOMAIN frames
    BY <1>5 DEF TerminateChild, IInv
  <2>2. /\ Proper(blocks') /\ chain' \in [Paragraphs -> Mcb]
        /\ psp_seg' \in Word /\ env_seg' \in Segment
    BY <1>5, <2>1, ResumeInv DEF TerminateChild
  <2>3. frames' \in Seq(SavedFrame) /\ Len(frames') <= MaxDepth
    BY <1>5, DosAssumption DEF TerminateChild, IInv
  <2> QED BY <1>5, <2>2, <2>3 DEF TerminateChild, IInv
<1>6. CASE TerminateFirst
  BY <1>6 DEF TerminateFirst, IInv
<1>7. CASE Halt
  <2>1. 1 \in DOMAIN frames
    BY <1>7 DEF Halt, IInv
  <2>2. /\ Proper(blocks') /\ chain' \in [Paragraphs -> Mcb]
        /\ psp_seg' \in Word /\ env_seg' \in Segment
    BY <1>7, <2>1, ResumeInv DEF Halt
  <2> QED BY <1>7, <2>2, DosAssumption DEF Halt, IInv
<1>8. ASSUME NEW psp \in LivePsps, SetPsp(psp) PROVE IInv'
  <2>1. ASSUME NEW i \in DOMAIN frames PROVE frames[i].psp \in Word
    <3>1. frames[i] \in SavedFrame
      BY DEF IInv
    <3> QED BY <3>1 DEF SavedFrame
  <2>2. psp \in Word
    BY <1>0, <2>1 DEF LivePsps
  <2> QED BY <1>8, <2>2 DEF SetPsp, IInv
<1>9. ASSUME NEW seg \in Nat, FreeMemory(seg) PROVE IInv'
  <2>1. Proper(Free(blocks, seg).blocks)
    BY <1>0, DosAssumption, CallsKeepProper, Numbers
  <2> QED BY <1>9, <2>1, UpdateInv DEF FreeMemory, IInv
<1>10. ASSUME NEW seg \in Nat, NEW n \in Requests, ResizeMemory(seg, n) PROVE IInv'
  <2>1. Proper(Resize(blocks, seg, n, psp_seg).blocks)
    BY <1>0, DosAssumption, CallsKeepProper, Numbers
  <2> QED BY <1>10, <2>1, UpdateInv DEF ResizeMemory, IInv
<1>11. ASSUME NEW seg \in Nat, NEW n \in Requests, LoadOverlay(seg, n) PROVE IInv'
  <2>1. Proper(Own(blocks, seg, n, psp_seg))
    BY <1>0, DosAssumption, CallsKeepProper, Numbers
  <2> QED BY <1>11, <2>1, UpdateInv DEF LoadOverlay, IInv
<1>12. CASE UNCHANGED vars
  BY <1>12 DEF vars, IInv
<1> QED BY <1>1, <1>2, <1>3, <1>4, <1>5, <1>6, <1>7, <1>8, <1>9, <1>10, <1>11, <1>12
        DEF AnyCall, SystemNext

(* The guest of Spec is such a guest.                                      *)
LEMMA NextInv == IInv /\ [Next]_vars => IInv'
<1>1. Segments \subseteq Nat
  BY DosAssumption, Numbers
<1>2. Next => AnyCall
  BY <1>1 DEF Next, AnyCall
<1> QED BY <1>2, CallInv

(* The live list and every saved one stay proper arenas in every state.    *)
THEOREM Invariance == Spec => []IInv
BY InitInv, NextInv, PTL DEF Spec

----------------------------------------------------------------------------
(* The fields of the allocator, of the process and of the DPMI host keep   *)
(* their types: psp and scratch segments stay 16-bit paragraphs whatever   *)
(* the guest passes.                                                       *)
THEOREM TypeCorrect == Spec => []TypeOK
<1>1. IInv => TypeOK
  <2> SUFFICES ASSUME IInv PROVE TypeOK
    OBVIOUS
  <2>1. ASSUME NEW i \in DOMAIN frames PROVE IsFrame(frames[i])
    <3>1. frames[i] \in SavedFrame
      BY DEF IInv
    <3> QED BY <3>1, ProperArenasFact DEF SavedFrame, IsFrame, Proper, IsTiling
  <2> QED BY <2>1 DEF IInv, TypeOK, Proper, IsTiling
<1> QED BY <1>1, Invariance, PTL

(* Whatever segments and sizes a guest passes to AH=48h/49h/4Ah/4B03h, in  *)
(* whatever order, and however deep it nests EXEC, the live list and every *)
(* list an exec() will restore cover the arena without gap or overlap.     *)
THEOREM Tiled == Spec => []ArenaTiled
<1>1. IInv => ArenaTiled
  <2> SUFFICES ASSUME IInv PROVE ArenaTiled
    OBVIOUS
  <2>1. ASSUME NEW i \in DOMAIN frames PROVE IsTiling(frames[i].blocks)
    <3>1. frames[i] \in SavedFrame
      BY DEF IInv
    <3> QED BY <3>1, ProperArenasFact DEF SavedFrame, Proper
  <2> QED BY <2>1 DEF IInv, ArenaTiled, Proper
<1> QED BY <1>1, Invariance, PTL

(* No two free blocks stay side by side, in the live list or in one an     *)
(* exec() will restore: memory freed in pieces is allocated as one block.  *)
THEOREM AlwaysMerged == Spec => []FreeBlocksMerged
<1>1. IInv => FreeBlocksMerged
  <2> SUFFICES ASSUME IInv PROVE FreeBlocksMerged
    OBVIOUS
  <2>1. ASSUME NEW i \in DOMAIN frames PROVE Merged(frames[i].blocks)
    <3>1. frames[i] \in SavedFrame
      BY DEF IInv
    <3> QED BY <3>1, ProperArenasFact DEF SavedFrame, Proper
  <2> QED BY <2>1 DEF IInv, FreeBlocksMerged, Proper
<1> QED BY <1>1, Invariance, PTL

----------------------------------------------------------------------------
(* A refused AH=48h says how much there is: the largest free block is      *)
(* smaller than the request, can be had, and is the most that can be had.  *)
LEMMA AllocReports ==
  ASSUME NEW bs, Proper(bs), NEW n \in Nat, NEW owner \in Word,
         Alloc(bs, n, FALSE, owner).seg = 0
  PROVE  /\ Largest(bs) < AtLeastOne(n)
         /\ Largest(bs) > 0 => Alloc(bs, Largest(bs), FALSE, owner).seg # 0
         /\ Alloc(bs, Largest(bs) + 1, FALSE, owner).seg = 0
<1> DEFINE most == Largest(bs)
<1>1. IsTiling(bs) /\ \A s \in DOMAIN bs : bs[s].paras \in Nat
  BY BlockFacts DEF Proper
<1>2. /\ most \in Nat
      /\ most = 0 \/ \E s \in DOMAIN bs : ~bs[s].used /\ bs[s].paras = most
      /\ \A s \in DOMAIN bs : ~bs[s].used => bs[s].paras <= most
  BY <1>1, LargestIsSize DEF FreeSizes
<1> HIDE DEF most
<1>3. \A s \in DOMAIN bs : ~bs[s].used => bs[s].paras < AtLeastOne(n)
  BY <1>1, AllocRefuses
<1>4. most < AtLeastOne(n)
  BY <1>2, <1>3 DEF AtLeastOne
<1>5. most > 0 => Alloc(bs, most, FALSE, owner).seg # 0
  <2>1. most > 0 => AtLeastOne(most) = most /\ ~(most < most)
    BY <1>2 DEF AtLeastOne
  <2> QED BY <1>1, <1>2, <2>1, AllocRefuses
<1>6. Alloc(bs, most + 1, FALSE, owner).seg = 0
  <2>1. most + 1 \in Nat /\ AtLeastOne(most + 1) = most + 1
    BY <1>2 DEF AtLeastOne
  <2>2. \A s \in DOMAIN bs : ~bs[s].used => bs[s].paras < most + 1
    BY <1>1, <1>2
  <2> QED BY <1>1, <2>1, <2>2, AllocRefuses
<1> QED BY <1>4, <1>5, <1>6 DEF most

(* The figures AH=48h and AH=4Ah report in BX when they refuse can be had, *)
(* are less than was asked for and are the most that can be had, for every *)
(* arena, segment and size.                                                *)
THEOREM RefusalsAreTruthful == Spec => []TruthfulRefusal
<1>1. IInv => TruthfulRefusal
  <2> SUFFICES ASSUME IInv PROVE TruthfulRefusal
    OBVIOUS
  <2>1. Proper(blocks) /\ psp_seg \in Word /\ IsTiling(blocks) /\ Merged(blocks)
    BY DEF IInv, Proper
  <2>2. Requests \subseteq Nat /\ Segments \subseteq Nat
    BY DosAssumption, Numbers
  <2>3. ASSUME NEW n \in Requests, Alloc(blocks, n, FALSE, psp_seg).seg = 0
        PROVE  LET most == Largest(blocks)
               IN  /\ most < AtLeastOne(n)
                   /\ most > 0 => Alloc(blocks, most, FALSE, psp_seg).seg # 0
                   /\ Alloc(blocks, most + 1, FALSE, psp_seg).seg = 0
    BY <2>1, <2>2, <2>3, AllocReports
  <2>4. ASSUME NEW n \in Requests, NEW seg \in Segments
        PROVE  LET r == Resize(blocks, seg, n, psp_seg)
                   got == Attainable(r.blocks, seg)
                   again == Resize(r.blocks, seg, got, psp_seg)
               IN  ~r.ok /\ got > 0 =>
                     /\ got < n
                     /\ again.ok /\ again.blocks[seg - 1].paras = got
                     /\ ~Resize(r.blocks, seg, got + 1, psp_seg).ok
    BY <2>1, <2>2, ResizeReports
  <2> QED BY <2>3, <2>4 DEF TruthfulRefusal
<1> QED BY <1>1, Invariance, PTL

----------------------------------------------------------------------------
(* mem_alloc of mem_largest() paragraphs takes a whole free block.         *)
LEMMA LargestIsWhole ==
  ASSUME NEW bs, Proper(bs), NEW owner \in Word,
         Alloc(bs, Largest(bs), FALSE, owner).seg # 0
  PROVE  LET seg == Alloc(bs, Largest(bs), FALSE, owner).seg
             cs  == Alloc(bs, Largest(bs), FALSE, owner).blocks
         IN  /\ seg - 1 \in DOMAIN bs /\ ~bs[seg - 1].used
             /\ seg \in Segment /\ seg \in Nat
             /\ cs = Claim(bs, seg - 1, owner)
             /\ IsUsed(cs, seg - 1)
             /\ ~IsFree(bs, End(bs, seg - 1))
<1> DEFINE most == Largest(bs)
           k    == AtLeastOne(most)
           seg  == Alloc(bs, most, FALSE, owner).seg
           cs   == Alloc(bs, most, FALSE, owner).blocks
<1>1. IsTiling(bs) /\ Merged(bs)
  BY DEF Proper
<1>2. most \in Nat /\ \A n \in FreeSizes(bs) : n <= most
  BY <1>1, LargestIsSize
<1>3. k \in Nat /\ most <= k
  BY <1>2 DEF AtLeastOne
<1>4. Fitting(bs, k) # {}
  BY DEF Alloc
<1>5. PICK s \in Fitting(bs, k) : seg = s + 1 /\ cs = Claim(Trim(bs, s, k), s, owner)
  BY <1>1, <1>2, <1>4, AllocPick
<1>6. s \in DOMAIN bs /\ ~bs[s].used /\ bs[s].paras \in FreeSizes(bs)
  BY DEF Fitting, FreeSizes
<1>7. s \in Nat /\ s < HeapEnd /\ bs[s].paras \in Nat /\ bs[s].paras <= most
  BY <1>1, <1>2, <1>6, BlockFacts
<1> HIDE DEF k, most, seg, cs
<1>8. Trim(bs, s, k) = bs
  <2>1. ~(bs[s].paras > k)
    BY <1>2, <1>3, <1>7
  <2> QED BY <2>1 DEF Trim
<1>9. seg - 1 = s /\ seg \in Segment /\ seg \in Nat
  BY <1>5, <1>7, ArenaAssumption DEF Segment
<1>10. cs = Claim(bs, s, owner) /\ IsUsed(cs, s)
  BY <1>1, <1>5, <1>6, <1>8, ClaimTiles DEF IsUsed, IsClaimed
<1> QED BY <1>1, <1>6, <1>9, <1>10 DEF Merged, seg, cs, most

(* init_psp() on a block that is there changes its owner only.             *)
LEMMA InitPspGives ==
  ASSUME NEW bs, IsTiling(bs), NEW psp \in Nat, NEW owner, IsUsed(bs, psp - 1)
  PROVE  /\ DOMAIN InitPsp(bs, psp, owner) = DOMAIN bs
         /\ \A s \in DOMAIN bs :
              /\ s # psp - 1 => InitPsp(bs, psp, owner)[s] = bs[s]
              /\ InitPsp(bs, psp, owner)[s].used = bs[s].used
              /\ InitPsp(bs, psp, owner)[s].paras = bs[s].paras
              /\ End(InitPsp(bs, psp, owner), s) = End(bs, s)
         /\ InitPsp(bs, psp, owner)[psp - 1].owner = psp
<1>1. InitPsp(bs, psp, owner) = GiveTo(bs, psp)
  BY DEF InitPsp
<1>2. \A s \in DOMAIN bs : s \in Nat /\ bs[s] \in Block
  BY BlockFacts
<1>3. /\ DOMAIN GiveTo(bs, psp) = DOMAIN bs
      /\ \A s \in DOMAIN bs :
           /\ s # psp - 1 => GiveTo(bs, psp)[s] = bs[s]
           /\ s = psp - 1 => GiveTo(bs, psp)[s] = [bs[s] EXCEPT !.owner = psp]
  BY <1>2 DEF GiveTo
<1>4. \A s \in DOMAIN bs : /\ GiveTo(bs, psp)[s].used = bs[s].used
                           /\ GiveTo(bs, psp)[s].paras = bs[s].paras
  BY <1>2, <1>3 DEF Block
<1>5. \A s \in DOMAIN bs : End(GiveTo(bs, psp), s) = End(bs, s)
  BY <1>4 DEF End
<1>6. GiveTo(bs, psp)[psp - 1].owner = psp
  BY <1>2, <1>3 DEF IsUsed, Block
<1> QED BY <1>1, <1>3, <1>4, <1>5, <1>6

(* When a child starts, PSP:02 says what AH=4Ah would: its block runs up   *)
(* to memory that is not free, so it could grow by nothing.                *)
THEOREM CeilingsAgree == Spec => CeilingAgrees
<1>1. IInv /\ [Next]_vars =>
        [Len(frames') > Len(frames) =>
           /\ IsUsed(blocks', psp_seg' - 1)
           /\ Attainable(blocks', psp_seg') = blocks'[psp_seg' - 1].paras]_vars
  <2> SUFFICES ASSUME IInv, Next, Len(frames') > Len(frames)
               PROVE  /\ IsUsed(blocks', psp_seg' - 1)
                      /\ Attainable(blocks', psp_seg') = blocks'[psp_seg' - 1].paras
    BY DEF vars
  <2>0. frames \in Seq(SavedFrame) /\ psp_seg \in Word
    BY DEF IInv
  <2>1. PICK given \in EnvArgs, need \in EnvSizes : ExecChild(given, need)
    <3>1. ASSUME frames' = frames PROVE FALSE
      BY <2>0, <3>1
    <3>2. ASSUME frames # <<>>, frames' = SubSeq(frames, 1, Len(frames) - 1) PROVE FALSE
      BY <2>0, <3>2
    <3>3. ASSUME frames # <<>>, frames' = <<>> PROVE FALSE
      BY <2>0, <3>3
    <3> QED
      BY <3>1, <3>2, <3>3
      DEF Next, SystemNext, AllocateMemory, FreeMemory, ResizeMemory, LoadOverlay, SetPsp,
          GetCountryInfo, ReflectInterrupt, ExecNoMemory, ExecLoadFails, TerminateChild,
          TerminateFirst, Halt
  <2> DEFINE bs  == ChildEnv(given, need).blocks
             seg == ChildBlock(bs).seg
             cs  == ChildBlock(bs).blocks
             s   == seg - 1
  <2>2. Proper(bs) /\ Proper(cs)
    BY <2>0, ChildEnvProper, ChildBlockProper
  <2>3. /\ seg # 0 /\ psp_seg' = seg /\ blocks' = InitPsp(cs, seg, psp_seg)
        /\ seg = Alloc(bs, Largest(bs), FALSE, psp_seg).seg
        /\ cs = Alloc(bs, Largest(bs), FALSE, psp_seg).blocks
    BY <2>1 DEF ExecChild, ChildBlock
  <2> HIDE DEF cs, seg, bs
  <2>4. /\ s \in DOMAIN bs /\ ~bs[s].used /\ seg \in Nat
        /\ cs = Claim(bs, s, psp_seg)
        /\ IsUsed(cs, s)
        /\ ~IsFree(bs, End(bs, s))
    BY <2>0, <2>2, <2>3, LargestIsWhole
  <2>5. IsClaimed(bs, s, cs) /\ IsTiling(cs)
    BY <2>0, <2>2, <2>4, ClaimTiles DEF Proper
  <2>6. ~IsFree(cs, End(cs, s))
    BY <2>4, <2>5 DEF IsClaimed, IsFree
  <2>7. /\ DOMAIN blocks' = DOMAIN cs /\ IsTiling(blocks')
        /\ \A t \in DOMAIN cs : blocks'[t].used = cs[t].used
        /\ End(blocks', s) = End(cs, s)
    <3>1. IsTiling(blocks')
      BY NextInv DEF IInv, Proper
    <3>2. s \in DOMAIN cs
      BY <2>4 DEF IsUsed
    <3>3. /\ DOMAIN InitPsp(cs, seg, psp_seg) = DOMAIN cs
          /\ \A t \in DOMAIN cs :
               /\ InitPsp(cs, seg, psp_seg)[t].used = cs[t].used
               /\ End(InitPsp(cs, seg, psp_seg), t) = End(cs, t)
      BY <2>4, <2>5, InitPspGives
    <3> QED BY <2>3, <3>1, <3>2, <3>3
  <2>8. s \in DOMAIN blocks' /\ ~IsFree(blocks', End(blocks', s))
    BY <2>4, <2>6, <2>7 DEF IsFree, IsUsed
  <2>9. Avail(blocks', s) = blocks'[s].paras
    BY <2>7, <2>8, TightBlock
  <2> QED BY <2>3, <2>4, <2>7, <2>8, <2>9 DEF IsUsed, Attainable, IsBlock
<1> QED BY <1>1, Invariance, PTL DEF Spec, CeilingAgrees

----------------------------------------------------------------------------
(* The programs that are running or suspended, outermost first: what each  *)
(* has, or will have when its child ends.                                  *)
Levels == Append(frames, [blocks |-> blocks, psp |-> psp_seg, env |-> env_seg])

DosBlock == [paras |-> DosParas, owner |-> DosOwner, used |-> TRUE]

(* Whose a block of program k's list can be.                               *)
Owners(L, k) == {0, DosOwner} \union {L[j].psp : j \in 1 .. k}

(* A program's own list has its block, DOS's block, and its environment,   *)
(* which belongs to somebody else.                                         *)
HasItsOwn(L, k) ==
  LET bs == L[k].blocks
  IN  /\ Proper(bs)
      /\ L[k].psp \in Nat
      /\ IsUsed(bs, L[k].psp - 1)
      /\ IsUsed(bs, DosSeg - 1) /\ bs[DosSeg - 1] = DosBlock
      /\ L[k].env # 0 => /\ IsUsed(bs, L[k].env - 1)
                         /\ bs[L[k].env - 1].owner # L[k].psp
                         /\ L[k].env # L[k].psp
      /\ \A s \in DOMAIN bs : bs[s].used => bs[s].owner \in Owners(L, k)

(* What program j had allocated is allocated in program k's list too, and  *)
(* is not what program k runs in.                                          *)
Survives(L, j, k) ==
  /\ L[j].psp # L[k].psp
  /\ ~IsUsed(L[j].blocks, L[k].psp - 1)
  /\ \A s \in DOMAIN L[j].blocks : L[j].blocks[s].used =>
       s \in DOMAIN L[k].blocks /\ L[k].blocks[s] = L[j].blocks[s]

(* Each program keeps what is its own and what its ancestors had.          *)
Nested(L, n) ==
  /\ \A k \in 1 .. n : HasItsOwn(L, k)
  /\ \A j, k \in 1 .. n : j < k => Survives(L, j, k)

(* The lists of the outer programs do not depend on the inner ones.        *)
LEMMA OuterNested ==
  ASSUME NEW L, NEW n \in Nat, Nested(L, n), NEW M, NEW m \in Nat, m <= n,
         \A j \in 1 .. m : M[j] = L[j]
  PROVE  Nested(M, m)
<1>1. \A j \in 1 .. m : j \in 1 .. n
  OBVIOUS
<1>2. ASSUME NEW k \in 1 .. m PROVE HasItsOwn(M, k)
  <2>1. Owners(M, k) = Owners(L, k)
    <3>1. \A j \in 1 .. k : M[j] = L[j]
      OBVIOUS
    <3> QED BY <3>1 DEF Owners
  <2> QED BY <1>1, <2>1 DEF Nested, HasItsOwn
<1>3. ASSUME NEW j \in 1 .. m, NEW k \in 1 .. m, j < k PROVE Survives(M, j, k)
  BY <1>1, <1>3 DEF Nested, Survives
<1> QED BY <1>2, <1>3 DEF Nested

(* A PSP is the segment of a block, so it is neither 0 nor DOS's mark.     *)
LEMMA PspIsReal ==
  ASSUME NEW bs, IsTiling(bs), NEW psp \in Nat, psp - 1 \in DOMAIN bs
  PROVE  psp # 0 /\ psp # DosOwner
<1>1. psp - 1 >= ArenaMcb
  BY BlockFacts
<1> QED BY <1>1, DosAssumption, ArenaAssumption DEF DosOwner

(* A call of program n that disposes of no block but its own, and keeps    *)
(* the one it runs in, leaves the programs nested.                         *)
LEMMA CallNested ==
  ASSUME NEW L, NEW n \in Nat, n > 0, Nested(L, n), NEW M,
         \A j \in 1 .. n - 1 : M[j] = L[j],
         M[n].psp = L[n].psp, M[n].env = L[n].env,
         Proper(M[n].blocks), NEW x, NEW fresh,
         Kept(L[n].blocks, M[n].blocks, {x}, fresh, L[n].psp),
         IsUsed(L[n].blocks, x) => L[n].blocks[x].owner = L[n].psp,
         IsUsed(M[n].blocks, L[n].psp - 1)
  PROVE  Nested(M, n)
<1> DEFINE psp == L[n].psp
           bs  == L[n].blocks
           cs  == M[n].blocks
<1>1. n \in 1 .. n /\ HasItsOwn(L, n)
  BY DEF Nested
<1>2. psp # 0 /\ psp # DosOwner
  BY <1>1, PspIsReal DEF HasItsOwn, Proper, IsUsed
<1>3. \A j \in 1 .. n : M[j].psp = L[j].psp
  <2>1. \A j \in 1 .. n : j \in 1 .. n - 1 \/ j = n
    OBVIOUS
  <2> QED BY <2>1
<1>4. \A k \in 1 .. n : Owners(M, k) = Owners(L, k)
  <2> TAKE k \in 1 .. n
  <2>1. \A j \in 1 .. k : M[j].psp = L[j].psp
    BY <1>3
  <2> QED BY <2>1 DEF Owners
<1>5. \A s \in DOMAIN bs : bs[s].used /\ bs[s].owner # psp => s \in DOMAIN cs /\ cs[s] = bs[s]
  BY DEF Kept, IsUsed
<1>6. \A s \in DOMAIN cs : cs[s].used => cs[s].owner \in Owners(L, n)
  <2>1. psp \in Owners(L, n)
    BY <1>1 DEF Owners
  <2> QED BY <1>1, <2>1 DEF Kept, HasItsOwn
<1>7. HasItsOwn(M, n)
  <2>1. IsUsed(cs, DosSeg - 1) /\ cs[DosSeg - 1] = DosBlock
    BY <1>1, <1>2, <1>5 DEF HasItsOwn, IsUsed, DosBlock
  <2>2. L[n].env # 0 => /\ IsUsed(cs, L[n].env - 1)
                        /\ cs[L[n].env - 1].owner # psp
                        /\ L[n].env # psp
    BY <1>1, <1>5 DEF HasItsOwn, IsUsed
  <2> QED BY <1>1, <1>3, <1>4, <1>6, <2>1, <2>2 DEF HasItsOwn
<1>8. ASSUME NEW k \in 1 .. n PROVE HasItsOwn(M, k)
  <2>1. CASE k = n
    BY <1>7, <2>1
  <2>2. CASE k # n
    <3>1. k \in 1 .. n - 1 /\ M[k] = L[k]
      BY <2>2
    <3> QED BY <1>4, <3>1 DEF Nested, HasItsOwn
  <2> QED BY <2>1, <2>2
<1>9. ASSUME NEW j \in 1 .. n, NEW k \in 1 .. n, j < k PROVE Survives(M, j, k)
  <2>1. j \in 1 .. n - 1 /\ M[j] = L[j] /\ Survives(L, j, k)
    BY <1>9 DEF Nested
  <2>2. CASE k # n
    <3>1. k \in 1 .. n - 1 /\ M[k] = L[k]
      BY <2>2
    <3> QED BY <2>1, <3>1 DEF Survives
  <2>3. CASE k = n
    <3>1. ASSUME NEW s \in DOMAIN L[j].blocks, L[j].blocks[s].used
          PROVE  s \in DOMAIN cs /\ cs[s] = L[j].blocks[s]
      <4>1. s \in DOMAIN bs /\ bs[s] = L[j].blocks[s]
        BY <2>1, <2>3, <3>1 DEF Survives
      <4>2. bs[s].owner \in Owners(L, j)
        BY <3>1, <4>1 DEF Nested, HasItsOwn
      <4>3. \A i \in 1 .. j : L[i].psp # psp
        BY <1>1, <1>9, <2>3 DEF Nested, Survives
      <4>4. bs[s].owner # psp
        BY <1>2, <4>2, <4>3 DEF Owners
      <4> QED BY <1>5, <3>1, <4>1, <4>4
    <3> QED BY <1>3, <2>1, <2>3, <3>1 DEF Survives
  <2> QED BY <2>2, <2>3
<1> QED BY <1>8, <1>9 DEF Nested

(* A child whose block was free, and whose environment is not its own, is  *)
(* nested in the programs that were running.                               *)
LEMMA ChildNested ==
  ASSUME NEW L, NEW n \in Nat, n > 0, Nested(L, n), NEW M,
         \A j \in 1 .. n : M[j] = L[j],
         Proper(M[n + 1].blocks), M[n + 1].psp \in Nat,
         ~IsUsed(L[n].blocks, M[n + 1].psp - 1),
         IsUsed(M[n + 1].blocks, M[n + 1].psp - 1),
         \A s \in DOMAIN L[n].blocks : L[n].blocks[s].used =>
           s \in DOMAIN M[n + 1].blocks /\ M[n + 1].blocks[s] = L[n].blocks[s],
         \A s \in DOMAIN M[n + 1].blocks : M[n + 1].blocks[s].used =>
           \/ s \in DOMAIN L[n].blocks /\ L[n].blocks[s].used
              /\ M[n + 1].blocks[s].owner = L[n].blocks[s].owner
           \/ M[n + 1].blocks[s].owner \in {L[n].psp, M[n + 1].psp},
         M[n + 1].env # 0 => /\ IsUsed(M[n + 1].blocks, M[n + 1].env - 1)
                             /\ M[n + 1].blocks[M[n + 1].env - 1].owner \in Owners(L, n)
                             /\ M[n + 1].env # M[n + 1].psp
  PROVE  Nested(M, n + 1)
<1> DEFINE m   == n + 1
           psp == M[m].psp
           bs  == L[n].blocks
           cs  == M[m].blocks
<1>1. n \in 1 .. n /\ m \in 1 .. m /\ HasItsOwn(L, n) /\ M[n] = L[n]
  BY DEF Nested
<1>2. psp # 0 /\ psp # DosOwner
  BY PspIsReal DEF Proper, IsUsed
<1>3. Nested(M, n)
  BY OuterNested
<1>4. ASSUME NEW j \in 1 .. n PROVE Survives(M, j, m)
  <2>1. \A s \in DOMAIN L[j].blocks : L[j].blocks[s].used =>
          s \in DOMAIN bs /\ bs[s] = L[j].blocks[s]
    <3>1. CASE j = n
      BY <3>1
    <3>2. CASE j # n
      BY <1>1, <3>2 DEF Nested, Survives
    <3> QED BY <3>1, <3>2
  <2>2. L[j].psp # psp
    <3>1. IsUsed(L[j].blocks, L[j].psp - 1)
      BY DEF Nested, HasItsOwn
    <3>2. IsUsed(bs, L[j].psp - 1)
      BY <2>1, <3>1 DEF IsUsed
    <3> QED BY <3>2
  <2>3. ~IsUsed(L[j].blocks, psp - 1)
    BY <2>1 DEF IsUsed
  <2> QED BY <2>1, <2>2, <2>3 DEF Survives
<1>5. Owners(L, n) \subseteq Owners(M, m) /\ psp \in Owners(M, m) /\ L[n].psp \in Owners(M, m)
  <2>1. \A j \in 1 .. n : j \in 1 .. m
    OBVIOUS
  <2> QED BY <1>1, <2>1 DEF Owners
<1>6. psp \notin Owners(L, n)
  <2>1. \A j \in 1 .. n : L[j].psp # psp
    BY <1>4 DEF Survives
  <2> QED BY <1>2, <2>1 DEF Owners
<1>7. HasItsOwn(M, m)
  <2>1. IsUsed(cs, DosSeg - 1) /\ cs[DosSeg - 1] = DosBlock
    BY <1>1 DEF HasItsOwn, IsUsed, DosBlock
  <2>2. \A s \in DOMAIN cs : cs[s].used => cs[s].owner \in Owners(M, m)
    BY <1>1, <1>5 DEF HasItsOwn
  <2> QED BY <1>6, <2>1, <2>2 DEF HasItsOwn
<1>8. \A k \in 1 .. m : k \in 1 .. n \/ k = m
  OBVIOUS
<1>9. ASSUME NEW k \in 1 .. m PROVE HasItsOwn(M, k)
  BY <1>3, <1>7, <1>8 DEF Nested
<1>10. ASSUME NEW j \in 1 .. m, NEW k \in 1 .. m, j < k PROVE Survives(M, j, k)
  <2>1. j \in 1 .. n
    BY <1>10
  <2>2. CASE k = m
    BY <1>4, <2>1, <2>2
  <2>3. CASE k # m
    BY <1>3, <1>8, <1>10, <2>1, <2>3 DEF Nested
  <2> QED BY <2>2, <2>3
<1> QED BY <1>9, <1>10 DEF Nested

(* The programs as a sequence.                                             *)
LEMMA LevelsFacts ==
  ASSUME NEW S, NEW fs \in Seq(S), NEW here
  PROVE  /\ Len(fs) \in Nat
         /\ \A j \in 1 .. Len(fs) : Append(fs, here)[j] = fs[j]
         /\ Append(fs, here)[Len(fs) + 1] = here
OBVIOUS

(* What a guest that keeps to its own memory keeps true.                   *)
PoliteInv == IInv /\ Nested(Levels, Len(frames) + 1)

(* What it says of the running program.                                    *)
LEMMA HereFacts ==
  ASSUME PoliteInv
  PROVE  /\ Proper(blocks) /\ IsTiling(blocks) /\ psp_seg \in Word /\ psp_seg \in Nat
         /\ frames \in Seq(SavedFrame) /\ Len(frames) \in Nat
         /\ IsUsed(blocks, psp_seg - 1)
         /\ env_seg # 0 => IsUsed(blocks, env_seg - 1)
         /\ \A s \in DOMAIN blocks :
              blocks[s].used => blocks[s].owner \in Owners(Levels, Len(frames) + 1)
<1>1. IInv /\ psp_seg \in Nat
  BY Numbers DEF PoliteInv, IInv
<1>2. Levels[Len(frames) + 1] = [blocks |-> blocks, psp |-> psp_seg, env |-> env_seg]
  BY <1>1, LevelsFacts DEF IInv, Levels
<1>3. HasItsOwn(Levels, Len(frames) + 1)
  BY <1>1, LevelsFacts DEF PoliteInv, Nested, IInv
<1> QED BY <1>1, <1>2, <1>3, LevelsFacts DEF HasItsOwn, IInv, Proper

(* A call that starts and ends no program and disposes only of a block of  *)
(* the caller's, other than the one it runs in.                            *)
LEMMA DisposalNested ==
  ASSUME PoliteInv, IInv', UNCHANGED <<frames, psp_seg, env_seg>>,
         NEW x, NEW fresh, Kept(blocks, blocks', {x}, fresh, psp_seg),
         IsUsed(blocks, x) => blocks[x].owner = psp_seg,
         IsUsed(blocks', psp_seg - 1)
  PROVE  Nested(Levels', Len(frames') + 1)
<1> DEFINE n  == Len(frames)
           L  == Levels
           M  == Append(frames, [blocks |-> blocks', psp |-> psp_seg, env |-> env_seg])
<1>1. n \in Nat /\ Proper(blocks') /\ Nested(L, n + 1)
  BY HereFacts DEF PoliteInv, IInv
<1>2. Levels' = M
  BY DEF Levels
<1>3. /\ \A j \in 1 .. n : L[j] = frames[j] /\ M[j] = frames[j]
      /\ L[n + 1] = [blocks |-> blocks, psp |-> psp_seg, env |-> env_seg]
      /\ M[n + 1] = [blocks |-> blocks', psp |-> psp_seg, env |-> env_seg]
  BY HereFacts, LevelsFacts DEF Levels
<1> HIDE DEF L, M, n
<1>4. (n + 1) - 1 = n /\ n + 1 > 0 /\ n + 1 \in Nat
  BY <1>1
<1>5. /\ L[n + 1].blocks = blocks /\ L[n + 1].psp = psp_seg /\ L[n + 1].env = env_seg
      /\ M[n + 1].blocks = blocks' /\ M[n + 1].psp = psp_seg /\ M[n + 1].env = env_seg
      /\ \A j \in 1 .. (n + 1) - 1 : M[j] = L[j]
  BY <1>3, <1>4
<1>6. Nested(M, n + 1)
  BY <1>1, <1>4, <1>5, CallNested
<1> QED BY <1>2, <1>6 DEF n

(* A call that disposes of nothing.                                        *)
LEMMA GrantNested ==
  ASSUME PoliteInv, IInv', UNCHANGED <<frames, psp_seg, env_seg>>,
         NEW fresh, Kept(blocks, blocks', {}, fresh, psp_seg)
  PROVE  Nested(Levels', Len(frames') + 1)
<1>1. ~IsUsed(blocks, HeapEnd)
  BY HereFacts, BlockFacts, ArenaAssumption DEF IsUsed
<1>2. Kept(blocks, blocks', {HeapEnd}, fresh, psp_seg)
  BY KeptMore
<1>3. IsUsed(blocks', psp_seg - 1)
  BY HereFacts DEF Kept, IsUsed
<1> QED BY <1>1, <1>2, <1>3, DisposalNested

(* Ending programs leaves the outer ones nested.                           *)
LEMMA EndNested ==
  ASSUME PoliteInv, NEW i \in 1 .. Len(frames), Resume(frames[i]),
         frames' = SubSeq(frames, 1, i - 1)
  PROVE  Nested(Levels', Len(frames') + 1)
<1> DEFINE n == Len(frames)
           L == Levels
           M == Append(frames', frames[i])
<1>1. n \in Nat /\ frames \in Seq(SavedFrame) /\ frames[i] \in SavedFrame
  BY HereFacts
<1>2. Levels' = M
  <2>1. frames[i] = [blocks |-> frames[i].blocks, psp |-> frames[i].psp, env |-> frames[i].env]
    BY <1>1 DEF SavedFrame
  <2> QED BY <2>1 DEF Levels, Resume
<1>3. frames' \in Seq(SavedFrame) /\ Len(frames') = i - 1
      /\ \A j \in 1 .. i - 1 : frames'[j] = frames[j]
  BY <1>1
<1>4. \A j \in 1 .. i : M[j] = L[j]
  <2>1. \A j \in 1 .. i - 1 : M[j] = frames[j] /\ L[j] = frames[j]
    BY <1>1, <1>3, LevelsFacts DEF Levels
  <2>2. M[i] = frames[i] /\ L[i] = frames[i]
    BY <1>1, <1>3, LevelsFacts DEF Levels
  <2> QED BY <2>1, <2>2
<1>5. Nested(L, n + 1) /\ n + 1 \in Nat /\ i \in Nat /\ i <= n + 1
  BY <1>1 DEF PoliteInv
<1> HIDE DEF L, M, n
<1>6. Nested(M, i)
  BY <1>4, <1>5, OuterNested
<1>7. Len(frames') + 1 = i
  BY <1>3
<1> QED BY <1>2, <1>6, <1>7

----------------------------------------------------------------------------
(* The constructor's claim: one block, where DOS says it is.               *)
LEMMA DosArenaFacts ==
  /\ IsUsed(DosArena, DosSeg - 1) /\ DosArena[DosSeg - 1] = DosBlock
  /\ \A s \in DOMAIN DosArena : DosArena[s].used => s = DosSeg - 1
<1> DEFINE whole == [s \in {ArenaMcb} |-> FreeBlock(HeapEnd - ArenaMcb - 1)]
           owned == Own(whole, DosSeg, DosParas, 0)
<1>1. /\ ArenaMcb \in Nat /\ HeapEnd \in Nat /\ DosSeg \in Nat /\ DosParas \in Nat /\ DosParas # 0
      /\ ArenaMcb + 1 < DosSeg /\ DosSeg + DosParas < HeapEnd
  BY ArenaAssumption, DosAssumption, BootAssumption, Numbers DEF AtLeastOne, Word
<1>2. HeapEnd - ArenaMcb - 1 \in 0 .. HeapEnd
  BY ArenaAssumption
<1>3. /\ DOMAIN whole = {ArenaMcb} /\ ~whole[ArenaMcb].used
      /\ whole[ArenaMcb].paras = HeapEnd - ArenaMcb - 1
  BY <1>2, FreeBlockType
<1>4. End(whole, ArenaMcb) = HeapEnd
  BY <1>1, <1>3 DEF End
<1>5. IsTiling(whole)
  <2>1. ArenaMcb \in Paragraphs
    BY ArenaAssumption DEF Paragraphs
  <2>2. whole \in [{ArenaMcb} -> Block]
    BY <1>2, FreeBlockType
  <2> HIDE DEF whole
  <2>3. IsArena(whole)
    BY <1>3, <2>1, <2>2 DEF IsArena
  <2>4. StartsAtBottom(whole) /\ Contiguous(whole)
    BY <1>3, <1>4 DEF StartsAtBottom, Contiguous
  <2>5. Disjoint(whole)
    BY <1>1, <1>3 DEF Disjoint
  <2> QED BY <2>3, <2>4, <2>5 DEF IsTiling
<1> HIDE DEF whole
<1>6. ArenaMcb \in Containing(whole, DosSeg) /\ DosParas <= End(whole, ArenaMcb) - DosSeg
  BY <1>1, <1>3, <1>4 DEF Containing
<1>7. /\ Kept(whole, owned, {}, {DosSeg - 1}, 0)
      /\ IsUsed(owned, DosSeg - 1) /\ owned[DosSeg - 1].paras = DosParas
  BY <1>1, <1>3, <1>5, <1>6, OwnClaims, Numbers
<1>8. \A s \in DOMAIN owned : owned[s].used => s = DosSeg - 1
  BY <1>3, <1>7 DEF Kept
<1>9. \A s \in DOMAIN owned : s \in Nat /\ owned[s] \in Block
  BY <1>1, <1>5, OwnTiles, BlockFacts, Numbers
<1>10. DosArena = [s \in DOMAIN owned |->
                     IF s + 1 = DosSeg THEN [owned[s] EXCEPT !.owner = DosOwner] ELSE owned[s]]
  BY DEF DosArena, whole
<1> HIDE DEF owned
<1>11. DosArena[DosSeg - 1] = [owned[DosSeg - 1] EXCEPT !.owner = DosOwner]
  BY <1>1, <1>7, <1>10 DEF IsUsed
<1>12. DosArena[DosSeg - 1] = DosBlock
  BY <1>7, <1>9, <1>11 DEF Block, DosBlock, IsUsed
<1>13. ASSUME NEW s \in DOMAIN DosArena, DosArena[s].used PROVE s = DosSeg - 1
  <2>1. s \in DOMAIN owned /\ s \in Nat
    BY <1>9, <1>10
  <2>2. CASE s + 1 = DosSeg
    BY <2>1, <2>2
  <2>3. CASE s + 1 # DosSeg
    BY <1>8, <1>10, <1>13, <2>1, <2>3
  <2> QED BY <2>2, <2>3
<1> QED BY <1>7, <1>10, <1>12, <1>13 DEF IsUsed, DosBlock

(* alloc_env() takes the gap below DOS's block, for nobody.                *)
LEMMA BootEnvFacts ==
  LET bs == BootEnv.blocks
  IN  /\ BootEnv.seg = ArenaMcb + 1
      /\ Proper(bs)
      /\ IsUsed(bs, ArenaMcb) /\ bs[ArenaMcb].owner = 0 /\ End(bs, ArenaMcb) <= DosSeg - 1
      /\ IsUsed(bs, DosSeg - 1) /\ bs[DosSeg - 1] = DosBlock
      /\ \A s \in DOMAIN bs : bs[s].used => s \in {ArenaMcb, DosSeg - 1}
<1> DEFINE da == DosArena
           k  == AtLeastOne(BootEnvParas)
           bs == BootEnv.blocks
           d  == DosSeg - 1
<1>1. /\ ArenaMcb \in Nat /\ HeapEnd \in Nat /\ DosSeg \in Nat /\ BootEnvParas \in Nat
      /\ k \in Nat /\ k <= DosSeg - ArenaMcb - 2 /\ k > 0
  BY ArenaAssumption, DosAssumption, BootAssumption DEF AtLeastOne
<1>2. /\ Proper(da) /\ IsTiling(da) /\ Merged(da) /\ IsUsed(da, d) /\ da[d] = DosBlock
      /\ \A s \in DOMAIN da : da[s].used => s = d
  BY DosArenaProper, DosArenaFacts DEF Proper
<1> HIDE DEF da, k
<1>3. ArenaMcb \in DOMAIN da /\ ~da[ArenaMcb].used /\ ArenaMcb < d
  BY <1>1, <1>2 DEF IsTiling, StartsAtBottom
<1>4. End(da, ArenaMcb) = d
  <2>1. End(da, ArenaMcb) <= d
    BY <1>2, <1>3 DEF IsTiling, Disjoint, IsUsed
  <2>2. End(da, ArenaMcb) \in DOMAIN da
    BY <1>1, <1>2, <1>3, <2>1, BlockFacts DEF IsUsed
  <2>3. ~IsFree(da, End(da, ArenaMcb))
    BY <1>2, <1>3 DEF Merged
  <2> QED BY <1>2, <2>2, <2>3 DEF IsFree
<1>5. ArenaMcb \in Fitting(da, k)
  <2>1. da[ArenaMcb].paras \in Nat
    BY <1>2, <1>3, BlockFacts
  <2>2. da[ArenaMcb].paras >= k
    BY <1>1, <1>4, <2>1 DEF End
  <2> QED BY <1>3, <2>2 DEF Fitting
<1>6. BootEnv.seg = ArenaMcb + 1
  <2>1. PICK s \in Fitting(da, k) : BootEnv.seg = s + 1 /\ \A t \in Fitting(da, k) : s <= t
    BY <1>1, <1>2, <1>5, AllocPick, Numbers DEF BootEnv, da, k
  <2>2. s \in Nat /\ ArenaMcb <= s /\ s <= ArenaMcb
    BY <1>2, <1>5, <2>1, BlockFacts DEF Fitting
  <2> QED BY <1>1, <2>1, <2>2
<1>7. Proper(bs) /\ Kept(da, bs, {}, {ArenaMcb}, 0) /\ IsUsed(bs, ArenaMcb)
  <2>1. Proper(bs)
    BY <1>1, <1>2, CallsKeepProper, Numbers DEF BootEnv, da
  <2>2. Kept(da, bs, {}, {BootEnv.seg - 1}, 0)
    BY <1>1, <1>2, AllocKeeps, Numbers DEF BootEnv, da
  <2>3. BootEnv.seg - 1 = ArenaMcb /\ BootEnv.seg # 0
    BY <1>1, <1>6
  <2>4. IsUsed(bs, BootEnv.seg - 1)
    BY <1>1, <1>2, <2>3, AllocTiles, Numbers DEF BootEnv, da
  <2> QED BY <2>1, <2>2, <2>3, <2>4
<1> HIDE DEF bs
<1>8. IsUsed(bs, d) /\ bs[d] = DosBlock
  BY <1>2, <1>7 DEF Kept, IsUsed
<1>9. bs[ArenaMcb].owner = 0 /\ \A s \in DOMAIN bs : bs[s].used => s \in {ArenaMcb, d}
  BY <1>2, <1>3, <1>7 DEF Kept, IsUsed
<1>10. End(bs, ArenaMcb) <= d
  BY <1>3, <1>7, <1>8 DEF Proper, IsTiling, Disjoint, IsUsed
<1> QED BY <1>6, <1>7, <1>8, <1>9, <1>10 DEF bs

(* The first program is loaded in free memory, so init_psp() claims it.    *)
LEMMA FirstPspFacts ==
  LET bs == BootEnv.blocks
      cs == InitPsp(bs, FirstPsp, FirstPsp)
  IN  /\ IsUsed(cs, FirstPsp - 1) /\ cs[FirstPsp - 1].owner = FirstPsp
      /\ FirstPsp - 1 \notin {ArenaMcb, DosSeg - 1}
      /\ IsUsed(cs, ArenaMcb) /\ cs[ArenaMcb].owner = 0
      /\ IsUsed(cs, DosSeg - 1) /\ cs[DosSeg - 1] = DosBlock
      /\ \A s \in DOMAIN cs : cs[s].used => s \in {ArenaMcb, DosSeg - 1, FirstPsp - 1}
<1> DEFINE bs  == BootEnv.blocks
           d   == DosSeg - 1
           f   == FirstPsp - 1
           n   == HeapEnd - FirstPsp
           own == Own(bs, FirstPsp, n, FirstPsp)
           cs  == InitPsp(bs, FirstPsp, FirstPsp)
<1>1. /\ ArenaMcb \in Nat /\ HeapEnd \in Nat /\ DosSeg \in Nat /\ DosParas \in Nat
      /\ FirstPsp \in Nat /\ FirstPsp \in Word /\ FirstPsp < HeapEnd
      /\ ArenaMcb < d /\ DosSeg + DosParas < FirstPsp /\ n \in Nat /\ n # 0
  BY ArenaAssumption, DosAssumption, BootAssumption, Numbers DEF AtLeastOne
<1>2. /\ Proper(bs) /\ IsTiling(bs) /\ Merged(bs)
      /\ IsUsed(bs, ArenaMcb) /\ bs[ArenaMcb].owner = 0 /\ End(bs, ArenaMcb) <= d
      /\ IsUsed(bs, d) /\ bs[d] = DosBlock
      /\ \A s \in DOMAIN bs : bs[s].used => s \in {ArenaMcb, d}
  BY BootEnvFacts DEF Proper
<1>3. End(bs, d) = DosSeg + DosParas
  BY <1>1, <1>2 DEF End, DosBlock
<1> HIDE DEF bs
<1>4. \A s \in DOMAIN bs : bs[s].used => s < f /\ End(bs, s) < FirstPsp
  BY <1>1, <1>2, <1>3, BlockFacts
<1>5. PICK s \in DOMAIN bs : s <= FirstPsp /\ FirstPsp < End(bs, s)
  <2>1. FirstPsp \in Paragraphs
    BY <1>1 DEF Paragraphs
  <2> QED BY <1>2, <2>1, Covered
<1>6. ~bs[s].used /\ s \in Nat /\ End(bs, s) \in Nat
  <2>1. s \in Nat /\ End(bs, s) \in Nat
    BY <1>2, BlockFacts
  <2>2. bs[s].used => FALSE
    BY <1>1, <1>4, <1>5, <2>1
  <2> QED BY <2>1, <2>2
<1>7. s # FirstPsp
  <2> SUFFICES ASSUME s = FirstPsp PROVE FALSE
    OBVIOUS
  <2>1. PICK u \in DOMAIN bs : End(bs, u) = FirstPsp
    BY <1>1, <1>2, Predecessor
  <2>2. ~bs[u].used
    BY <1>1, <1>4, <2>1
  <2> QED BY <1>2, <1>6, <2>1, <2>2 DEF Merged, IsFree
<1>8. s \in Containing(bs, FirstPsp)
  BY <1>1, <1>5, <1>6, <1>7 DEF Containing
<1>9. /\ Kept(bs, own, {}, {f}, FirstPsp)
      /\ IsUsed(own, f) /\ own[f].owner = FirstPsp /\ IsTiling(own)
  <2> HIDE DEF n
  <2>1. IsTiling(own)
    BY <1>1, <1>2, OwnTiles
  <2>2. /\ Kept(bs, own, {}, {f}, FirstPsp)
        /\ IsUsed(own, f) /\ own[f].owner = FirstPsp
    <3>1. FirstPsp \in Nat /\ FirstPsp \in Word /\ n \in Nat /\ n # 0
      BY <1>1
    <3>2. IsTiling(bs) /\ s \in Containing(bs, FirstPsp) /\ ~bs[s].used
      BY <1>2, <1>6, <1>8
    <3> QED BY <3>1, <3>2, OwnClaims
  <2> QED BY <2>1, <2>2
<1>10. cs = InitPsp(own, FirstPsp, FirstPsp)
  <2>1. ~IsUsed(bs, f)
    BY <1>1, <1>4 DEF IsUsed
  <2> QED BY <1>9, <2>1 DEF InitPsp
<1> HIDE DEF own, cs
<1>11. /\ DOMAIN cs = DOMAIN own /\ cs[f].owner = FirstPsp
       /\ \A t \in DOMAIN own : (t # f => cs[t] = own[t]) /\ cs[t].used = own[t].used
  BY <1>1, <1>9, <1>10, InitPspGives
<1>12. f \notin {ArenaMcb, d}
  BY <1>1
<1>13. \A t \in {ArenaMcb, d} : IsUsed(cs, t) /\ cs[t] = bs[t]
  BY <1>2, <1>9, <1>11, <1>12 DEF Kept, IsUsed
<1>14. \A t \in DOMAIN cs : cs[t].used => t \in {ArenaMcb, d, f}
  BY <1>2, <1>9, <1>11 DEF Kept
<1> QED BY <1>2, <1>9, <1>11, <1>12, <1>13, <1>14 DEF IsUsed, bs, cs

(* The machine starts with one program, which has its own.                 *)
LEMMA InitPolite == Init => PoliteInv
<1> SUFFICES ASSUME Init PROVE PoliteInv
  OBVIOUS
<1> DEFINE L == Levels
           here == [blocks |-> blocks, psp |-> psp_seg, env |-> env_seg]
<1>1. IInv /\ frames = <<>>
  BY InitInv DEF Init
<1>2. L[1] = here /\ Len(frames) = 0
  BY <1>1 DEF Levels
<1> HIDE DEF L
<1>3. L[1].blocks = blocks /\ L[1].psp = psp_seg /\ L[1].env = env_seg
  BY <1>2
<1>4. /\ FirstPsp \in Nat /\ FirstPsp \in Word /\ FirstPsp # 0 /\ ArenaMcb \in Nat
  BY DosAssumption, ArenaAssumption, Numbers
<1>5. /\ psp_seg = FirstPsp /\ env_seg = ArenaMcb + 1
      /\ IsUsed(blocks, FirstPsp - 1) /\ blocks[FirstPsp - 1].owner = FirstPsp
      /\ FirstPsp - 1 \notin {ArenaMcb, DosSeg - 1}
      /\ IsUsed(blocks, ArenaMcb) /\ blocks[ArenaMcb].owner = 0
      /\ IsUsed(blocks, DosSeg - 1) /\ blocks[DosSeg - 1] = DosBlock
      /\ \A s \in DOMAIN blocks : blocks[s].used => s \in {ArenaMcb, DosSeg - 1, FirstPsp - 1}
  BY FirstPspFacts, BootEnvFacts DEF Init
<1>6. Owners(L, 1) = {0, DosOwner, FirstPsp}
  BY <1>3, <1>5 DEF Owners
<1>7. HasItsOwn(L, 1)
  <2>1. env_seg - 1 = ArenaMcb /\ env_seg # FirstPsp
    BY <1>4, <1>5
  <2>2. \A s \in DOMAIN blocks : blocks[s].used => blocks[s].owner \in Owners(L, 1)
    BY <1>5, <1>6 DEF DosBlock
  <2> QED BY <1>1, <1>3, <1>4, <1>5, <2>1, <2>2 DEF HasItsOwn, IInv
<1>8. Nested(L, 1)
  <2>1. \A j, k \in 1 .. 1 : ~(j < k)
    OBVIOUS
  <2>2. \A k \in 1 .. 1 : k = 1
    OBVIOUS
  <2> QED BY <1>7, <2>1, <2>2 DEF Nested
<1>9. Len(frames) + 1 = 1
  BY <1>2
<1> QED BY <1>1, <1>8, <1>9 DEF PoliteInv, L

(* The child's environment takes nothing from anybody.                     *)
LEMMA ChildEnvKeeps ==
  ASSUME PoliteInv, NEW given \in EnvArgs, NEW need \in EnvSizes
  PROVE  /\ Kept(blocks, ChildEnv(given, need).blocks, {}, Int, psp_seg)
         /\ ChildEnv(given, need).env # 0 =>
              IsUsed(ChildEnv(given, need).blocks, ChildEnv(given, need).env - 1)
<1>1. need \in Nat /\ psp_seg \in Word /\ IsTiling(blocks)
  BY HereFacts, DosAssumption, Numbers
<1>2. \A source \in {given, env_seg} : source # 0 => IsUsed(blocks, source - 1)
  <2>1. ASSUME NEW s \in DOMAIN blocks PROVE (s + 1) - 1 = s
    BY <1>1, BlockFacts
  <2> QED BY <2>1, HereFacts DEF EnvArgs, OwnBlocks, IsUsed
<1>3. ASSUME NEW source \in {given, env_seg}
      PROVE  /\ Kept(blocks, MakeChildEnv(source, need).blocks, {}, Int, psp_seg)
             /\ MakeChildEnv(source, need).env # 0 =>
                  IsUsed(MakeChildEnv(source, need).blocks, MakeChildEnv(source, need).env - 1)
  <2> DEFINE seg == Alloc(blocks, need, TRUE, psp_seg).seg
             bs  == Alloc(blocks, need, TRUE, psp_seg).blocks
  <2>1. /\ MakeChildEnv(source, need).env = (IF seg = 0 THEN source ELSE seg)
        /\ MakeChildEnv(source, need).blocks = bs
    BY DEF MakeChildEnv
  <2>2. seg \in 0 .. HeapEnd /\ (seg # 0 => IsUsed(bs, seg - 1))
    BY <1>1, AllocTiles
  <2>3. Kept(blocks, bs, {}, {seg - 1}, psp_seg)
    BY <1>1, AllocKeeps
  <2> HIDE DEF seg, bs
  <2>4. {seg - 1} \subseteq Int
    BY <2>2, ArenaAssumption
  <2>5. Kept(blocks, bs, {}, Int, psp_seg)
    BY <2>3, <2>4, KeptMore
  <2>6. source # 0 => IsUsed(bs, source - 1)
    BY <1>2, <2>5 DEF Kept, IsUsed
  <2> QED BY <2>1, <2>2, <2>5, <2>6
<1>4. CASE given = 0
  <2>1. ChildEnv(given, need) = MakeChildEnv(env_seg, need)
    BY <1>4 DEF ChildEnv
  <2> QED BY <1>3, <2>1
<1>5. CASE given # 0 /\ (given = env_seg \/ need > Room(given))
  <2>1. ChildEnv(given, need) = MakeChildEnv(given, need)
    BY <1>5 DEF ChildEnv
  <2> QED BY <1>3, <2>1
<1>6. CASE given # 0 /\ ~(given = env_seg \/ need > Room(given))
  <2>1. ChildEnv(given, need) = [env |-> given, blocks |-> blocks]
    BY <1>6 DEF ChildEnv
  <2>2. Kept(blocks, blocks, {}, Int, psp_seg)
    BY KeptSelf
  <2> QED BY <1>2, <1>6, <2>1, <2>2
<1> QED BY <1>4, <1>5, <1>6

(* EXEC nests the child in the programs that were running.                 *)
LEMMA ExecNested ==
  ASSUME PoliteInv, IInv', NEW given \in EnvArgs, NEW need \in EnvSizes, ExecChild(given, need)
  PROVE  Nested(Levels', Len(frames') + 1)
<1> DEFINE n   == Len(frames) + 1
           L   == Levels
           env == ChildEnv(given, need).env
           bs  == ChildEnv(given, need).blocks
           seg == ChildBlock(bs).seg
           cs  == ChildBlock(bs).blocks
           ds  == blocks'
           fs  == Append(frames, [blocks |-> blocks, psp |-> psp_seg, env |-> env_seg])
           M   == Append(fs, [blocks |-> ds, psp |-> seg, env |-> env])
<1>1. /\ psp_seg \in Word /\ psp_seg \in Nat /\ frames \in Seq(SavedFrame) /\ Len(frames) \in Nat
      /\ IsUsed(blocks, psp_seg - 1) /\ Proper(blocks) /\ Nested(L, n)
      /\ \A s \in DOMAIN blocks : blocks[s].used => blocks[s].owner \in Owners(L, n)
  BY HereFacts DEF PoliteInv
<1>2. /\ seg # 0 /\ psp_seg' = seg /\ env_seg' = env /\ frames' = fs
      /\ ds = InitPsp(cs, seg, psp_seg)
      /\ seg = Alloc(bs, Largest(bs), FALSE, psp_seg).seg
      /\ cs = Alloc(bs, Largest(bs), FALSE, psp_seg).blocks
  BY DEF ExecChild, ChildBlock
<1>3. /\ Kept(blocks, bs, {}, Int, psp_seg) /\ Proper(bs) /\ IsTiling(bs) /\ Proper(ds)
      /\ env # 0 => IsUsed(bs, env - 1)
      /\ env \in Nat
  <2>1. IInv
    BY DEF PoliteInv
  <2>2. Proper(bs) /\ env \in Segment
    BY <2>1, ChildEnvProper
  <2>3. Proper(ds)
    BY DEF IInv
  <2> HIDE DEF bs, env, ds
  <2>4. env \in Nat
    BY <2>2, ArenaAssumption DEF Segment
  <2> QED BY <2>2, <2>3, <2>4, ChildEnvKeeps DEF Proper, bs, env
<1>4. Levels' = M
  BY <1>2 DEF Levels
<1>5. /\ \A j \in 1 .. n : M[j] = L[j]
      /\ L[n] = [blocks |-> blocks, psp |-> psp_seg, env |-> env_seg]
      /\ M[n + 1] = [blocks |-> ds, psp |-> seg, env |-> env]
      /\ Len(fs) = n
  <2>1. [blocks |-> blocks, psp |-> psp_seg, env |-> env_seg] \in SavedFrame
    BY <1>1, ProperArenasFact DEF SavedFrame, PoliteInv, IInv
  <2>2. fs \in Seq(SavedFrame) /\ Len(fs) = n /\ L = fs
    BY <1>1, <2>1 DEF Levels
  <2> HIDE DEF fs, L, n
  <2>3. M[n + 1] = [blocks |-> ds, psp |-> seg, env |-> env] /\ \A j \in 1 .. n : M[j] = fs[j]
    BY <2>2, LevelsFacts
  <2>4. L[n] = [blocks |-> blocks, psp |-> psp_seg, env |-> env_seg]
    BY <1>1, LevelsFacts DEF L, n, Levels
  <2> QED BY <2>2, <2>3, <2>4
<1> HIDE DEF L, M, fs, cs, seg, bs, env, ds, n
<1>6. /\ seg - 1 \in DOMAIN bs /\ ~bs[seg - 1].used /\ seg \in Nat
      /\ cs = Claim(bs, seg - 1, psp_seg) /\ IsUsed(cs, seg - 1)
  BY <1>1, <1>2, <1>3, LargestIsWhole
<1>7. IsClaimed(bs, seg - 1, cs) /\ IsTiling(cs)
  BY <1>1, <1>3, <1>6, ClaimTiles
<1>8. /\ DOMAIN ds = DOMAIN bs /\ ds[seg - 1].owner = seg /\ IsUsed(ds, seg - 1)
      /\ \A s \in DOMAIN bs : s # seg - 1 => ds[s] = bs[s]
  <2>1. /\ DOMAIN ds = DOMAIN cs /\ ds[seg - 1].owner = seg
        /\ \A s \in DOMAIN cs : (s # seg - 1 => ds[s] = cs[s]) /\ ds[s].used = cs[s].used
    <3>1. seg \in Nat /\ IsTiling(cs) /\ IsUsed(cs, seg - 1)
      BY <1>6, <1>7
    <3>2. LET made == InitPsp(cs, seg, psp_seg)
          IN  /\ DOMAIN made = DOMAIN cs /\ made[seg - 1].owner = seg
              /\ \A s \in DOMAIN cs : (s # seg - 1 => made[s] = cs[s]) /\ made[s].used = cs[s].used
      BY <3>1, InitPspGives
    <3>3. ds = InitPsp(cs, seg, psp_seg)
      BY <1>2
    <3> QED BY <3>2, <3>3
  <2> QED BY <1>6, <1>7, <2>1 DEF IsClaimed, IsUsed
<1>9. /\ L[n].blocks = blocks /\ L[n].psp = psp_seg
      /\ M[n + 1].blocks = ds /\ M[n + 1].psp = seg /\ M[n + 1].env = env
  BY <1>5
<1>10. ~IsUsed(blocks, seg - 1)
  BY <1>3, <1>6 DEF Kept, IsUsed
<1>11. \A s \in DOMAIN blocks : blocks[s].used => s \in DOMAIN ds /\ ds[s] = blocks[s]
  BY <1>3, <1>6, <1>8 DEF Kept
<1>12. \A s \in DOMAIN ds : ds[s].used =>
          \/ s \in DOMAIN blocks /\ blocks[s].used /\ ds[s].owner = blocks[s].owner
          \/ ds[s].owner \in {psp_seg, seg}
  BY <1>3, <1>8 DEF Kept
<1>13. env # 0 => IsUsed(ds, env - 1) /\ ds[env - 1].owner \in Owners(L, n) /\ env # seg
  <2> SUFFICES ASSUME env # 0 PROVE IsUsed(ds, env - 1) /\ ds[env - 1].owner \in Owners(L, n) /\ env # seg
    OBVIOUS
  <2>1. env - 1 \in DOMAIN bs /\ bs[env - 1].used /\ env - 1 # seg - 1
    BY <1>3, <1>6 DEF IsUsed
  <2>2. ds[env - 1] = bs[env - 1] /\ env # seg
    BY <1>8, <2>1
  <2>3. psp_seg \in Owners(L, n)
    BY <1>1, <1>5, <1>9 DEF Owners, n
  <2>4. bs[env - 1].owner \in Owners(L, n)
    BY <1>1, <1>3, <2>1, <2>3 DEF Kept
  <2> QED BY <1>8, <2>1, <2>2, <2>4 DEF IsUsed
<1>14. n \in Nat /\ n > 0
  BY <1>1 DEF n
<1>15. Nested(M, n + 1)
  <2>1. Nested(L, n) /\ \A j \in 1 .. n : M[j] = L[j]
    BY <1>1, <1>5
  <2>2. /\ Proper(M[n + 1].blocks) /\ M[n + 1].psp \in Nat
        /\ ~IsUsed(L[n].blocks, M[n + 1].psp - 1)
        /\ IsUsed(M[n + 1].blocks, M[n + 1].psp - 1)
    BY <1>3, <1>6, <1>8, <1>9, <1>10
  <2>3. \A s \in DOMAIN L[n].blocks : L[n].blocks[s].used =>
          s \in DOMAIN M[n + 1].blocks /\ M[n + 1].blocks[s] = L[n].blocks[s]
    BY <1>9, <1>11
  <2>4. \A s \in DOMAIN M[n + 1].blocks : M[n + 1].blocks[s].used =>
          \/ s \in DOMAIN L[n].blocks /\ L[n].blocks[s].used
             /\ M[n + 1].blocks[s].owner = L[n].blocks[s].owner
          \/ M[n + 1].blocks[s].owner \in {L[n].psp, M[n + 1].psp}
    BY <1>9, <1>12
  <2>5. M[n + 1].env # 0 => /\ IsUsed(M[n + 1].blocks, M[n + 1].env - 1)
                           /\ M[n + 1].blocks[M[n + 1].env - 1].owner \in Owners(L, n)
                           /\ M[n + 1].env # M[n + 1].psp
    BY <1>9, <1>13
  <2> QED BY <1>14, <2>1, <2>2, <2>3, <2>4, <2>5, ChildNested
<1> QED BY <1>2, <1>4, <1>5, <1>15

(* Every call of a polite guest keeps the programs nested.                 *)
LEMMA PoliteNextInv == PoliteInv /\ [PoliteNext]_vars => PoliteInv'
<1> SUFFICES ASSUME PoliteInv, [PoliteNext]_vars PROVE PoliteInv'
  OBVIOUS
<1>0. /\ psp_seg \in Word /\ psp_seg \in Nat /\ Proper(blocks) /\ IsTiling(blocks)
      /\ IsUsed(blocks, psp_seg - 1)
      /\ Requests \subseteq Nat /\ ScratchParas \in Nat /\ Segments \subseteq Nat
  BY HereFacts, DosAssumption, Numbers
<1>1. ASSUME NEW seg \in OwnBlocks PROVE seg \in Nat /\ seg - 1 \in DOMAIN blocks
  <2>1. PICK s \in DOMAIN blocks : seg = s + 1
    BY DEF OwnBlocks
  <2> QED BY <1>0, <2>1, BlockFacts
<1>2. IInv'
  <2>1. PoliteNext => AnyCall
    BY <1>0, <1>1 DEF PoliteNext, AnyCall
  <2> QED BY <2>1, CallInv DEF PoliteInv
<1>3. ASSUME UNCHANGED <<frames, psp_seg, env_seg>>,
             NEW fresh, Kept(blocks, blocks', {}, fresh, psp_seg)
      PROVE  PoliteInv'
  BY <1>2, <1>3, GrantNested DEF PoliteInv
<1>4. ASSUME UNCHANGED <<blocks, frames, psp_seg, env_seg>> PROVE PoliteInv'
  <2>1. Kept(blocks, blocks', {}, {}, psp_seg)
    BY <1>4, KeptSelf
  <2> QED BY <1>3, <1>4, <2>1
<1>5. ASSUME NEW n \in Requests, AllocateMemory(n) PROVE PoliteInv'
  <2>1. Kept(blocks, Alloc(blocks, n, FALSE, psp_seg).blocks, {},
             {Alloc(blocks, n, FALSE, psp_seg).seg - 1}, psp_seg)
    BY <1>0, AllocKeeps
  <2>2. blocks' = Alloc(blocks, n, FALSE, psp_seg).blocks
        /\ UNCHANGED <<frames, psp_seg, env_seg>>
    BY <1>5 DEF AllocateMemory, Update
  <2> QED BY <1>3, <2>1, <2>2
<1>6. CASE ReflectInterrupt
  <2>1. Kept(blocks, Alloc(blocks, ScratchParas, FALSE, psp_seg).blocks, {},
             {Alloc(blocks, ScratchParas, FALSE, psp_seg).seg - 1}, psp_seg)
    BY <1>0, AllocKeeps
  <2>2. blocks' = Alloc(blocks, ScratchParas, FALSE, psp_seg).blocks
        /\ UNCHANGED <<frames, psp_seg, env_seg>>
    BY <1>6 DEF ReflectInterrupt, Update
  <2> QED BY <1>3, <2>1, <2>2
<1>7. ASSUME NEW given \in EnvArgs, NEW need \in EnvSizes, ExecNoMemory(given, need)
      PROVE  PoliteInv'
  <2>1. blocks' = ChildEnv(given, need).blocks /\ UNCHANGED <<frames, psp_seg, env_seg>>
    BY <1>7 DEF ExecNoMemory, Update
  <2>2. Kept(blocks, blocks', {}, Int, psp_seg)
    BY <2>1, ChildEnvKeeps
  <2> QED BY <1>3, <2>1, <2>2
<1>8. ASSUME NEW given \in EnvArgs, NEW need \in EnvSizes, ExecChild(given, need)
      PROVE  PoliteInv'
  BY <1>2, <1>8, ExecNested DEF PoliteInv
<1>9. CASE TerminateChild
  <2>1. /\ Len(frames) \in 1 .. Len(frames) /\ Resume(frames[Len(frames)])
        /\ frames' = SubSeq(frames, 1, Len(frames) - 1)
    BY <1>9, HereFacts DEF TerminateChild
  <2> QED BY <1>2, <2>1, EndNested DEF PoliteInv
<1>10. CASE Halt
  <2>1. /\ 1 \in 1 .. Len(frames) /\ Resume(frames[1]) /\ frames' = <<>>
    BY <1>10, HereFacts DEF Halt
  <2>2. frames' = SubSeq(frames, 1, 1 - 1)
    BY <2>1, HereFacts
  <2> QED BY <1>2, <2>1, <2>2, EndNested DEF PoliteInv
<1>11. ASSUME NEW seg \in OwnBlocks \ {psp_seg, scratch_ss}, FreeMemory(seg) PROVE PoliteInv'
  <2>1. seg \in Nat /\ seg # psp_seg /\ blocks[seg - 1].owner = psp_seg
    <3>1. PICK s \in DOMAIN blocks : seg = s + 1 /\ blocks[s].owner = psp_seg
      BY DEF OwnBlocks
    <3>2. seg - 1 = s
      BY <1>0, <3>1, BlockFacts
    <3> QED BY <1>1, <3>1, <3>2
  <2>2. Kept(blocks, Free(blocks, seg).blocks, {seg - 1}, {}, psp_seg)
    BY <1>0, <2>1, FreeKeeps
  <2>3. blocks' = Free(blocks, seg).blocks /\ UNCHANGED <<frames, psp_seg, env_seg>>
    BY <1>11 DEF FreeMemory, Update
  <2>4. Kept(blocks, blocks', {seg - 1}, {}, psp_seg)
    BY <2>2, <2>3
  <2>5. psp_seg - 1 # seg - 1
    BY <1>0, <2>1
  <2>6. IsUsed(blocks', psp_seg - 1)
    BY <1>0, <2>4, <2>5 DEF Kept, IsUsed
  <2> QED BY <1>2, <2>1, <2>3, <2>4, <2>6, DisposalNested DEF PoliteInv
<1>12. ASSUME NEW seg \in Segments, NEW n \in Requests, Assertable(seg), ResizeMemory(seg, n)
       PROVE  PoliteInv'
  <2>1. seg \in Nat /\ n \in Nat
    BY <1>0
  <2>2. /\ Kept(blocks, Resize(blocks, seg, n, psp_seg).blocks, {seg - 1}, {seg - 1}, psp_seg)
        /\ IsUsed(blocks, seg - 1) => IsUsed(Resize(blocks, seg, n, psp_seg).blocks, seg - 1)
    BY <1>0, <2>1, ResizeKeeps
  <2>3. blocks' = Resize(blocks, seg, n, psp_seg).blocks /\ UNCHANGED <<frames, psp_seg, env_seg>>
    BY <1>12 DEF ResizeMemory, Update
  <2>4. /\ Kept(blocks, blocks', {seg - 1}, {seg - 1}, psp_seg)
        /\ IsUsed(blocks, seg - 1) => IsUsed(blocks', seg - 1)
    BY <2>2, <2>3
  <2>5. IsUsed(blocks', psp_seg - 1)
    BY <1>0, <2>4 DEF Kept, IsUsed
  <2>6. IsUsed(blocks, seg - 1) => blocks[seg - 1].owner = psp_seg
    BY <1>12 DEF Assertable, IsUsed
  <2> QED BY <1>2, <2>3, <2>4, <2>5, <2>6, DisposalNested DEF PoliteInv
<1>13. ASSUME NEW seg \in Segments, NEW n \in Requests, LoadOverlay(seg, n) PROVE PoliteInv'
  <2>1. Kept(blocks, Own(blocks, seg, n, psp_seg), {}, {seg - 1}, psp_seg)
    BY <1>0, OwnKeeps
  <2>2. blocks' = Own(blocks, seg, n, psp_seg) /\ UNCHANGED <<frames, psp_seg, env_seg>>
    BY <1>13 DEF LoadOverlay, Update
  <2> QED BY <1>3, <2>1, <2>2
<1>14. CASE GetCountryInfo
  BY <1>4, <1>14 DEF GetCountryInfo
<1>15. ASSUME NEW given \in EnvArgs, NEW need \in EnvSizes, ExecLoadFails(given, need)
       PROVE  PoliteInv'
  BY <1>4, <1>15 DEF ExecLoadFails
<1>16. CASE TerminateFirst
  BY <1>4, <1>16 DEF TerminateFirst
<1>17. CASE UNCHANGED vars
  BY <1>4, <1>17 DEF vars
<1> QED BY <1>5, <1>6, <1>7, <1>8, <1>9, <1>10, <1>11, <1>12, <1>13, <1>14, <1>15, <1>16, <1>17
        DEF PoliteNext, SystemNext

(* Whatever programs a polite guest EXECs, and however they end, each has  *)
(* its own memory and its ancestors have theirs.                           *)
THEOREM ProgramsNest == PoliteSpec => []PoliteInv
BY InitPolite, PoliteNextInv, PTL DEF PoliteSpec

(* While a child runs, every block its ancestors had allocated stays       *)
(* allocated, where it was and as long as it was, and so does DOS's own.   *)
THEOREM AncestorsKeep == PoliteSpec => []AncestorsKeepMemory
<1>1. ASSUME PoliteInv PROVE AncestorsKeepMemory
  <2> DEFINE L == Levels
             n == Len(frames) + 1
  <2>1. n \in Nat /\ Nested(L, n) /\ frames \in Seq(SavedFrame)
    BY <1>1, HereFacts DEF PoliteInv
  <2>2. L[n] = [blocks |-> blocks, psp |-> psp_seg, env |-> env_seg]
        /\ \A j \in DOMAIN frames : L[j] = frames[j]
    BY <2>1, LevelsFacts DEF Levels
  <2>3. \A j \in DOMAIN frames : j \in 1 .. n /\ j < n
    BY <2>1
  <2>4. n \in 1 .. n
    BY <2>1, HereFacts
  <2> HIDE DEF L, n
  <2>5. L[n].blocks = blocks
    BY <2>2
  <2>6. IsUsed(blocks, DosSeg - 1) /\ blocks[DosSeg - 1] = DosBlock
    BY <2>1, <2>4, <2>5 DEF Nested, HasItsOwn
  <2>7. ASSUME NEW i \in DOMAIN frames, NEW s \in DOMAIN frames[i].blocks,
               frames[i].blocks[s].used
        PROVE  IsUsed(blocks, s) /\ blocks[s].paras = frames[i].blocks[s].paras
    <3>1. Survives(L, i, n)
      BY <2>1, <2>3, <2>4 DEF Nested
    <3> QED BY <2>2, <2>5, <2>7, <3>1 DEF Survives, IsUsed
  <2> QED BY <2>6, <2>7 DEF AncestorsKeepMemory, DosBlock
<1> QED BY <1>1, ProgramsNest, PTL

(* The running program's environment is a block that stays allocated and   *)
(* is not the program's own.                                               *)
THEOREM EnvironmentApart == PoliteSpec => []EnvOutsideProgram
<1>1. ASSUME PoliteInv PROVE EnvOutsideProgram
  <2> DEFINE L == Levels
             n == Len(frames) + 1
  <2>1. n \in Nat /\ n \in 1 .. n /\ Nested(L, n)
    BY <1>1, HereFacts DEF PoliteInv
  <2>2. L[n] = [blocks |-> blocks, psp |-> psp_seg, env |-> env_seg]
    BY <1>1, HereFacts, LevelsFacts DEF Levels
  <2> HIDE DEF L, n
  <2>3. L[n].blocks = blocks /\ L[n].psp = psp_seg /\ L[n].env = env_seg
    BY <2>2
  <2> QED BY <2>1, <2>3 DEF Nested, HasItsOwn, EnvOutsideProgram
<1> QED BY <1>1, ProgramsNest, PTL
----------------------------------------------------------------------------
(* The chain mem_publish() writes leads from the bottom of the arena to    *)
(* its top.                                                                *)
LEMMA PublishLeads ==
  ASSUME NEW bs, Proper(bs)
  PROVE  LeadsToTop(Publish(bs))
<1> DEFINE ch == Publish(bs)
<1>1. /\ IsTiling(bs) /\ DOMAIN bs \subseteq Paragraphs /\ ArenaMcb \in DOMAIN bs
      /\ ArenaMcb \in Paragraphs
  BY DEF Proper, IsTiling, IsArena, StartsAtBottom
<1>2. ASSUME NEW s \in DOMAIN bs
      PROVE  /\ ch[s].sig = (IF \A t \in DOMAIN bs : t <= s THEN "Z" ELSE "M")
             /\ ch[s].paras = bs[s].paras
  BY <1>1 DEF Publish, McbOf
<1>3. ASSUME NEW s \in Paragraphs \ DOMAIN bs PROVE ch[s].sig = "none"
  BY DEF Publish, NoMcb
<1> HIDE DEF ch
<1>4. ASSUME NEW s \in DOMAIN bs PROVE LeadsOn(ch, s)
  <2>1. /\ End(bs, s) = s + ch[s].paras + 1 /\ s \in Nat /\ s < End(bs, s)
        /\ End(bs, s) \in DOMAIN bs \union {HeapEnd}
    <3>1. bs[s].paras \in Nat /\ s \in Nat
      BY <1>1, BlockFacts
    <3>2. End(bs, s) = s + ch[s].paras + 1
      BY <1>2, <3>1 DEF End
    <3> QED BY <1>1, <3>1, <3>2, BlockFacts
  <2>2. CASE \A t \in DOMAIN bs : t <= s
    <3>1. End(bs, s) \notin DOMAIN bs
      BY <1>1, <2>1, <2>2, BlockFacts
    <3> QED BY <1>2, <2>1, <2>2, <3>1 DEF LeadsOn
  <2>3. CASE ~\A t \in DOMAIN bs : t <= s
    <3>1. PICK t \in DOMAIN bs : ~(t <= s)
      BY <2>3
    <3>2. t \in Nat /\ s < t /\ t < HeapEnd
      BY <1>1, <2>1, <3>1, BlockFacts
    <3>3. End(bs, s) <= t
      BY <1>1, <3>2 DEF IsTiling, Disjoint
    <3>4. End(bs, s) \in DOMAIN bs
      BY <1>1, <2>1, <3>2, <3>3, ArenaAssumption
    <3>5. ch[End(bs, s)].sig # "none" /\ End(bs, s) \in Paragraphs
      BY <1>1, <1>2, <3>4
    <3> QED BY <1>2, <2>1, <2>3, <3>5 DEF LeadsOn
  <2> QED BY <2>2, <2>3
<1>5. ASSUME NEW s \in Paragraphs PROVE LeadsOn(ch, s)
  BY <1>3, <1>4, <1>5 DEF LeadsOn
<1>6. ch[ArenaMcb].sig # "none"
  BY <1>1, <1>2
<1>7. LeadsToTop(ch)
  BY <1>5, <1>6 DEF LeadsToTop
<1> QED BY <1>7 DEF ch

(* AH=38h breaks the chain at one paragraph only.                          *)
LEMMA CountryLeads ==
  ASSUME LeadsToTop(chain), GetCountryInfo
  PROVE  LeadsToTop(chain')
<1>1. chain' = [s \in Paragraphs |-> IF s = CaseMapPara THEN NoMcb ELSE chain[s]]
  BY DEF GetCountryInfo
<1>2. ASSUME NEW s \in Paragraphs, chain[s].sig # "none" \/ Overwritten(chain, s)
      PROVE  chain'[s].sig # "none" \/ Overwritten(chain', s)
  BY <1>1, <1>2 DEF Overwritten
<1>3. ASSUME NEW s \in Paragraphs PROVE LeadsOn(chain', s)
  <2>1. LeadsOn(chain, s)
    BY DEF LeadsToTop
  <2>2. chain'[s] = chain[s] \/ chain'[s].sig = "none"
    BY <1>1 DEF NoMcb
  <2> QED BY <1>2, <2>1, <2>2 DEF LeadsOn
<1>4. ArenaMcb \in Paragraphs
  BY ArenaAssumption DEF Paragraphs
<1> QED BY <1>2, <1>3, <1>4 DEF LeadsToTop

(* The chain of a list that has just been published shows all of it.       *)
LEMMA PublishShows ==
  ASSUME NEW bs, Proper(bs), chain' = Publish(bs),
         NEW s \in DOMAIN bs, s \in DOMAIN blocks', bs[s].used,
         blocks'[s].paras = bs[s].paras, bs[s].owner \in ShownOwners(s)'
  PROVE  ShowsBlock(s)'
<1>1. s \in Paragraphs
  BY DEF Proper, IsTiling, IsArena
<1> QED BY <1>1 DEF ShowsBlock, Publish, McbOf

(* A mem_* call.                                                           *)
LEMMA UpdateShows ==
  ASSUME ChainShowsAllocated, NEW bs, Proper(bs), Update(bs), UNCHANGED <<psp_seg, frames>>
  PROVE  ChainShowsAllocated'
<1>1. blocks' = bs
  BY DEF Update
<1>2. CASE bs = blocks
  <2>1. UNCHANGED <<blocks, chain, psp_seg, frames>>
    BY <1>2 DEF Update
  <2> QED BY <2>1 DEF ChainShowsAllocated, ShowsBlock, ShownOwners
<1>3. CASE bs # blocks
  <2>1. chain' = Publish(bs)
    BY <1>3 DEF Update
  <2>2. ASSUME NEW s \in DOMAIN blocks', blocks'[s].used PROVE ShowsBlock(s)'
    BY <1>1, <2>1, <2>2, PublishShows DEF ShownOwners
  <2> QED BY <2>1, <2>2, PublishLeads DEF ChainShowsAllocated
<1> QED BY <1>2, <1>3

(* EXEC starts a child: its block is shown as its parent's.                *)
LEMMA ChildShows ==
  ASSUME PoliteInv, IInv', NEW given \in EnvArgs, NEW need \in EnvSizes, ExecChild(given, need)
  PROVE  ChainShowsAllocated'
<1> DEFINE bs  == ChildEnv(given, need).blocks
           seg == ChildBlock(bs).seg
           cs  == ChildBlock(bs).blocks
<1>1. /\ seg # 0 /\ psp_seg' = seg /\ chain' = Publish(cs)
      /\ frames' = Append(frames, [blocks |-> blocks, psp |-> psp_seg, env |-> env_seg])
      /\ blocks' = InitPsp(cs, seg, psp_seg)
      /\ seg = Alloc(bs, Largest(bs), FALSE, psp_seg).seg
      /\ cs = Alloc(bs, Largest(bs), FALSE, psp_seg).blocks
  BY DEF ExecChild, ChildBlock
<1>2. Proper(bs) /\ psp_seg \in Word /\ Proper(cs) /\ frames \in Seq(SavedFrame)
  <2>1. IInv
    BY DEF PoliteInv
  <2>2. Proper(bs) /\ psp_seg \in Word
    BY <2>1, ChildEnvProper DEF IInv
  <2> HIDE DEF bs
  <2>3. Proper(cs)
    BY <2>2, ChildBlockProper
  <2> QED BY <2>1, <2>2, <2>3 DEF IInv
<1> HIDE DEF bs, seg, cs
<1>3. /\ seg \in Nat /\ cs = Claim(bs, seg - 1, psp_seg) /\ IsUsed(cs, seg - 1)
      /\ seg - 1 \in DOMAIN bs
  BY <1>1, <1>2, LargestIsWhole
<1>4. cs[seg - 1].owner = psp_seg
  <2>1. bs[seg - 1] \in Block /\ bs \in [DOMAIN bs -> Block]
    BY <1>2, <1>3 DEF Proper, IsTiling, IsArena
  <2> QED BY <1>3, <2>1 DEF Claim, Block
<1>5. /\ DOMAIN blocks' = DOMAIN cs
      /\ \A s \in DOMAIN cs : /\ s # seg - 1 => blocks'[s] = cs[s]
                              /\ blocks'[s].used = cs[s].used
                              /\ blocks'[s].paras = cs[s].paras
  <2>1. IsTiling(cs) /\ seg \in Nat /\ IsUsed(cs, seg - 1)
    BY <1>2, <1>3 DEF Proper
  <2>2. LET made == InitPsp(cs, seg, psp_seg)
        IN  /\ DOMAIN made = DOMAIN cs
            /\ \A s \in DOMAIN cs : /\ s # seg - 1 => made[s] = cs[s]
                                    /\ made[s].used = cs[s].used
                                    /\ made[s].paras = cs[s].paras
    BY <2>1, InitPspGives
  <2>3. blocks' = InitPsp(cs, seg, psp_seg)
    BY <1>1
  <2> QED BY <2>2, <2>3
<1>6. frames' # <<>> /\ frames'[Len(frames')].psp = psp_seg
  <2> DEFINE f == [blocks |-> blocks, psp |-> psp_seg, env |-> env_seg]
  <2>1. f.psp = psp_seg
    OBVIOUS
  <2>2. f \in SavedFrame
    BY ProperArenasFact DEF SavedFrame, PoliteInv, IInv
  <2> HIDE DEF f
  <2>3. frames' = Append(frames, f)
    BY <1>1 DEF f
  <2> QED BY <1>2, <2>1, <2>2, <2>3
<1>7. ASSUME NEW s \in DOMAIN blocks', blocks'[s].used PROVE ShowsBlock(s)'
  <2>1. s \in DOMAIN cs /\ cs[s].used /\ blocks'[s].paras = cs[s].paras
    BY <1>5, <1>7
  <2>2. cs[s].owner \in ShownOwners(s)'
    <3>1. CASE s = seg - 1
      <4>1. s + 1 = seg
        BY <1>3, <3>1
      <4>2. s + 1 = psp_seg'
        BY <1>1, <4>1
      <4> QED BY <1>4, <1>6, <3>1, <4>2 DEF ShownOwners
    <3>2. CASE s # seg - 1
      BY <1>5, <2>1, <3>2 DEF ShownOwners
    <3> QED BY <3>1, <3>2
  <2> QED BY <1>1, <1>2, <1>7, <2>1, <2>2, PublishShows
<1>8. LeadsToTop(chain')
  BY <1>1, <1>2, PublishLeads
<1> QED BY <1>7, <1>8 DEF ChainShowsAllocated

(* The image is refused: the chain shows the block the child would have    *)
(* had, which is free, as taken, and all the others as they are.           *)
LEMMA LoadFailsShows ==
  ASSUME PoliteInv, NEW given \in EnvArgs, NEW need \in EnvSizes, ExecLoadFails(given, need)
  PROVE  ChainShowsAllocated'
<1> DEFINE bs  == ChildEnv(given, need).blocks
           seg == ChildBlock(bs).seg
           cs  == ChildBlock(bs).blocks
<1>1. /\ seg # 0 /\ chain' = Publish(cs) /\ blocks' = blocks
      /\ seg = Alloc(bs, Largest(bs), FALSE, psp_seg).seg
      /\ cs = Alloc(bs, Largest(bs), FALSE, psp_seg).blocks
  BY DEF ExecLoadFails, ChildBlock
<1>2. Proper(bs) /\ psp_seg \in Word /\ Proper(cs) /\ Kept(blocks, bs, {}, Int, psp_seg)
  <2>1. IInv
    BY DEF PoliteInv
  <2>2. Proper(bs) /\ psp_seg \in Word /\ Kept(blocks, bs, {}, Int, psp_seg)
    BY <2>1, ChildEnvProper, ChildEnvKeeps DEF IInv
  <2> HIDE DEF bs
  <2>3. Proper(cs)
    BY <2>2, ChildBlockProper
  <2> QED BY <2>2, <2>3
<1> HIDE DEF bs, seg, cs
<1>3. /\ seg - 1 \in DOMAIN bs /\ ~bs[seg - 1].used
      /\ cs = Claim(bs, seg - 1, psp_seg)
  BY <1>1, <1>2, LargestIsWhole
<1>4. ASSUME NEW s \in DOMAIN blocks', blocks'[s].used PROVE ShowsBlock(s)'
  <2>1. s \in DOMAIN bs /\ bs[s] = blocks[s] /\ s # seg - 1
    BY <1>1, <1>2, <1>3, <1>4 DEF Kept
  <2>2. s \in DOMAIN cs /\ cs[s] = blocks[s]
    BY <1>3, <2>1 DEF Claim
  <2> QED BY <1>1, <1>2, <1>4, <2>2, PublishShows DEF ShownOwners
<1>5. LeadsToTop(chain')
  BY <1>1, <1>2, PublishLeads
<1> QED BY <1>4, <1>5 DEF ChainShowsAllocated

(* A program ends: what its ancestor had allocated is still in the list    *)
(* the chain shows, and is not the block of the program that ends.         *)
LEMMA ResumeShows ==
  ASSUME PoliteInv, ChainShowsAllocated, NEW i \in 1 .. Len(frames), Resume(frames[i])
  PROVE  ChainShowsAllocated'
<1> DEFINE L == Levels
           n == Len(frames) + 1
<1>1. n \in Nat /\ Nested(L, n) /\ frames \in Seq(SavedFrame) /\ psp_seg \in Nat
  BY HereFacts DEF PoliteInv
<1>2. L[n] = [blocks |-> blocks, psp |-> psp_seg, env |-> env_seg]
      /\ \A j \in DOMAIN frames : L[j] = frames[j]
  BY <1>1, LevelsFacts DEF Levels
<1>3. i \in 1 .. n /\ i < n /\ i \in DOMAIN frames /\ n \in 1 .. n
  BY <1>1
<1> HIDE DEF L, n
<1>4. L[n].blocks = blocks /\ L[n].psp = psp_seg /\ L[i] = frames[i]
  BY <1>2, <1>3
<1>5. Survives(L, i, n)
  BY <1>1, <1>3 DEF Nested
<1>6. blocks' = frames[i].blocks /\ chain' = chain
  BY DEF Resume
<1>9. IsTiling(blocks)
  BY HereFacts
<1>7. ASSUME NEW s \in DOMAIN blocks', blocks'[s].used PROVE ShowsBlock(s)' \/ Overwritten(chain', s)
  <2>1. s \in DOMAIN blocks /\ blocks[s] = blocks'[s]
    BY <1>4, <1>5, <1>6, <1>7 DEF Survives
  <2>2. ShowsBlock(s) \/ Overwritten(chain, s)
    BY <1>7, <2>1 DEF ChainShowsAllocated
  <2>3. s + 1 # psp_seg
    <3>1. ~IsUsed(frames[i].blocks, psp_seg - 1)
      BY <1>4, <1>5 DEF Survives
    <3>2. s \in Nat
      BY <1>9, <2>1, BlockFacts
    <3> QED BY <1>1, <1>6, <1>7, <3>1, <3>2 DEF IsUsed
  <2> QED BY <1>6, <2>1, <2>2, <2>3 DEF ShowsBlock, ShownOwners
<1>8. LeadsToTop(chain')
  BY <1>6 DEF ChainShowsAllocated
<1> QED BY <1>7, <1>8 DEF ChainShowsAllocated


(* The invariant of the chain, with what it rests on.                      *)
ChainInv == PoliteInv /\ ChainShowsAllocated

(* The first chain shows the whole list.                                   *)
LEMMA InitShows == Init => ChainInv
<1> SUFFICES ASSUME Init PROVE ChainInv
  OBVIOUS
<1>1. PoliteInv /\ Proper(blocks) /\ chain = Publish(blocks)
  BY InitPolite DEF Init, PoliteInv, IInv
<1>2. ASSUME NEW s \in DOMAIN blocks, blocks[s].used PROVE ShowsBlock(s)
  <2>1. s \in Paragraphs
    BY <1>1 DEF Proper, IsTiling, IsArena
  <2> QED BY <1>1, <1>2, <2>1 DEF ShowsBlock, ShownOwners, Publish, McbOf
<1>3. LeadsToTop(chain)
  BY <1>1, PublishLeads
<1> QED BY <1>1, <1>2, <1>3 DEF ChainInv, ChainShowsAllocated

(* Every call of a polite guest keeps it.                                  *)
LEMMA ChainNextInv == ChainInv /\ [PoliteNext]_vars => ChainInv'
<1> SUFFICES ASSUME ChainInv, [PoliteNext]_vars PROVE ChainShowsAllocated'
  BY PoliteNextInv DEF ChainInv
<1>0. PoliteInv /\ IInv /\ ChainShowsAllocated /\ PoliteInv' /\ IInv'
  BY PoliteNextInv DEF ChainInv, PoliteInv
<1>1. ASSUME NEW bs, Update(bs), UNCHANGED <<psp_seg, frames>> PROVE ChainShowsAllocated'
  <2>1. Proper(bs)
    BY <1>0, <1>1 DEF Update, IInv
  <2> QED BY <1>0, <1>1, <2>1, UpdateShows
<1>2. ASSUME UNCHANGED <<blocks, chain, psp_seg, frames>> PROVE ChainShowsAllocated'
  BY <1>0, <1>2 DEF ChainShowsAllocated, ShowsBlock, ShownOwners
<1>3. ASSUME NEW n \in Requests, AllocateMemory(n) PROVE ChainShowsAllocated'
  BY <1>1, <1>3 DEF AllocateMemory
<1>4. CASE ReflectInterrupt
  BY <1>1, <1>4 DEF ReflectInterrupt
<1>5. ASSUME NEW given \in EnvArgs, NEW need \in EnvSizes, ExecNoMemory(given, need)
      PROVE  ChainShowsAllocated'
  BY <1>1, <1>5 DEF ExecNoMemory
<1>6. ASSUME NEW given \in EnvArgs, NEW need \in EnvSizes, ExecChild(given, need)
      PROVE  ChainShowsAllocated'
  BY <1>0, <1>6, ChildShows
<1>7. ASSUME NEW given \in EnvArgs, NEW need \in EnvSizes, ExecLoadFails(given, need)
      PROVE  ChainShowsAllocated'
  BY <1>0, <1>7, LoadFailsShows
<1>8. CASE TerminateChild
  <2>1. Len(frames) \in 1 .. Len(frames) /\ Resume(frames[Len(frames)])
    BY <1>0, <1>8, HereFacts DEF TerminateChild
  <2> QED BY <1>0, <2>1, ResumeShows
<1>9. CASE Halt
  <2>1. 1 \in 1 .. Len(frames) /\ Resume(frames[1])
    BY <1>0, <1>9, HereFacts DEF Halt
  <2> QED BY <1>0, <2>1, ResumeShows
<1>10. ASSUME NEW seg \in OwnBlocks \ {psp_seg, scratch_ss}, FreeMemory(seg)
       PROVE  ChainShowsAllocated'
  BY <1>1, <1>10 DEF FreeMemory
<1>11. ASSUME NEW seg \in Segments, NEW n \in Requests,
              ResizeMemory(seg, n) \/ LoadOverlay(seg, n)
       PROVE  ChainShowsAllocated'
  BY <1>1, <1>11 DEF ResizeMemory, LoadOverlay
<1>12. CASE GetCountryInfo
  <2>1. LeadsToTop(chain')
    BY <1>0, <1>12, CountryLeads DEF ChainShowsAllocated
  <2>2. ASSUME NEW s \in DOMAIN blocks', blocks'[s].used
        PROVE  ShowsBlock(s)' \/ Overwritten(chain', s)
    <3>1. s \in Paragraphs /\ s \in DOMAIN blocks /\ blocks[s].used
      BY <1>0, <1>12, <2>2 DEF GetCountryInfo, IInv, Proper, IsTiling, IsArena
    <3>2. ShowsBlock(s) \/ Overwritten(chain, s)
      BY <1>0, <3>1 DEF ChainShowsAllocated
    <3>3. CASE s = CaseMapPara
      BY <1>12, <3>1, <3>3 DEF GetCountryInfo, Overwritten
    <3>4. CASE s # CaseMapPara
      BY <1>12, <3>1, <3>2, <3>4 DEF GetCountryInfo, Overwritten, ShowsBlock, ShownOwners
    <3> QED BY <3>3, <3>4
  <2> QED BY <2>1, <2>2 DEF ChainShowsAllocated
<1>13. CASE TerminateFirst
  BY <1>2, <1>13 DEF TerminateFirst
<1>14. CASE UNCHANGED vars
  BY <1>2, <1>14 DEF vars
<1> QED BY <1>3, <1>4, <1>5, <1>6, <1>7, <1>8, <1>9, <1>10, <1>11, <1>12, <1>13, <1>14
        DEF PoliteNext, SystemNext

(* However deep polite programs EXEC and however their children end, a     *)
(* program that walks the chain is led to the top of the arena and finds   *)
(* every allocated block there, with its length and owner: the chain a     *)
(* dead child leaves behind shows free memory as taken, never the reverse. *)
THEOREM ChainKeepsShowing == PoliteSpec => []ChainShowsAllocated
<1>1. PoliteSpec => []ChainInv
  BY InitShows, ChainNextInv, PTL DEF PoliteSpec
<1>2. ChainInv => ChainShowsAllocated
  BY DEF ChainInv
<1> QED BY <1>1, <1>2, PTL
=============================================================================
