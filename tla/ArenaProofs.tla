----------------------------- MODULE ArenaProofs -----------------------------
(***************************************************************************)
(* Lemmas about the allocator's operators, for every arena: each of them   *)
(* maps a tiling of the arena to a tiling of it, and leaves no two free    *)
(* blocks side by side.                                                    *)
(***************************************************************************)
EXTENDS Arena, WellFoundedInduction, TLAPS

(* The order on the naturals as a relation.                                *)
Below == {p \in Nat \X Nat : p[1] < p[2]}

(* A non-empty set of naturals has a least element, and Least finds it.    *)
LEMMA LeastExists ==
  ASSUME NEW S, S \subseteq Nat, S # {}
  PROVE  Least(S) \in S /\ \A y \in S : Least(S) <= y
<1>1. IsWellFoundedOn(Below, Nat)
  BY NatLessThanWellFounded, Zenon DEF OpToRel, Below
<1>2. PICK x \in S : \A y \in S : ~(<<y, x>> \in Below)
  BY <1>1, WFMin, Zenon
<1>3. ASSUME NEW y \in S PROVE x <= y
  <2>1. x \in Nat /\ y \in Nat
    OBVIOUS
  <2>2. y < x => <<y, x>> \in Below
    BY <2>1, SMT DEF Below
  <2> QED BY <1>2, <2>1, <2>2
<1> QED BY <1>3, Zenon DEF Least

(* What a tiling says of one block.                                        *)
LEMMA BlockFacts ==
  ASSUME NEW bs, IsTiling(bs), NEW s \in DOMAIN bs
  PROVE  /\ s \in Nat /\ ArenaMcb <= s /\ s < HeapEnd
         /\ bs[s] \in Block /\ bs[s].paras \in Nat
         /\ bs[s].owner \in Word /\ bs[s].used \in BOOLEAN
         /\ End(bs, s) \in Nat /\ s < End(bs, s) /\ End(bs, s) <= HeapEnd
         /\ End(bs, s) \in DOMAIN bs \union {HeapEnd}
<1>1. s \in Nat /\ ArenaMcb <= s /\ s < HeapEnd
  BY ArenaAssumption DEF IsTiling, IsArena, Paragraphs
<1>2. bs[s] \in Block
  BY DEF IsTiling, IsArena
<1>3. bs[s].paras \in Nat /\ bs[s].owner \in Word /\ bs[s].used \in BOOLEAN
  BY <1>2 DEF Block
<1>4. End(bs, s) \in DOMAIN bs \union {HeapEnd}
  BY DEF IsTiling, Contiguous
<1>5. \A t \in DOMAIN bs : t < HeapEnd
  BY ArenaAssumption DEF IsTiling, IsArena, Paragraphs
<1>6. End(bs, s) \in Nat /\ s < End(bs, s)
  BY <1>1, <1>3 DEF End
<1> QED BY ArenaAssumption, <1>1, <1>2, <1>3, <1>4, <1>5, <1>6

(* Every MCB but the first, and HeapEnd, is where some block ends.         *)
LEMMA Predecessor ==
  ASSUME NEW bs, IsTiling(bs),
         NEW t \in DOMAIN bs \union {HeapEnd}, t # ArenaMcb
  PROVE  \E u \in DOMAIN bs : u < t /\ End(bs, u) = t
<1> DEFINE below == {u \in DOMAIN bs : u < t}
           gaps  == {t - u : u \in below}
<1>1. t \in Nat /\ ArenaMcb < t /\ t <= HeapEnd /\ ArenaMcb \in Nat
  BY ArenaAssumption, BlockFacts
<1>2. ArenaMcb \in below
  BY <1>1 DEF IsTiling, StartsAtBottom
<1>3. gaps \subseteq Nat /\ gaps # {}
  BY <1>1, <1>2, BlockFacts
<1>4. PICK g \in gaps : \A h \in gaps : g <= h
  BY <1>3, LeastExists
<1>5. PICK u \in below : g = t - u
  BY <1>4
<1>6. ASSUME NEW v \in below PROVE v <= u
  <2>1. g <= t - v
    BY <1>4
  <2>2. u \in Nat /\ v \in Nat
    BY BlockFacts
  <2> QED BY <1>1, <1>5, <2>1, <2>2
<1>7. End(bs, u) <= t
  BY <1>1, <1>5, BlockFacts DEF IsTiling, Disjoint
<1>8. ~(End(bs, u) < t)
  <2> SUFFICES ASSUME End(bs, u) < t PROVE FALSE
    OBVIOUS
  <2>1. End(bs, u) \in below
    BY <1>1, BlockFacts
  <2> QED BY <2>1, <1>6, BlockFacts
<1> QED BY <1>1, <1>5, <1>7, <1>8, BlockFacts

(* The end of the free run that follows a block.                           *)
LEMMA RunEndFacts ==
  ASSUME NEW bs, IsTiling(bs), NEW s \in DOMAIN bs
  PROVE  /\ RunEnd(bs, s) \in DOMAIN bs \union {HeapEnd}
         /\ RunEnd(bs, s) \in Nat /\ RunEnd(bs, s) <= HeapEnd
         /\ End(bs, s) <= RunEnd(bs, s)
         /\ ~IsFree(bs, RunEnd(bs, s))
         /\ \A t \in DOMAIN bs : s <= t /\ ~IsFree(bs, End(bs, t)) => RunEnd(bs, s) <= End(bs, t)
<1> DEFINE above == {u \in DOMAIN bs : u >= s}
           ends  == {e \in {End(bs, t) : t \in above} : ~IsFree(bs, e)}
<1>1. ends \subseteq Nat
  BY BlockFacts
<1>2. PICK u \in DOMAIN bs : End(bs, u) = HeapEnd
  BY ArenaAssumption, Predecessor
<1>3. u >= s
  <2> SUFFICES ASSUME u < s PROVE FALSE
    BY BlockFacts
  <2>1. End(bs, u) <= s
    BY DEF IsTiling, Disjoint
  <2> QED BY <1>2, <2>1, BlockFacts
<1>4. HeapEnd \in ends
  BY <1>2, <1>3, BlockFacts DEF IsFree
<1>5. Least(ends) \in ends /\ \A e \in ends : Least(ends) <= e
  <2> HIDE DEF ends
  <2> QED BY <1>1, <1>4, LeastExists
<1>6. RunEnd(bs, s) = Least(ends)
  BY DEF RunEnd
<1>7. PICK t \in above : Least(ends) = End(bs, t)
  BY <1>5
<1>8. End(bs, s) <= End(bs, t)
  BY <1>7, BlockFacts DEF IsTiling, Disjoint
<1>9. \A v \in DOMAIN bs : s <= v /\ ~IsFree(bs, End(bs, v)) => End(bs, v) \in ends
  BY BlockFacts
<1> QED BY <1>5, <1>6, <1>7, <1>8, <1>9, BlockFacts

----------------------------------------------------------------------------
(* Two blocks never share an end, and a used block's end is never absorbed *)
(* by mem_coalesce.                                                        *)
LEMMA EndUnique ==
  ASSUME NEW bs, IsTiling(bs), NEW s \in DOMAIN bs, NEW t \in DOMAIN bs,
         End(bs, s) = End(bs, t)
  PROVE  s = t
<1>1. s < t => End(bs, s) <= t
  BY DEF IsTiling, Disjoint
<1>2. t < s => End(bs, t) <= s
  BY DEF IsTiling, Disjoint
<1> QED BY <1>1, <1>2, BlockFacts

(* mem_coalesce keeps the arena tiled and merges every pair of free        *)
(* neighbours, however the list was broken up.                             *)
LEMMA CoalesceTiles ==
  ASSUME NEW bs, IsTiling(bs)
  PROVE  IsTiling(Coalesce(bs)) /\ Merged(Coalesce(bs))
<1> DEFINE cs   == Coalesce(bs)
           kept == DOMAIN bs \ Absorbed(bs)
<1>1. DOMAIN cs = kept
  BY DEF Coalesce
<1>2. ASSUME NEW s \in kept
      PROVE  /\ cs[s].used = bs[s].used
             /\ bs[s].used => cs[s] = bs[s] /\ End(cs, s) = End(bs, s)
             /\ ~bs[s].used => End(cs, s) = RunEnd(bs, s)
             /\ cs[s] \in Block
  <2>1. s \in DOMAIN bs
    OBVIOUS
  <2>2. CASE bs[s].used
    <3>1. cs[s] = bs[s]
      BY <2>2 DEF Coalesce
    <3> QED BY <2>1, <2>2, <3>1, BlockFacts DEF End
  <2>3. CASE ~bs[s].used
    <3>1. cs[s] = [bs[s] EXCEPT !.paras = RunEnd(bs, s) - s - 1]
      BY <2>3 DEF Coalesce
    <3>2. bs[s] \in Block
      BY <2>1, BlockFacts
    <3>3. RunEnd(bs, s) - s - 1 \in 0 .. HeapEnd
      BY <2>1, BlockFacts, RunEndFacts, ArenaAssumption
    <3>4. cs[s] \in Block /\ cs[s].used = bs[s].used /\ cs[s].paras = RunEnd(bs, s) - s - 1
      BY <3>1, <3>2, <3>3 DEF Block
    <3> QED BY <2>1, <2>3, <3>4, BlockFacts, RunEndFacts DEF End
  <2> QED BY <2>2, <2>3
<1>3. ASSUME NEW s \in DOMAIN bs, bs[s].used, End(bs, s) # HeapEnd
      PROVE  End(bs, s) \in kept
  <2>1. End(bs, s) \in DOMAIN bs
    BY <1>3, BlockFacts
  <2>2. ASSUME NEW p \in DOMAIN bs, IsFree(bs, p), End(bs, p) = End(bs, s) PROVE FALSE
    BY <1>3, <2>2, EndUnique DEF IsFree
  <2> QED BY <2>1, <2>2 DEF Absorbed
<1>4. ASSUME NEW e \in DOMAIN bs, ~IsFree(bs, e) PROVE e \in kept
  BY <1>4 DEF Absorbed
<1>5. IsArena(cs)
  <2>1. cs \in [kept -> Block]
    BY <1>1, <1>2 DEF Coalesce
  <2> QED BY <1>1, <2>1 DEF IsTiling, IsArena
<1>6. StartsAtBottom(cs)
  <2>1. ASSUME NEW p \in DOMAIN bs, End(bs, p) = ArenaMcb PROVE FALSE
    BY <2>1, BlockFacts, ArenaAssumption
  <2> QED BY <1>1, <2>1 DEF StartsAtBottom, IsTiling, Absorbed
<1>7. Contiguous(cs)
  <2> SUFFICES ASSUME NEW s \in kept PROVE End(cs, s) \in kept \union {HeapEnd}
    BY <1>1 DEF Contiguous
  <2>1. CASE bs[s].used
    BY <1>2, <1>3, <2>1
  <2>2. CASE ~bs[s].used
    BY <1>2, <1>4, <2>2, RunEndFacts
  <2> QED BY <2>1, <2>2
<1>8. Disjoint(cs)
  <2> SUFFICES ASSUME NEW s \in kept, NEW t \in kept, s < t PROVE End(cs, s) <= t
    BY <1>1 DEF Disjoint
  <2>0. s \in Nat /\ t \in Nat /\ s \in DOMAIN bs /\ t \in DOMAIN bs /\ t # ArenaMcb
    BY BlockFacts, ArenaAssumption
  <2>1. CASE bs[s].used
    BY <1>2, <2>0, <2>1 DEF IsTiling, Disjoint
  <2>2. CASE ~bs[s].used
    <3>1. PICK u \in DOMAIN bs : u < t /\ End(bs, u) = t
      BY <2>0, Predecessor
    <3>2. s <= u
      <4>1. u < s => End(bs, u) <= s
        BY <2>0 DEF IsTiling, Disjoint
      <4> QED BY <2>0, <3>1, <4>1, BlockFacts
    <3>3. CASE ~IsFree(bs, t)
      BY <1>2, <2>0, <2>2, <3>1, <3>2, <3>3, RunEndFacts
    <3>4. CASE IsFree(bs, t)
      <4>1. ~IsFree(bs, u)
        BY <2>0, <3>1, <3>4 DEF Absorbed
      <4>2. u # s /\ s < u /\ u # ArenaMcb
        BY <2>0, <2>2, <3>2, <4>1, BlockFacts, ArenaAssumption DEF IsFree
      <4>3. PICK v \in DOMAIN bs : v < u /\ End(bs, v) = u
        BY <4>2, Predecessor
      <4>4. s <= v
        <5>1. v < s => End(bs, v) <= s
          BY <2>0 DEF IsTiling, Disjoint
        <5> QED BY <2>0, <4>2, <4>3, <5>1, BlockFacts
      <4>5. RunEnd(bs, s) <= u
        BY <2>0, <4>1, <4>3, <4>4, RunEndFacts
      <4> QED BY <1>2, <2>0, <2>2, <3>1, <4>5, BlockFacts, RunEndFacts
    <3> QED BY <3>3, <3>4
  <2> QED BY <2>1, <2>2
<1>9. Merged(cs)
  <2> SUFFICES ASSUME NEW s \in kept, ~cs[s].used, IsFree(cs, End(cs, s)) PROVE FALSE
    BY <1>1 DEF Merged
  <2>1. ~bs[s].used /\ End(cs, s) = RunEnd(bs, s)
    BY <1>2
  <2>2. RunEnd(bs, s) \in kept /\ ~bs[RunEnd(bs, s)].used
    BY <1>1, <1>2, <2>1 DEF IsFree
  <2> QED BY <2>2, RunEndFacts DEF IsFree
<1> QED BY <1>5, <1>6, <1>7, <1>8, <1>9 DEF IsTiling

----------------------------------------------------------------------------
(* A free block of any length is a block.                                  *)
LEMMA FreeBlockType ==
  ASSUME NEW n \in 0 .. HeapEnd
  PROVE  FreeBlock(n) \in Block /\ ~FreeBlock(n).used /\ FreeBlock(n).paras = n
<1>1. 0 \in Word
  BY DEF Word, MaxWord
<1> QED BY <1>1, ArenaAssumption DEF FreeBlock, Block

(* What mem_split leaves of each block when there is room for a second MCB. *)
IsSplit(bs, s, n, cs, m) ==
  /\ DOMAIN cs = DOMAIN bs \union {m}
  /\ m \in Nat /\ s < m /\ m < End(bs, s) /\ m \notin DOMAIN bs
  /\ cs[s] = [bs[s] EXCEPT !.paras = n]
  /\ cs[m] = FreeBlock(bs[s].paras - n - 1)
  /\ cs[s].used = bs[s].used /\ cs[s].paras = n /\ ~cs[m].used
  /\ \A t \in DOMAIN bs : t # s => cs[t] = bs[t] /\ End(cs, t) = End(bs, t)
  /\ End(cs, s) = m /\ End(cs, m) = End(bs, s)
  /\ cs \in [DOMAIN cs -> Block]

(* mem_split cuts one block in two and leaves the others alone.            *)
LEMMA SplitFacts ==
  ASSUME NEW bs, IsTiling(bs), NEW s \in DOMAIN bs, NEW n \in Nat, n < bs[s].paras
  PROVE  IsSplit(bs, s, n, Split(bs, s, n), s + 1 + n)
<1> DEFINE cs == Split(bs, s, n)
           m  == s + 1 + n
<1>0. ~(bs[s].paras < n + 1)
  BY BlockFacts
<1>1. cs = [t \in DOMAIN bs \union {m} |->
              CASE t = s         -> [bs[s] EXCEPT !.paras = n]
                [] t = m         -> FreeBlock(bs[s].paras - n - 1)
                [] OTHER         -> bs[t]]
  BY <1>0 DEF Split
<1> HIDE DEF cs
<1>2. m \in Nat /\ s < m /\ m < End(bs, s)
  BY BlockFacts DEF End
<1>3. m \notin DOMAIN bs
  BY <1>2, BlockFacts DEF IsTiling, Disjoint
<1>4. bs[s] \in Block /\ bs[s].paras - n - 1 \in 0 .. HeapEnd /\ n \in 0 .. HeapEnd
  BY BlockFacts, ArenaAssumption DEF Block
<1>5. DOMAIN cs = DOMAIN bs \union {m} /\ cs[s] = [bs[s] EXCEPT !.paras = n]
  BY <1>1, <1>2
<1>6. cs[s] \in Block /\ cs[s].used = bs[s].used /\ cs[s].paras = n
  BY <1>4, <1>5 DEF Block
<1>7. cs[m] = FreeBlock(bs[s].paras - n - 1)
  BY <1>1, <1>2
<1>8. cs[m] \in Block /\ ~cs[m].used /\ cs[m].paras = bs[s].paras - n - 1
  BY <1>4, <1>7, FreeBlockType
<1>9. ASSUME NEW t \in DOMAIN bs, t # s
      PROVE  cs[t] = bs[t] /\ End(cs, t) = End(bs, t) /\ cs[t] \in Block
  <2>1. cs[t] = bs[t]
    BY <1>1, <1>3, <1>9
  <2> QED BY <2>1, BlockFacts DEF End
<1>10. End(cs, s) = m /\ End(cs, m) = End(bs, s)
  BY <1>2, <1>6, <1>8, BlockFacts DEF End
<1>11. cs \in [DOMAIN cs -> Block]
  BY <1>1, <1>5, <1>6, <1>8, <1>9
<1> QED BY <1>2, <1>3, <1>5, <1>6, <1>7, <1>8, <1>9, <1>10, <1>11 DEF IsSplit, cs

(* mem_split keeps the arena tiled.                                        *)
LEMMA SplitTiles ==
  ASSUME NEW bs, IsTiling(bs), NEW s \in DOMAIN bs, NEW n \in Nat
  PROVE  IsTiling(Split(bs, s, n))
<1> DEFINE cs == Split(bs, s, n)
           m  == s + 1 + n
<1>1. CASE bs[s].paras < n + 1
  BY <1>1 DEF Split
<1>2. CASE ~(bs[s].paras < n + 1)
  <2>0. n < bs[s].paras
    BY <1>2, BlockFacts
  <2>1. IsSplit(bs, s, n, cs, m)
    BY <2>0, SplitFacts
  <2> HIDE DEF cs
  <2> USE DEF IsSplit
  <2>2. IsArena(cs)
    <3>1. m \in Paragraphs
      BY <2>1, BlockFacts, ArenaAssumption DEF Paragraphs
    <3> QED BY <2>1, <3>1 DEF IsTiling, IsArena
  <2>3. StartsAtBottom(cs)
    BY <2>1 DEF IsTiling, StartsAtBottom
  <2>4. Contiguous(cs)
    <3> SUFFICES ASSUME NEW t \in DOMAIN cs PROVE End(cs, t) \in DOMAIN cs \union {HeapEnd}
      BY DEF Contiguous
    <3>1. CASE t = m
      BY <2>1, <3>1, BlockFacts
    <3>2. CASE t = s
      BY <2>1, <3>2
    <3>3. CASE t # m /\ t # s
      BY <2>1, <3>3, BlockFacts
    <3> QED BY <3>1, <3>2, <3>3
  <2>5. Disjoint(cs)
    <3> SUFFICES ASSUME NEW t \in DOMAIN cs, NEW u \in DOMAIN cs, t < u PROVE End(cs, t) <= u
      BY DEF Disjoint
    <3>0. \A v, w \in DOMAIN bs : v < w => End(bs, v) <= w
      BY DEF IsTiling, Disjoint
    <3>1. CASE t = m
      <4>1. u \in DOMAIN bs /\ s < u
        BY <2>1, <3>1, BlockFacts
      <4> QED BY <2>1, <3>0, <3>1, <4>1
    <3>2. CASE t = s
      <4>1. u = m \/ (u \in DOMAIN bs /\ End(bs, s) <= u)
        BY <2>1, <3>0, <3>2
      <4> QED BY <2>1, <3>2, <4>1, BlockFacts
    <3>3. CASE t # m /\ t # s
      <4>1. t \in DOMAIN bs /\ End(cs, t) = End(bs, t)
        BY <2>1, <3>3
      <4>2. CASE u = m
        <5>1. t < s
          <6>1. s < t => End(bs, s) <= t
            BY <3>0, <4>1
          <6> QED BY <2>1, <3>3, <4>1, <4>2, <6>1, BlockFacts
        <5> QED BY <2>1, <3>0, <4>1, <4>2, <5>1, BlockFacts
      <4>3. CASE u # m
        BY <2>1, <3>0, <4>1, <4>3
      <4> QED BY <4>2, <4>3
    <3> QED BY <3>1, <3>2, <3>3
  <2> QED BY <2>2, <2>3, <2>4, <2>5 DEF IsTiling, cs
<1> QED BY <1>1, <1>2

(* Trimming keeps the tiling and the block, with all of n or all it had.   *)
LEMMA TrimTiles ==
  ASSUME NEW bs, IsTiling(bs), NEW s \in DOMAIN bs, NEW n \in Nat
  PROVE  IsTiling(Trim(bs, s, n)) /\ s \in DOMAIN Trim(bs, s, n)
<1>1. CASE bs[s].paras > n
  <2>1. n < bs[s].paras
    BY <1>1, BlockFacts
  <2>2. DOMAIN Split(bs, s, n) = DOMAIN bs \union {s + 1 + n}
    <3>1. IsSplit(bs, s, n, Split(bs, s, n), s + 1 + n)
      BY <2>1, SplitFacts
    <3> QED BY <3>1 DEF IsSplit
  <2> QED BY <1>1, <2>2, SplitTiles DEF Trim
<1>2. CASE ~(bs[s].paras > n)
  BY <1>2 DEF Trim
<1> QED BY <1>1, <1>2

(* Changing what a block says other than its size keeps the tiling.        *)
LEMMA RelabelTiles ==
  ASSUME NEW bs, IsTiling(bs), NEW cs, DOMAIN cs = DOMAIN bs,
         cs \in [DOMAIN bs -> Block],
         \A t \in DOMAIN bs : cs[t].paras = bs[t].paras
  PROVE  IsTiling(cs) /\ \A t \in DOMAIN bs : End(cs, t) = End(bs, t)
<1>1. \A t \in DOMAIN bs : End(cs, t) = End(bs, t)
  BY DEF End
<1> QED BY <1>1 DEF IsTiling, IsArena, StartsAtBottom, Contiguous, Disjoint

(* cs is ts with block s claimed, as far as free blocks can tell.          *)
IsClaimed(ts, s, cs) ==
  /\ DOMAIN cs = DOMAIN ts
  /\ cs[s].used
  /\ \A t \in DOMAIN ts : End(cs, t) = End(ts, t) /\ (t # s => cs[t] = ts[t])

(* mem_own changes an owner and no extent.                                 *)
LEMMA ClaimTiles ==
  ASSUME NEW bs, IsTiling(bs), NEW s \in DOMAIN bs, NEW owner \in Word
  PROVE  /\ IsTiling(Claim(bs, s, owner))
         /\ IsClaimed(bs, s, Claim(bs, s, owner))
<1> DEFINE cs == Claim(bs, s, owner)
<1>1. bs \in [DOMAIN bs -> Block]
  BY DEF IsTiling, IsArena
<1>2. cs = [bs EXCEPT ![s] = [bs[s] EXCEPT !.used = TRUE, !.owner = owner]]
  BY <1>1 DEF Claim, Block
<1>3. DOMAIN cs = DOMAIN bs /\ cs \in [DOMAIN bs -> Block]
  BY <1>1, <1>2 DEF Block
<1>4. cs[s].used /\ cs[s].paras = bs[s].paras
  BY <1>1, <1>2 DEF Block
<1>5. \A t \in DOMAIN bs : t # s => cs[t] = bs[t]
  BY <1>1, <1>2
<1>6. IsTiling(cs) /\ \A t \in DOMAIN bs : End(cs, t) = End(bs, t)
  BY <1>3, <1>4, <1>5, RelabelTiles
<1>7. IsClaimed(bs, s, cs)
  BY <1>3, <1>4, <1>5, <1>6 DEF IsClaimed
<1> QED BY <1>6, <1>7

(* A list whose block s was trimmed to its front and then claimed has no   *)
(* two free neighbours.                                                    *)
LEMMA ClaimedMerged ==
  ASSUME NEW bs, IsTiling(bs), Merged(bs), NEW s \in DOMAIN bs, ~bs[s].used,
         NEW n \in Nat, NEW ts, ts = bs \/ IsSplit(bs, s, n, ts, s + 1 + n),
         NEW cs, IsClaimed(ts, s, cs)
  PROVE  Merged(cs)
<1> SUFFICES ASSUME NEW t \in DOMAIN cs, ~cs[t].used, IsFree(cs, End(cs, t))
             PROVE  FALSE
  BY DEF Merged
<1>3. t # s /\ t \in DOMAIN ts /\ ~ts[t].used /\ End(ts, t) # s /\ IsFree(ts, End(ts, t))
  BY DEF IsFree, IsClaimed
<1>4. CASE ts = bs
  BY <1>3, <1>4 DEF Merged
<1>5. CASE IsSplit(bs, s, n, ts, s + 1 + n)
  <2> DEFINE m == s + 1 + n
  <2>1. IsSplit(bs, s, n, ts, m)
    BY <1>5
  <2> HIDE DEF m
  <2>2. \A u \in DOMAIN bs : ~bs[u].used => ~IsFree(bs, End(bs, u))
    BY DEF Merged
  <2>3. \A u \in DOMAIN bs : End(bs, u) \in DOMAIN bs \union {HeapEnd} /\ u < HeapEnd
    BY BlockFacts
  <2>4. m # HeapEnd /\ HeapEnd \notin DOMAIN ts
    BY <2>1, <2>3, BlockFacts, ArenaAssumption DEF IsSplit
  <2>5. CASE t = m
    <3>1. End(ts, t) = End(bs, s) /\ End(bs, s) \in DOMAIN bs /\ End(bs, s) # s
      BY <1>3, <2>1, <2>3, <2>4, <2>5, BlockFacts DEF IsSplit, IsFree
    <3> QED BY <1>3, <2>1, <2>2, <3>1 DEF IsSplit, IsFree
  <2>6. CASE t # m
    <3>1. t \in DOMAIN bs /\ End(ts, t) = End(bs, t) /\ ts[t] = bs[t]
      BY <1>3, <2>1, <2>6 DEF IsSplit
    <3>2. End(bs, t) \in DOMAIN bs
      BY <1>3, <2>1, <2>3, <2>4, <3>1 DEF IsSplit, IsFree
    <3> QED BY <1>3, <2>1, <2>2, <3>1, <3>2 DEF IsSplit, IsFree
  <2> QED BY <2>5, <2>6
<1> QED BY <1>4, <1>5

(* Claiming the front of a free block leaves no two free neighbours.       *)
LEMMA ClaimMerged ==
  ASSUME NEW bs, IsTiling(bs), Merged(bs), NEW s \in DOMAIN bs, ~bs[s].used,
         NEW n \in Nat, NEW owner \in Word
  PROVE  Merged(Claim(Trim(bs, s, n), s, owner))
<1>1. IsTiling(Trim(bs, s, n)) /\ s \in DOMAIN Trim(bs, s, n)
  BY TrimTiles
<1>2. Trim(bs, s, n) = bs \/ IsSplit(bs, s, n, Trim(bs, s, n), s + 1 + n)
  <2>1. CASE bs[s].paras > n
    BY <2>1, SplitFacts, BlockFacts DEF Trim
  <2>2. CASE ~(bs[s].paras > n)
    BY <2>2 DEF Trim
  <2> QED BY <2>1, <2>2
<1>3. IsClaimed(Trim(bs, s, n), s, Claim(Trim(bs, s, n), s, owner))
  BY <1>1, ClaimTiles
<1> QED BY <1>2, <1>3, ClaimedMerged

(* mem_own.                                                                *)
LEMMA OwnTiles ==
  ASSUME NEW bs, IsTiling(bs), NEW seg \in Nat, NEW n \in Nat, NEW owner \in Word
  PROVE  /\ IsTiling(Own(bs, seg, n, owner))
         /\ Merged(bs) => Merged(Own(bs, seg, n, owner))
<1>1. CASE n = 0 \/ \A s \in Containing(bs, seg) : bs[s].used
  BY <1>1 DEF Own
<1>2. CASE ~(n = 0 \/ \A s \in Containing(bs, seg) : bs[s].used)
  <2> DEFINE s      == CHOOSE s \in Containing(bs, seg) : TRUE
             gapped == IF seg > s + 1 THEN Split(bs, s, seg - s - 2) ELSE bs
             taken  == Claim(Trim(gapped, seg - 1, n), seg - 1, owner)
  <2>1. Own(bs, seg, n, owner) = Coalesce(taken)
    BY <1>2 DEF Own
  <2>2. s \in DOMAIN bs /\ s + 1 <= seg /\ seg < End(bs, s)
    BY <1>2 DEF Containing
  <2> HIDE DEF s
  <2>3. s \in Nat /\ bs[s].paras \in Nat
    BY <2>2, BlockFacts
  <2>4. IsTiling(gapped) /\ seg - 1 \in DOMAIN gapped
    <3>1. CASE seg > s + 1
      <4>1. seg - s - 2 \in Nat /\ seg - s - 2 < bs[s].paras
        BY <2>2, <2>3, <3>1 DEF End
      <4>2. IsSplit(bs, s, seg - s - 2, Split(bs, s, seg - s - 2), s + 1 + (seg - s - 2))
        BY <2>2, <4>1, SplitFacts
      <4>3. s + 1 + (seg - s - 2) = seg - 1
        BY <2>3
      <4> QED BY <2>2, <3>1, <4>1, <4>2, <4>3, SplitTiles DEF IsSplit
    <3>2. CASE ~(seg > s + 1)
      BY <2>2, <2>3, <3>2
    <3> QED BY <3>1, <3>2
  <2> HIDE DEF gapped
  <2>5. IsTiling(taken)
    BY <2>4, TrimTiles, ClaimTiles
  <2> QED BY <2>1, <2>5, CoalesceTiles
<1> QED BY <1>1, <1>2

(* The largest member of a set of free blocks exists.                      *)
LEMMA RoomiestExists ==
  ASSUME NEW bs, IsTiling(bs), NEW S, S \subseteq DOMAIN bs, S # {}
  PROVE  Roomiest(bs, S) # {} /\ Roomiest(bs, S) \subseteq S
<1> DEFINE lacks == {HeapEnd - bs[s].paras : s \in S}
<1>1. \A s \in S : bs[s].paras \in Nat /\ bs[s].paras <= HeapEnd
  BY BlockFacts DEF Block
<1>2. lacks \subseteq Nat /\ lacks # {}
  BY <1>1, ArenaAssumption
<1>3. PICK l \in lacks : \A k \in lacks : l <= k
  BY <1>2, LeastExists
<1>4. PICK s \in S : l = HeapEnd - bs[s].paras
  BY <1>3
<1>5. ASSUME NEW t \in S PROVE bs[t].paras <= bs[s].paras
  <2>1. l <= HeapEnd - bs[t].paras
    BY <1>3
  <2> QED BY <1>1, <1>4, <2>1, ArenaAssumption
<1> QED BY <1>4, <1>5 DEF Roomiest

(* mem_alloc_at: the block handed out starts at a fresh used MCB.          *)
LEMMA AllocTiles ==
  ASSUME NEW bs, IsTiling(bs), NEW n \in Nat, NEW biggest \in BOOLEAN, NEW owner \in Word
  PROVE  /\ IsTiling(Alloc(bs, n, biggest, owner).blocks)
         /\ Merged(bs) => Merged(Alloc(bs, n, biggest, owner).blocks)
         /\ Alloc(bs, n, biggest, owner).seg \in 0 .. HeapEnd
         /\ Alloc(bs, n, biggest, owner).seg # 0 =>
              IsUsed(Alloc(bs, n, biggest, owner).blocks, Alloc(bs, n, biggest, owner).seg - 1)
<1> DEFINE k    == AtLeastOne(n)
           fits == Fitting(bs, k)
           cand == IF biggest THEN Roomiest(bs, fits) ELSE fits
           pick == Least(cand)
           res  == Claim(Trim(bs, pick, k), pick, owner)
<1>1. CASE fits = {}
  BY <1>1, ArenaAssumption DEF Alloc
<1>2. CASE fits # {}
  <2>1. Alloc(bs, n, biggest, owner) = [seg |-> pick + 1, blocks |-> res]
    BY <1>2 DEF Alloc
  <2>2. k \in Nat
    BY DEF AtLeastOne
  <2>3. fits \subseteq DOMAIN bs /\ \A s \in fits : ~bs[s].used
    BY DEF Fitting
  <2> HIDE DEF fits, k
  <2>4. cand # {} /\ cand \subseteq fits
    BY <1>2, <2>3, RoomiestExists
  <2> HIDE DEF cand
  <2>5. pick \in cand
    <3>1. cand \subseteq Nat
      BY <2>3, <2>4, BlockFacts
    <3> QED BY <2>4, <3>1, LeastExists
  <2>6. pick \in DOMAIN bs /\ ~bs[pick].used
    BY <2>3, <2>4, <2>5
  <2> HIDE DEF pick
  <2>7. pick \in Nat /\ pick < HeapEnd
    BY <2>6, BlockFacts
  <2>8. IsTiling(Trim(bs, pick, k)) /\ pick \in DOMAIN Trim(bs, pick, k)
    BY <2>2, <2>6, TrimTiles
  <2>9. IsTiling(res) /\ IsUsed(res, pick)
    BY <2>8, ClaimTiles DEF IsUsed, IsClaimed
  <2>10. Merged(bs) => Merged(res)
    BY <2>2, <2>6, ClaimMerged
  <2> QED BY <2>1, <2>7, <2>9, <2>10, ArenaAssumption
<1> QED BY <1>1, <1>2

(* mem_free.                                                               *)
LEMMA FreeTiles ==
  ASSUME NEW bs, IsTiling(bs), NEW seg \in Nat
  PROVE  /\ IsTiling(Free(bs, seg).blocks)
         /\ Merged(bs) => Merged(Free(bs, seg).blocks)
<1>1. CASE ~IsUsed(bs, seg - 1)
  BY <1>1 DEF Free
<1>2. CASE IsUsed(bs, seg - 1)
  <2> DEFINE s  == seg - 1
             cs == [bs EXCEPT ![s] = FreeBlock(bs[s].paras)]
  <2>1. Free(bs, seg).blocks = Coalesce(cs)
    BY <1>2 DEF Free
  <2>2. s \in DOMAIN bs /\ bs[s].paras \in 0 .. HeapEnd /\ bs \in [DOMAIN bs -> Block]
    BY <1>2, BlockFacts DEF IsUsed, Block, IsTiling, IsArena
  <2>3. FreeBlock(bs[s].paras) \in Block /\ FreeBlock(bs[s].paras).paras = bs[s].paras
    BY <2>2, FreeBlockType
  <2>4. DOMAIN cs = DOMAIN bs /\ cs \in [DOMAIN bs -> Block]
    BY <2>2, <2>3
  <2>5. \A t \in DOMAIN bs : cs[t].paras = bs[t].paras
    BY <2>2, <2>3
  <2> HIDE DEF cs
  <2>6. IsTiling(cs)
    BY <2>4, <2>5, RelabelTiles
  <2> QED BY <2>1, <2>6, CoalesceTiles
<1> QED BY <1>1, <1>2

(* The extension mem_resize makes before it trims.                         *)
LEMMA ExtendTiles ==
  ASSUME NEW bs, IsTiling(bs), NEW s \in DOMAIN bs
  PROVE  IsTiling(Extend(bs, s)) /\ s \in DOMAIN Extend(bs, s)
<1> DEFINE e    == RunEnd(bs, s)
           gone == {u \in DOMAIN bs : s < u /\ u < e}
           cs   == Extend(bs, s)
<1>1. /\ e \in DOMAIN bs \union {HeapEnd} /\ e \in Nat /\ e <= HeapEnd
      /\ End(bs, s) <= e
  BY RunEndFacts
<1>2. /\ s \in Nat /\ s < HeapEnd /\ s < e /\ ArenaMcb <= s
      /\ s \notin gone /\ e \notin gone
  BY <1>1, BlockFacts, ArenaAssumption
<1>3. cs = [t \in DOMAIN bs \ gone |->
              IF t = s THEN [bs[s] EXCEPT !.paras = e - s - 1] ELSE bs[t]]
  BY DEF Extend, Avail
<1> HIDE DEF cs, e
<1>4. DOMAIN cs = DOMAIN bs \ gone
  BY <1>3
<1>5. cs[s] \in Block /\ cs[s].paras = e - s - 1
  <2>1. bs[s] \in Block /\ e - s - 1 \in 0 .. HeapEnd
    BY <1>1, <1>2, BlockFacts, ArenaAssumption
  <2>2. cs[s] = [bs[s] EXCEPT !.paras = e - s - 1]
    BY <1>2, <1>3
  <2> QED BY <2>1, <2>2 DEF Block
<1>6. End(cs, s) = e
  BY <1>1, <1>2, <1>5 DEF End
<1>7. ASSUME NEW t \in DOMAIN cs, t # s
      PROVE  t \in DOMAIN bs /\ cs[t] = bs[t] /\ End(cs, t) = End(bs, t) /\ cs[t] \in Block
  <2>1. t \in DOMAIN bs /\ cs[t] = bs[t]
    BY <1>3, <1>7
  <2> QED BY <2>1, BlockFacts DEF End
<1>8. IsArena(cs)
  <2>1. cs \in [DOMAIN cs -> Block]
    BY <1>3, <1>4, <1>5, <1>7
  <2> QED BY <1>4, <2>1 DEF IsTiling, IsArena
<1>9. StartsAtBottom(cs)
  BY <1>2, <1>4, BlockFacts, ArenaAssumption DEF IsTiling, StartsAtBottom
<1>10. ASSUME NEW t \in DOMAIN cs, t # s, ~(t < s) PROVE t >= e
  BY <1>1, <1>2, <1>4, <1>10, BlockFacts
<1>11. Contiguous(cs)
  <2> SUFFICES ASSUME NEW t \in DOMAIN cs PROVE End(cs, t) \in DOMAIN cs \union {HeapEnd}
    BY DEF Contiguous
  <2>1. CASE t = s
    BY <1>1, <1>2, <1>4, <1>6, <2>1
  <2>2. CASE t # s /\ t < s
    <3>1. End(bs, t) <= s
      BY <1>7, <2>2 DEF IsTiling, Disjoint
    <3> QED BY <1>2, <1>4, <1>7, <2>2, <3>1, BlockFacts
  <2>3. CASE t # s /\ ~(t < s)
    BY <1>1, <1>4, <1>7, <1>10, <2>3, BlockFacts
  <2> QED BY <2>1, <2>2, <2>3
<1>12. Disjoint(cs)
  <2> SUFFICES ASSUME NEW t \in DOMAIN cs, NEW u \in DOMAIN cs, t < u PROVE End(cs, t) <= u
    BY DEF Disjoint
  <2>1. CASE t = s
    BY <1>1, <1>2, <1>4, <1>6, <1>10, <2>1, BlockFacts
  <2>2. CASE t # s
    BY <1>4, <1>7, <2>2 DEF IsTiling, Disjoint
  <2> QED BY <2>1, <2>2
<1> QED BY <1>2, <1>4, <1>8, <1>9, <1>11, <1>12 DEF IsTiling, cs

(* mem_resize: whatever it answers, the list it leaves is an arena.        *)
LEMMA ResizeTiles ==
  ASSUME NEW bs, IsTiling(bs), NEW seg \in Nat, NEW n \in Nat, NEW owner \in Word
  PROVE  /\ IsTiling(Resize(bs, seg, n, owner).blocks)
         /\ Merged(bs) => Merged(Resize(bs, seg, n, owner).blocks)
<1> DEFINE s  == seg - 1
           b1 == IF IsBlock(bs, seg) THEN bs ELSE Own(bs, seg, 1, owner)
           rs == Resize(bs, seg, n, owner).blocks
<1>1. IsTiling(b1) /\ (Merged(bs) => Merged(b1))
  BY OwnTiles
<1>2. \/ rs = b1
      \/ s \in DOMAIN b1 /\ rs = Coalesce(Split(b1, s, n))
      \/ s \in DOMAIN b1 /\ rs = Coalesce(Trim(Extend(b1, s), s, n))
  BY DEF Resize
<1> HIDE DEF b1, rs
<1>3. CASE rs = b1
  BY <1>1, <1>3 DEF rs
<1>4. CASE s \in DOMAIN b1 /\ rs = Coalesce(Split(b1, s, n))
  BY <1>1, <1>4, SplitTiles, CoalesceTiles DEF rs
<1>5. CASE s \in DOMAIN b1 /\ rs = Coalesce(Trim(Extend(b1, s), s, n))
  <2>1. IsTiling(Extend(b1, s)) /\ s \in DOMAIN Extend(b1, s)
    BY <1>1, <1>5, ExtendTiles
  <2>2. IsTiling(Trim(Extend(b1, s), s, n))
    BY <2>1, TrimTiles
  <2> QED BY <1>5, <2>2, CoalesceTiles DEF rs
<1> QED BY <1>2, <1>3, <1>4, <1>5

----------------------------------------------------------------------------
(* What mem_alloc_at picks: a free block that is large enough.             *)
LEMMA AllocPick ==
  ASSUME NEW bs, IsTiling(bs), NEW n \in Nat, NEW biggest \in BOOLEAN, NEW owner,
         Fitting(bs, AtLeastOne(n)) # {}
  PROVE  \E s \in Fitting(bs, AtLeastOne(n)) :
           /\ Alloc(bs, n, biggest, owner).seg = s + 1
           /\ Alloc(bs, n, biggest, owner).blocks = Claim(Trim(bs, s, AtLeastOne(n)), s, owner)
           /\ ~biggest => \A t \in Fitting(bs, AtLeastOne(n)) : s <= t
<1> DEFINE k    == AtLeastOne(n)
           fits == Fitting(bs, k)
           cand == IF biggest THEN Roomiest(bs, fits) ELSE fits
           pick == Least(cand)
<1>1. fits \subseteq DOMAIN bs /\ fits # {}
  BY DEF Fitting
<1>2. Alloc(bs, n, biggest, owner) =
        [seg |-> pick + 1, blocks |-> Claim(Trim(bs, pick, k), pick, owner)]
  BY <1>1 DEF Alloc
<1> HIDE DEF fits
<1>3. cand # {} /\ cand \subseteq fits
  BY <1>1, RoomiestExists
<1>4. ~biggest => cand = fits
  OBVIOUS
<1> HIDE DEF cand
<1>5. pick \in cand /\ \A t \in cand : pick <= t
  <2>1. cand \subseteq Nat
    BY <1>1, <1>3, BlockFacts
  <2> QED BY <1>3, <2>1, LeastExists
<1> QED BY <1>2, <1>3, <1>4, <1>5 DEF fits

(* mem_alloc_at refuses exactly when every free block is too small.        *)
LEMMA AllocRefuses ==
  ASSUME NEW bs, IsTiling(bs), NEW n \in Nat, NEW biggest \in BOOLEAN, NEW owner
  PROVE  Alloc(bs, n, biggest, owner).seg = 0 <=>
           \A s \in DOMAIN bs : ~bs[s].used => bs[s].paras < AtLeastOne(n)
<1>1. AtLeastOne(n) \in Nat
  BY DEF AtLeastOne
<1>2. \A s \in DOMAIN bs : bs[s].paras \in Nat /\ s \in Nat
  BY BlockFacts
<1>3. Fitting(bs, AtLeastOne(n)) = {} <=>
        \A s \in DOMAIN bs : ~bs[s].used => bs[s].paras < AtLeastOne(n)
  BY <1>1, <1>2 DEF Fitting
<1>4. CASE Fitting(bs, AtLeastOne(n)) = {}
  BY <1>3, <1>4 DEF Alloc
<1>5. CASE Fitting(bs, AtLeastOne(n)) # {}
  <2>1. PICK s \in Fitting(bs, AtLeastOne(n)) : Alloc(bs, n, biggest, owner).seg = s + 1
    BY <1>5, AllocPick
  <2>2. s \in Nat
    BY <1>2 DEF Fitting
  <2> QED BY <1>3, <1>5, <2>1, <2>2
<1> QED BY <1>4, <1>5

(* A block whose neighbour is not free can grow by nothing.                *)
LEMMA TightBlock ==
  ASSUME NEW bs, IsTiling(bs), NEW s \in DOMAIN bs, ~IsFree(bs, End(bs, s))
  PROVE  RunEnd(bs, s) = End(bs, s) /\ Avail(bs, s) = bs[s].paras
<1>1. s \in Nat /\ bs[s].paras \in Nat /\ End(bs, s) \in Nat
  BY BlockFacts
<1>2. RunEnd(bs, s) \in Nat /\ End(bs, s) <= RunEnd(bs, s) /\ RunEnd(bs, s) <= End(bs, s)
  BY <1>1, RunEndFacts
<1> QED BY <1>1, <1>2 DEF Avail, End

(* A used block is not touched by mem_coalesce.                            *)
LEMMA CoalesceUsed ==
  ASSUME NEW bs, IsTiling(bs)
  PROVE  /\ \A s \in DOMAIN bs : bs[s].used => s \in DOMAIN Coalesce(bs) /\ Coalesce(bs)[s] = bs[s]
         /\ \A s \in DOMAIN Coalesce(bs) :
              Coalesce(bs)[s].used => s \in DOMAIN bs /\ bs[s].used
<1> DEFINE kept == DOMAIN bs \ Absorbed(bs)
           cs   == Coalesce(bs)
<1>1. cs = [s \in kept |->
             IF bs[s].used THEN bs[s] ELSE [bs[s] EXCEPT !.paras = RunEnd(bs, s) - s - 1]]
  BY DEF Coalesce
<1>2. \A s \in DOMAIN bs : bs[s].used => s \in kept
  BY DEF Absorbed, IsFree
<1> HIDE DEF cs
<1>3. ASSUME NEW s \in kept, ~bs[s].used PROVE cs[s].used = bs[s].used
  BY <1>1, <1>3, BlockFacts DEF Block
<1> QED BY <1>1, <1>2, <1>3 DEF cs

(* mem_resize's extension leaves a block of the size it reports.           *)
LEMMA ExtendSize ==
  ASSUME NEW bs, IsTiling(bs), NEW s \in DOMAIN bs
  PROVE  /\ Avail(bs, s) \in Nat /\ bs[s].paras <= Avail(bs, s)
         /\ s \in DOMAIN Extend(bs, s)
         /\ Extend(bs, s)[s].paras = Avail(bs, s)
         /\ Extend(bs, s)[s].used = bs[s].used /\ Extend(bs, s)[s].owner = bs[s].owner
<1>1. s \in Nat /\ bs[s].paras \in Nat /\ bs[s] \in Block
  BY BlockFacts
<1>2. RunEnd(bs, s) \in Nat /\ s + 1 + bs[s].paras <= RunEnd(bs, s)
  BY RunEndFacts DEF End
<1>3. Avail(bs, s) \in Nat /\ bs[s].paras <= Avail(bs, s)
  BY <1>1, <1>2 DEF Avail
<1>4. s \in DOMAIN Extend(bs, s)
  BY ExtendTiles
<1>5. Extend(bs, s)[s] = [bs[s] EXCEPT !.paras = Avail(bs, s)]
  BY <1>1, <1>4 DEF Extend
<1> QED BY <1>1, <1>3, <1>4, <1>5 DEF Block

(* The paths of mem_resize over the list it works on.                      *)
LEMMA ResizeCases ==
  ASSUME NEW bs, NEW seg \in Nat, NEW n \in Nat, NEW owner,
         NEW b1, b1 = (IF IsBlock(bs, seg) THEN bs ELSE Own(bs, seg, 1, owner)),
         IsTiling(b1)
  PROVE  LET s == seg - 1
             r == Resize(bs, seg, n, owner)
         IN  \/ /\ ~r.ok /\ r.blocks = b1
                /\ s \in DOMAIN b1 => n > b1[s].paras /\ n > Avail(b1, s)
             \/ /\ s \in DOMAIN b1 /\ r.ok
                /\ \/ n = b1[s].paras /\ r.blocks = b1
                   \/ n < b1[s].paras /\ r.blocks = Coalesce(Split(b1, s, n))
                   \/ /\ n > b1[s].paras /\ n <= Avail(b1, s)
                      /\ r.blocks = Coalesce(Trim(Extend(b1, s), s, n))
<1> DEFINE s == seg - 1
           r == Resize(bs, seg, n, owner)
<1>1. r = CASE s \notin DOMAIN b1 -> [ok |-> FALSE, blocks |-> b1]
            [] s \in DOMAIN b1 /\ n = b1[s].paras -> [ok |-> TRUE, blocks |-> b1]
            [] s \in DOMAIN b1 /\ n < b1[s].paras ->
                 [ok |-> TRUE, blocks |-> Coalesce(Split(b1, s, n))]
            [] s \in DOMAIN b1 /\ n > b1[s].paras /\ n > Avail(b1, s) ->
                 [ok |-> FALSE, blocks |-> b1]
            [] OTHER -> [ok |-> TRUE, blocks |-> Coalesce(Trim(Extend(b1, s), s, n))]
  BY DEF Resize
<1> HIDE DEF r, s
<1>2. CASE s \notin DOMAIN b1
  BY <1>1, <1>2 DEF r, s
<1>3. CASE s \in DOMAIN b1
  <2>1. b1[s].paras \in Nat /\ Avail(b1, s) \in Nat
    BY <1>3, BlockFacts, ExtendSize
  <2>2. CASE n = b1[s].paras
    BY <1>1, <1>3, <2>2 DEF r, s
  <2>3. CASE n < b1[s].paras
    BY <1>1, <1>3, <2>1, <2>3 DEF r, s
  <2>4. CASE n > b1[s].paras /\ n > Avail(b1, s)
    BY <1>1, <1>3, <2>1, <2>4 DEF r, s
  <2>5. CASE n > b1[s].paras /\ n <= Avail(b1, s)
    BY <1>1, <1>3, <2>1, <2>5 DEF r, s
  <2> QED BY <2>1, <2>2, <2>3, <2>4, <2>5
<1> QED BY <1>2, <1>3

(* A refused AH=4Ah reports less than was asked for; asking for what it    *)
(* reports succeeds, and for one paragraph more fails again.               *)
LEMMA ResizeReports ==
  ASSUME NEW bs, IsTiling(bs), Merged(bs), NEW seg \in Nat, NEW n \in Nat, NEW owner \in Word,
         NEW cs, cs = Resize(bs, seg, n, owner).blocks,
         NEW got, got = Attainable(cs, seg),
         ~Resize(bs, seg, n, owner).ok, got > 0
  PROVE  /\ got < n
         /\ Resize(cs, seg, got, owner).ok
         /\ Resize(cs, seg, got, owner).blocks[seg - 1].paras = got
         /\ ~Resize(cs, seg, got + 1, owner).ok
<1> DEFINE s  == seg - 1
           b1 == IF IsBlock(bs, seg) THEN bs ELSE Own(bs, seg, 1, owner)
<1>1. IsTiling(b1) /\ Merged(b1)
  BY OwnTiles
<1>2. cs = b1 /\ (s \in DOMAIN b1 => n > Avail(b1, s))
  BY <1>1, ResizeCases
<1> HIDE DEF b1
<1>3. s \in DOMAIN cs /\ IsBlock(cs, seg) /\ got = Avail(cs, s)
  BY <1>2 DEF Attainable, IsBlock
<1>4. IsTiling(cs) /\ Merged(cs) /\ n > got
  BY <1>1, <1>2, <1>3
<1>5. got \in Nat /\ cs[s].paras \in Nat /\ cs[s].paras <= got
  BY <1>3, <1>4, ExtendSize, BlockFacts
<1>6. ~Resize(cs, seg, got + 1, owner).ok
  <2>1. got + 1 > cs[s].paras /\ got + 1 > got /\ ~(got + 1 = cs[s].paras) /\ ~(got + 1 < cs[s].paras)
    BY <1>5
  <2> QED BY <1>3, <1>4, <1>5, <2>1, ResizeCases
<1>7. CASE got = cs[s].paras
  <2>1. Resize(cs, seg, got, owner).ok /\ Resize(cs, seg, got, owner).blocks = cs
    BY <1>3, <1>4, <1>5, <1>7, ResizeCases
  <2> QED BY <1>4, <1>5, <1>6, <1>7, <2>1
<1>8. CASE got # cs[s].paras
  <2> DEFINE es == Extend(cs, s)
  <2>1. got > cs[s].paras /\ ~(got < cs[s].paras) /\ ~(got > got)
    BY <1>5, <1>8
  <2>2. /\ Resize(cs, seg, got, owner).ok
        /\ Resize(cs, seg, got, owner).blocks = Coalesce(Trim(es, s, got))
    BY <1>3, <1>4, <1>5, <1>8, <2>1, ResizeCases
  <2>3. s \in DOMAIN es /\ es[s].paras = got /\ es[s].used = cs[s].used /\ IsTiling(es)
    BY <1>3, <1>4, ExtendSize, ExtendTiles
  <2>4. cs[s].used
    <3>1. ~cs[s].used => ~IsFree(cs, End(cs, s))
      BY <1>3, <1>4 DEF Merged
    <3> QED BY <1>3, <1>4, <1>8, <3>1, TightBlock
  <2> HIDE DEF es
  <2>5. Trim(es, s, got) = es
    BY <1>5, <2>3 DEF Trim
  <2>6. Coalesce(es)[s] = es[s]
    BY <2>3, <2>4, CoalesceUsed
  <2> QED BY <1>4, <1>6, <2>2, <2>3, <2>5, <2>6
<1> QED BY <1>7, <1>8

----------------------------------------------------------------------------
(* What a call may do to blocks that are in use: those of bs outside gone  *)
(* are in cs as they were, and a used block of cs was one of bs, with its  *)
(* owner, or is one of fresh, with the given owner.                        *)
Kept(bs, cs, gone, fresh, owner) ==
  /\ \A s \in DOMAIN bs \ gone : bs[s].used => s \in DOMAIN cs /\ cs[s] = bs[s]
  /\ \A s \in DOMAIN cs : cs[s].used =>
       \/ s \in DOMAIN bs /\ bs[s].used /\ cs[s].owner = bs[s].owner
       \/ s \in fresh /\ cs[s].owner = owner

(* A call that changes nothing keeps every block.                          *)
LEMMA KeptSelf ==
  ASSUME NEW bs, NEW gone, NEW fresh, NEW owner
  PROVE  Kept(bs, bs, gone, fresh, owner)
BY Zenon DEF Kept

(* One call after another.                                                 *)
LEMMA KeptThrough ==
  ASSUME NEW bs, NEW cs, NEW ds, NEW gone, NEW fresh, NEW owner,
         Kept(bs, cs, gone, fresh, owner), Kept(cs, ds, gone, fresh, owner)
  PROVE  Kept(bs, ds, gone, fresh, owner)
BY DEF Kept

(* What may go or come need not.                                           *)
LEMMA KeptMore ==
  ASSUME NEW bs, NEW cs, NEW gone, NEW fresh, NEW more, NEW fresher, NEW owner,
         Kept(bs, cs, gone, fresh, owner), gone \subseteq more, fresh \subseteq fresher
  PROVE  Kept(bs, cs, more, fresher, owner)
BY DEF Kept

(* The same, about one block.                                              *)
LEMMA KeptAround ==
  ASSUME NEW bs, NEW cs, NEW s, NEW owner,
         Kept(bs, cs, {s}, {}, owner) \/ Kept(bs, cs, {}, {s}, owner)
  PROVE  Kept(bs, cs, {s}, {s}, owner)
BY DEF Kept

(* A block that was free is none of those that are kept.                   *)
LEMMA KeptButFree ==
  ASSUME NEW bs, NEW cs, NEW s, NEW fresh, NEW owner,
         Kept(bs, cs, {s}, fresh, owner), s \in DOMAIN bs => ~bs[s].used
  PROVE  Kept(bs, cs, {}, fresh, owner)
BY DEF Kept

(* mem_coalesce touches free blocks only.                                  *)
LEMMA CoalesceKeeps ==
  ASSUME NEW bs, IsTiling(bs), NEW owner
  PROVE  Kept(bs, Coalesce(bs), {}, {}, owner)
BY CoalesceUsed DEF Kept

(* mem_split, and the trimming that uses it, change one block's length and *)
(* add a free one.                                                         *)
LEMMA TrimKeeps ==
  ASSUME NEW bs, IsTiling(bs), NEW s \in DOMAIN bs, NEW n \in Nat, NEW owner
  PROVE  /\ Kept(bs, Split(bs, s, n), {s}, {}, owner)
         /\ Kept(bs, Trim(bs, s, n), {s}, {}, owner)
         /\ s \in DOMAIN Split(bs, s, n) /\ Split(bs, s, n)[s].used = bs[s].used
         /\ s \in DOMAIN Trim(bs, s, n) /\ Trim(bs, s, n)[s].used = bs[s].used
<1>1. bs[s].paras \in Nat /\ bs[s] \in Block
  BY BlockFacts
<1>2. /\ Kept(bs, Split(bs, s, n), {s}, {}, owner)
      /\ s \in DOMAIN Split(bs, s, n) /\ Split(bs, s, n)[s].used = bs[s].used
  <2>1. CASE bs[s].paras < n + 1
    <3>1. Split(bs, s, n) = bs
      BY <2>1 DEF Split
    <3> QED BY <3>1, KeptSelf
  <2>2. CASE ~(bs[s].paras < n + 1)
    <3> DEFINE cs == Split(bs, s, n)
    <3>1. IsSplit(bs, s, n, cs, s + 1 + n)
      BY <1>1, <2>2, SplitFacts
    <3> HIDE DEF cs
    <3>2. cs[s].owner = bs[s].owner
      BY <1>1, <3>1 DEF IsSplit, Block
    <3> QED BY <3>1, <3>2 DEF IsSplit, Kept, cs
  <2> QED BY <2>1, <2>2
<1>3. Trim(bs, s, n) = Split(bs, s, n) \/ Trim(bs, s, n) = bs
  BY DEF Trim
<1> QED BY <1>2, <1>3, KeptSelf

(* A free block is claimed.                                                *)
LEMMA ClaimKeeps ==
  ASSUME NEW bs, IsTiling(bs), NEW s \in DOMAIN bs, ~bs[s].used, NEW owner \in Word
  PROVE  /\ Kept(bs, Claim(bs, s, owner), {}, {s}, owner)
         /\ IsUsed(Claim(bs, s, owner), s) /\ Claim(bs, s, owner)[s].owner = owner
         /\ Claim(bs, s, owner)[s].paras = bs[s].paras
<1> DEFINE cs == Claim(bs, s, owner)
<1>1. IsClaimed(bs, s, cs)
  BY ClaimTiles
<1>2. cs[s].owner = owner /\ cs[s].paras = bs[s].paras
  <2>1. bs \in [DOMAIN bs -> Block]
    BY DEF IsTiling, IsArena
  <2>2. cs[s] = [bs[s] EXCEPT !.used = TRUE, !.owner = owner]
    BY <2>1 DEF Claim, Block
  <2> QED BY <2>1, <2>2 DEF Block
<1> HIDE DEF cs
<1> QED BY <1>1, <1>2 DEF IsClaimed, Kept, IsUsed, cs

(* A block trimmed to no more than it has is as long as was asked.         *)
LEMMA TrimSize ==
  ASSUME NEW bs, IsTiling(bs), NEW s \in DOMAIN bs, NEW n \in Nat, n <= bs[s].paras
  PROVE  Trim(bs, s, n)[s].paras = n
<1>1. bs[s].paras \in Nat
  BY BlockFacts
<1>2. CASE n < bs[s].paras
  <2>1. IsSplit(bs, s, n, Split(bs, s, n), s + 1 + n)
    BY <1>2, SplitFacts
  <2> QED BY <1>2, <2>1 DEF Trim, IsSplit
<1>3. CASE n = bs[s].paras
  <2>1. Trim(bs, s, n) = bs
    BY <1>1, <1>3 DEF Trim
  <2> QED BY <1>3, <2>1
<1> QED BY <1>1, <1>2, <1>3

(* A segment is inside one block at most.                                  *)
LEMMA ContainingUnique ==
  ASSUME NEW bs, IsTiling(bs), NEW seg \in Nat,
         NEW s \in Containing(bs, seg), NEW t \in Containing(bs, seg)
  PROVE  s = t
<1>1. /\ s \in DOMAIN bs /\ s + 1 <= seg /\ seg < End(bs, s)
      /\ t \in DOMAIN bs /\ t + 1 <= seg /\ seg < End(bs, t)
  BY DEF Containing
<1>2. s \in Nat /\ t \in Nat /\ End(bs, s) \in Nat /\ End(bs, t) \in Nat
  BY <1>1, BlockFacts
<1>3. (s < t => End(bs, s) <= t) /\ (t < s => End(bs, t) <= s)
  BY <1>1 DEF IsTiling, Disjoint
<1> QED BY <1>1, <1>2, <1>3

(* mem_own inside a free block: the claim starts at seg and is as long as  *)
(* was asked, or as what the block has from there.                         *)
LEMMA OwnClaims ==
  ASSUME NEW bs, IsTiling(bs), NEW seg \in Nat, NEW n \in Nat, n # 0, NEW owner \in Word,
         NEW s \in Containing(bs, seg), ~bs[s].used
  PROVE  /\ Kept(bs, Own(bs, seg, n, owner), {}, {seg - 1}, owner)
         /\ IsUsed(Own(bs, seg, n, owner), seg - 1)
         /\ Own(bs, seg, n, owner)[seg - 1].owner = owner
         /\ n <= End(bs, s) - seg => Own(bs, seg, n, owner)[seg - 1].paras = n
<1> DEFINE gapped == IF seg > s + 1 THEN Split(bs, s, seg - s - 2) ELSE bs
           cut    == Trim(gapped, seg - 1, n)
           taken  == Claim(cut, seg - 1, owner)
<1>1. Own(bs, seg, n, owner) = Coalesce(taken)
  <2>1. (CHOOSE t \in Containing(bs, seg) : TRUE) = s
    BY ContainingUnique
  <2> QED BY <2>1 DEF Own
<1>2. /\ s \in DOMAIN bs /\ s + 1 <= seg /\ seg < End(bs, s)
      /\ s \in Nat /\ bs[s].paras \in Nat /\ End(bs, s) = s + 1 + bs[s].paras
  BY BlockFacts DEF Containing, End
<1>3. /\ IsTiling(gapped) /\ seg - 1 \in DOMAIN gapped /\ ~gapped[seg - 1].used
      /\ gapped[seg - 1].paras = End(bs, s) - seg
      /\ Kept(bs, gapped, {}, {seg - 1}, owner)
  <2>1. CASE seg > s + 1
    <3> DEFINE k == seg - s - 2
    <3>1. k \in Nat /\ k < bs[s].paras /\ s + 1 + k = seg - 1
          /\ bs[s].paras - k - 1 = End(bs, s) - seg
      BY <1>2, <2>1
    <3>2. IsSplit(bs, s, k, gapped, seg - 1) /\ IsTiling(gapped)
      BY <1>2, <2>1, <3>1, SplitFacts, SplitTiles
    <3>3. Kept(bs, gapped, {s}, {}, owner)
      BY <1>2, <2>1, <3>1, TrimKeeps
    <3> HIDE DEF gapped, k
    <3>4. Kept(bs, gapped, {}, {seg - 1}, owner)
      BY <3>3, KeptButFree, KeptMore
    <3> QED BY <3>1, <3>2, <3>4 DEF IsSplit, FreeBlock
  <2>2. CASE ~(seg > s + 1)
    <3>1. gapped = bs /\ seg - 1 = s
      BY <1>2, <2>2
    <3> QED BY <1>2, <3>1, KeptSelf
  <2> QED BY <2>1, <2>2
<1> HIDE DEF gapped
<1>4. /\ IsTiling(cut) /\ seg - 1 \in DOMAIN cut /\ ~cut[seg - 1].used
      /\ Kept(gapped, cut, {}, {seg - 1}, owner)
      /\ n <= gapped[seg - 1].paras => cut[seg - 1].paras = n
  <2>1. Kept(gapped, cut, {seg - 1}, {}, owner)
    BY <1>3, TrimKeeps
  <2>2. Kept(gapped, cut, {}, {seg - 1}, owner)
    BY <1>3, <2>1, KeptButFree, KeptMore
  <2> QED BY <1>3, <2>2, TrimTiles, TrimKeeps, TrimSize
<1> HIDE DEF cut
<1>5. /\ IsTiling(taken) /\ Kept(cut, taken, {}, {seg - 1}, owner)
      /\ IsUsed(taken, seg - 1) /\ taken[seg - 1].owner = owner
      /\ taken[seg - 1].paras = cut[seg - 1].paras
  BY <1>4, ClaimTiles, ClaimKeeps
<1> HIDE DEF taken
<1>6. Kept(taken, Coalesce(taken), {}, {seg - 1}, owner)
  BY <1>5, CoalesceKeeps, KeptMore
<1>7. Kept(bs, Coalesce(taken), {}, {seg - 1}, owner)
  BY <1>3, <1>4, <1>5, <1>6, KeptThrough
<1>8. IsUsed(Coalesce(taken), seg - 1) /\ Coalesce(taken)[seg - 1] = taken[seg - 1]
  BY <1>5, CoalesceUsed DEF IsUsed
<1> QED BY <1>1, <1>3, <1>4, <1>5, <1>7, <1>8

(* mem_own.                                                                *)
LEMMA OwnKeeps ==
  ASSUME NEW bs, IsTiling(bs), NEW seg \in Nat, NEW n \in Nat, NEW owner \in Word
  PROVE  Kept(bs, Own(bs, seg, n, owner), {}, {seg - 1}, owner)
<1>1. CASE n = 0 \/ \A s \in Containing(bs, seg) : bs[s].used
  <2>1. Own(bs, seg, n, owner) = bs
    BY <1>1 DEF Own
  <2> QED BY <2>1, KeptSelf
<1>2. CASE n # 0 /\ \E s \in Containing(bs, seg) : ~bs[s].used
  BY <1>2, OwnClaims
<1> QED BY <1>1, <1>2

(* mem_alloc_at hands out a block that was free.                           *)
LEMMA AllocKeeps ==
  ASSUME NEW bs, IsTiling(bs), NEW n \in Nat, NEW biggest \in BOOLEAN, NEW owner \in Word
  PROVE  /\ Kept(bs, Alloc(bs, n, biggest, owner).blocks, {},
                 {Alloc(bs, n, biggest, owner).seg - 1}, owner)
         /\ Alloc(bs, n, biggest, owner).seg # 0 =>
              ~IsUsed(bs, Alloc(bs, n, biggest, owner).seg - 1)
<1> DEFINE k   == AtLeastOne(n)
           seg == Alloc(bs, n, biggest, owner).seg
           cs  == Alloc(bs, n, biggest, owner).blocks
<1>1. k \in Nat
  BY DEF AtLeastOne
<1>2. CASE Fitting(bs, k) = {}
  <2>1. cs = bs /\ seg = 0
    BY <1>2 DEF Alloc
  <2> QED BY <2>1, KeptSelf
<1>3. CASE Fitting(bs, k) # {}
  <2>1. PICK s \in Fitting(bs, k) : seg = s + 1 /\ cs = Claim(Trim(bs, s, k), s, owner)
    BY <1>3, AllocPick
  <2>2. s \in DOMAIN bs /\ ~bs[s].used /\ s \in Nat
    BY BlockFacts DEF Fitting
  <2> HIDE DEF seg, cs, k
  <2>3. seg - 1 = s
    BY <2>1, <2>2
  <2> DEFINE cut == Trim(bs, s, k)
  <2>4. IsTiling(cut) /\ s \in DOMAIN cut /\ ~cut[s].used /\ Kept(bs, cut, {s}, {}, owner)
    BY <1>1, <2>2, TrimTiles, TrimKeeps
  <2> HIDE DEF cut
  <2>5. Kept(bs, cut, {}, {s}, owner)
    BY <2>2, <2>4, KeptButFree, KeptMore
  <2>6. Kept(cut, Claim(cut, s, owner), {}, {s}, owner)
    BY <2>4, ClaimKeeps
  <2>7. Kept(bs, Claim(cut, s, owner), {}, {s}, owner)
    BY <2>5, <2>6, KeptThrough
  <2> QED BY <2>1, <2>2, <2>3, <2>7 DEF IsUsed, seg, cs, cut
<1> QED BY <1>2, <1>3

(* mem_free releases one block.                                            *)
LEMMA FreeKeeps ==
  ASSUME NEW bs, IsTiling(bs), NEW seg \in Nat, NEW owner
  PROVE  Kept(bs, Free(bs, seg).blocks, {seg - 1}, {}, owner)
<1>1. CASE ~IsUsed(bs, seg - 1)
  <2>1. Free(bs, seg).blocks = bs
    BY <1>1 DEF Free
  <2> QED BY <2>1, KeptSelf
<1>2. CASE IsUsed(bs, seg - 1)
  <2> DEFINE s  == seg - 1
             cs == [bs EXCEPT ![s] = FreeBlock(bs[s].paras)]
  <2>1. Free(bs, seg).blocks = Coalesce(cs)
    BY <1>2 DEF Free
  <2>2. s \in DOMAIN bs /\ bs[s].paras \in 0 .. HeapEnd /\ bs \in [DOMAIN bs -> Block]
    BY <1>2, BlockFacts DEF IsUsed, Block, IsTiling, IsArena
  <2>3. /\ FreeBlock(bs[s].paras) \in Block /\ FreeBlock(bs[s].paras).paras = bs[s].paras
        /\ ~FreeBlock(bs[s].paras).used
    BY <2>2, FreeBlockType
  <2>4. DOMAIN cs = DOMAIN bs /\ cs \in [DOMAIN bs -> Block]
    BY <2>2, <2>3
  <2>5. /\ \A t \in DOMAIN bs : cs[t].paras = bs[t].paras
        /\ \A t \in DOMAIN bs : t # s => cs[t] = bs[t]
        /\ ~cs[s].used
    BY <2>2, <2>3
  <2> HIDE DEF cs
  <2>6. IsTiling(cs)
    BY <2>4, <2>5, RelabelTiles
  <2>7. Kept(bs, cs, {s}, {}, owner)
    BY <2>4, <2>5 DEF Kept
  <2>8. Kept(cs, Coalesce(cs), {s}, {}, owner)
    BY <2>6, CoalesceKeeps, KeptMore
  <2> QED BY <2>1, <2>7, <2>8, KeptThrough
<1> QED BY <1>1, <1>2

(* The blocks a growing block takes over are all free.                     *)
LEMMA RunIsFree ==
  ASSUME NEW bs, IsTiling(bs), NEW s \in DOMAIN bs,
         NEW u \in DOMAIN bs, s < u, u < RunEnd(bs, s)
  PROVE  ~bs[u].used
<1>1. s \in Nat /\ u \in Nat /\ u # ArenaMcb
  BY BlockFacts, ArenaAssumption
<1>2. PICK v \in DOMAIN bs : v < u /\ End(bs, v) = u
  BY <1>1, Predecessor
<1>3. s <= v
  <2>1. v < s => End(bs, v) <= s
    BY DEF IsTiling, Disjoint
  <2> QED BY <1>1, <1>2, <2>1, BlockFacts
<1>4. ~IsFree(bs, u) => RunEnd(bs, s) <= u
  BY <1>2, <1>3, RunEndFacts
<1> QED BY <1>1, <1>4, RunEndFacts DEF IsFree

(* mem_resize's extension.                                                 *)
LEMMA ExtendKeeps ==
  ASSUME NEW bs, IsTiling(bs), NEW s \in DOMAIN bs, NEW owner
  PROVE  Kept(bs, Extend(bs, s), {s}, {}, owner)
<1> DEFINE e    == RunEnd(bs, s)
           gone == {u \in DOMAIN bs : s < u /\ u < e}
           cs   == Extend(bs, s)
<1>1. cs = [t \in DOMAIN bs \ gone |->
              IF t = s THEN [bs[s] EXCEPT !.paras = Avail(bs, s)] ELSE bs[t]]
  BY DEF Extend
<1>2. \A u \in gone : ~bs[u].used
  BY RunIsFree
<1>3. cs[s].used = bs[s].used /\ cs[s].owner = bs[s].owner
  BY ExtendSize
<1> HIDE DEF cs, gone
<1> QED BY <1>1, <1>2, <1>3 DEF Kept, cs

(* mem_resize changes the block it is given, in use if it was, and no      *)
(* other block that is in use.                                             *)
LEMMA ResizeKeeps ==
  ASSUME NEW bs, IsTiling(bs), NEW seg \in Nat, NEW n \in Nat, NEW owner \in Word
  PROVE  /\ Kept(bs, Resize(bs, seg, n, owner).blocks, {seg - 1}, {seg - 1}, owner)
         /\ IsUsed(bs, seg - 1) => IsUsed(Resize(bs, seg, n, owner).blocks, seg - 1)
<1> DEFINE s  == seg - 1
           b1 == IF IsBlock(bs, seg) THEN bs ELSE Own(bs, seg, 1, owner)
           rs == Resize(bs, seg, n, owner).blocks
<1>1. IsTiling(b1)
  BY OwnTiles
<1>2. \/ rs = b1
      \/ s \in DOMAIN b1 /\ rs = Coalesce(Split(b1, s, n))
      \/ s \in DOMAIN b1 /\ rs = Coalesce(Trim(Extend(b1, s), s, n))
  BY DEF Resize
<1>3. Kept(bs, b1, {s}, {s}, owner) /\ (IsUsed(bs, s) => IsUsed(b1, s))
  <2>1. CASE IsBlock(bs, seg)
    BY <2>1, KeptSelf
  <2>2. CASE ~IsBlock(bs, seg)
    <3>1. Kept(bs, b1, {s}, {s}, owner)
      <4>1. Kept(bs, Own(bs, seg, 1, owner), {}, {s}, owner)
        BY OwnKeeps
      <4> QED BY <2>2, <4>1, KeptAround
    <3> QED BY <2>2, <3>1 DEF IsBlock, IsUsed
  <2> QED BY <2>1, <2>2
<1> HIDE DEF b1, rs
<1>4. ASSUME NEW cs, IsTiling(cs), Kept(b1, cs, {s}, {s}, owner), s \in DOMAIN cs,
             rs = Coalesce(cs), IsUsed(b1, s) => cs[s].used
      PROVE  Kept(bs, rs, {s}, {s}, owner) /\ (IsUsed(b1, s) => IsUsed(rs, s))
  <2>1. Kept(cs, rs, {s}, {s}, owner)
    BY <1>4, CoalesceKeeps, KeptMore
  <2>2. Kept(b1, rs, {s}, {s}, owner)
    BY <1>4, <2>1, KeptThrough
  <2>3. Kept(bs, rs, {s}, {s}, owner)
    BY <1>3, <2>2, KeptThrough
  <2> QED BY <1>4, <2>3, CoalesceUsed DEF IsUsed
<1>5. CASE rs = b1
  BY <1>3, <1>5 DEF rs
<1>6. CASE s \in DOMAIN b1 /\ rs = Coalesce(Split(b1, s, n))
  <2>1. /\ IsTiling(Split(b1, s, n)) /\ s \in DOMAIN Split(b1, s, n)
        /\ Kept(b1, Split(b1, s, n), {s}, {s}, owner)
        /\ Split(b1, s, n)[s].used = b1[s].used
    <3>1. Kept(b1, Split(b1, s, n), {s}, {}, owner)
      BY <1>1, <1>6, TrimKeeps
    <3> QED BY <1>1, <1>6, <3>1, SplitTiles, TrimKeeps, KeptAround
  <2>2. Kept(bs, rs, {s}, {s}, owner) /\ (IsUsed(b1, s) => IsUsed(rs, s))
    BY <1>4, <1>6, <2>1 DEF IsUsed
  <2> QED BY <1>3, <2>2 DEF rs
<1>7. CASE s \in DOMAIN b1 /\ rs = Coalesce(Trim(Extend(b1, s), s, n))
  <2> DEFINE es == Extend(b1, s)
             cs == Trim(es, s, n)
  <2>1. /\ IsTiling(es) /\ s \in DOMAIN es /\ es[s].used = b1[s].used
        /\ Kept(b1, es, {s}, {s}, owner)
    <3>1. Kept(b1, es, {s}, {}, owner)
      BY <1>1, <1>7, ExtendKeeps
    <3> QED BY <1>1, <1>7, <3>1, ExtendTiles, ExtendSize, KeptAround
  <2> HIDE DEF es
  <2>2. /\ IsTiling(cs) /\ s \in DOMAIN cs /\ cs[s].used = es[s].used
        /\ Kept(es, cs, {s}, {s}, owner)
    <3>1. Kept(es, cs, {s}, {}, owner)
      BY <2>1, TrimKeeps
    <3> QED BY <2>1, <3>1, TrimTiles, TrimKeeps, KeptAround
  <2>3. Kept(b1, cs, {s}, {s}, owner)
    BY <2>1, <2>2, KeptThrough
  <2>4. Kept(bs, rs, {s}, {s}, owner) /\ (IsUsed(b1, s) => IsUsed(rs, s))
    <3>1. rs = Coalesce(cs)
      BY <1>7 DEF es
    <3> HIDE DEF cs
    <3> QED BY <1>4, <2>1, <2>2, <2>3, <3>1 DEF IsUsed
  <2> QED BY <1>3, <2>4 DEF rs
<1> QED BY <1>2, <1>5, <1>6, <1>7

----------------------------------------------------------------------------
(* Every paragraph of the arena is in some block.                          *)
LEMMA Covered ==
  ASSUME NEW bs, IsTiling(bs), NEW p \in Paragraphs
  PROVE  \E s \in DOMAIN bs : s <= p /\ p < End(bs, s)
<1> DEFINE below == {u \in DOMAIN bs : u <= p}
           gaps  == {p - u : u \in below}
<1>1. p \in Nat /\ ArenaMcb <= p /\ p < HeapEnd
  BY ArenaAssumption DEF Paragraphs
<1>2. ArenaMcb \in below
  BY <1>1 DEF IsTiling, StartsAtBottom
<1>3. gaps \subseteq Nat /\ gaps # {}
  BY <1>1, <1>2, BlockFacts
<1>4. PICK g \in gaps : \A h \in gaps : g <= h
  BY <1>3, LeastExists
<1>5. PICK u \in below : g = p - u
  BY <1>4
<1>6. u \in DOMAIN bs /\ u <= p /\ u \in Nat /\ End(bs, u) \in Nat /\ u < End(bs, u)
  BY <1>5, BlockFacts
<1>7. ~(End(bs, u) <= p)
  <2> SUFFICES ASSUME End(bs, u) <= p PROVE FALSE
    OBVIOUS
  <2>1. End(bs, u) \in below
    BY <1>1, <1>6, BlockFacts
  <2>2. g <= p - End(bs, u)
    BY <1>4, <2>1
  <2> QED BY <1>1, <1>5, <1>6, <2>2
<1> QED BY <1>1, <1>6, <1>7
=============================================================================
