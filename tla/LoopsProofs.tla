---------------------------- MODULE LoopsProofs ----------------------------
(***************************************************************************)
(* The loops of module MCArenaLoops, for names, patterns and arenas of any *)
(* length.                                                                 *)
(*                                                                         *)
(* The comparison of a name with a pattern keeps track of the last star    *)
(* only.  Spells(pt, tx, i, j) says the pattern from i spells the name     *)
(* from j; the invariant Tracks says that the name matches if and only if  *)
(* what is left does, or what the last star could still take does.  That   *)
(* an earlier star never has to be tried again is LEMMA TracksStar.        *)
(*                                                                         *)
(* The allocator works on a vector in address order, InOrder, which is the *)
(* inductive invariant of ListSpec.  Each loop is followed turn by turn:   *)
(* what a turn keeps is stated of the vector (Sound, Picked, IsCut), the   *)
(* number of turns by induction over Nat (Upwards), and what the vector is *)
(* at the end is the arena that the closed form of module Arena gives.     *)
(***************************************************************************)
EXTENDS ArenaProofs, MCArenaLoops, WellFoundedInduction, SequenceTheorems, TLAPS

(* A set of naturals that is not empty has a least element.                *)
LEMMA LeastOf ==
  ASSUME NEW S, S \subseteq Nat, S # {}
  PROVE  \E x \in S : \A y \in S : x <= y
<1> DEFINE below == {q \in Nat \X Nat : q[1] < q[2]}
<1>1. IsWellFoundedOn(below, Nat)
  BY NatLessThanWellFounded, Zenon DEF OpToRel
<1>2. PICK x \in S : \A y \in S : ~(<<y, x>> \in below)
  <2> HIDE DEF below
  <2> QED BY <1>1, WFMin, Zenon
<1>3. \A y \in S : x <= y
  <2> SUFFICES ASSUME NEW y \in S PROVE x <= y
    OBVIOUS
  <2>1. x \in Nat /\ y \in Nat
    OBVIOUS
  <2>2. y < x => <<y, x>> \in below
    BY <2>1, SMT
  <2> QED BY <1>2, <2>1, <2>2
<1> QED BY <1>3

(* Induction, over a set of numbers.                                       *)
LEMMA Upwards ==
  ASSUME NEW S, 0 \in S, \A d \in Nat : d \in S => d + 1 \in S
  PROVE  \A d \in Nat : d \in S
<1> SUFFICES ASSUME NEW d \in Nat, d \notin S PROVE FALSE
  OBVIOUS
<1> DEFINE missing == {e \in Nat : e \notin S}
<1>1. PICK x \in missing : \A y \in missing : x <= y
  <2>1. missing \subseteq Nat /\ missing # {}
    OBVIOUS
  <2> HIDE DEF missing
  <2> QED BY <2>1, LeastOf
<1>2. x \in Nat /\ x # 0
  BY <1>1
<1>3. x - 1 \in Nat /\ ~(x <= x - 1) /\ (x - 1) + 1 = x
  BY <1>2
<1>4. x - 1 \in S
  BY <1>1, <1>3
<1> QED BY <1>1, <1>3, <1>4

-----------------------------------------------------------------------------
(* pt from its letter i on spells tx from its letter j on.                 *)
Cuts(pt, tx, i, j, cut) ==
  /\ cut \in [i .. Len(pt) + 1 -> 1 .. Len(tx) + 1]
  /\ cut[i] = j /\ cut[Len(pt) + 1] = Len(tx) + 1
  /\ \A k \in i .. Len(pt) :
       IF pt[k] = "*" THEN cut[k] <= cut[k + 1]
       ELSE cut[k + 1] = cut[k] + 1 /\ Fits(pt[k], tx[cut[k]])

Spells(pt, tx, i, j) == \E cut : Cuts(pt, tx, i, j, cut)

(* What the relation means of a whole name.                                *)
LEMMA GlobSpells ==
  ASSUME NEW pt, NEW tx
  PROVE  Glob(pt, tx) <=> Spells(pt, tx, 1, 1)
BY DEF Glob, Spells, Cuts

(* What is left of a cut behind its first letter, and one letter more.     *)
LEMMA CutRest ==
  ASSUME NEW pt, NEW tx, Len(pt) \in Nat, Len(tx) \in Nat, NEW i \in 1 .. Len(pt), NEW j,
         NEW cut, Cuts(pt, tx, i, j, cut)
  PROVE  /\ cut[i + 1] \in 1 .. Len(tx) + 1 /\ Spells(pt, tx, i + 1, cut[i + 1])
         /\ IF pt[i] = "*" THEN j <= cut[i + 1]
            ELSE cut[i + 1] = j + 1 /\ Fits(pt[i], tx[j])
<1> DEFINE l == Len(pt) + 1  rest == [k \in i + 1 .. l |-> cut[k]]
<1>1. /\ i \in Nat /\ i + 1 \in i + 1 .. l /\ l \in i + 1 .. l /\ i + 1 .. l \subseteq i .. l
      /\ i \in i .. Len(pt) /\ i + 1 .. Len(pt) \subseteq i .. Len(pt)
      /\ \A k \in i + 1 .. Len(pt) : k \in i + 1 .. l /\ k + 1 \in i + 1 .. l
  OBVIOUS
<1>2. cut \in [i .. l -> 1 .. Len(tx) + 1] /\ cut[i] = j /\ cut[l] = Len(tx) + 1
  BY DEF Cuts
<1>3. \A k \in i .. Len(pt) :
       IF pt[k] = "*" THEN cut[k] <= cut[k + 1]
       ELSE cut[k + 1] = cut[k] + 1 /\ Fits(pt[k], tx[cut[k]])
  BY DEF Cuts
<1>4. Cuts(pt, tx, i + 1, cut[i + 1], rest)
  BY <1>1, <1>2, <1>3 DEF Cuts
<1> QED BY <1>1, <1>2, <1>3, <1>4 DEF Spells

(* A way to spell the rest gives one to spell what begins an element       *)
(* earlier.                                                                *)
LEMMA CutMore ==
  ASSUME NEW pt, NEW tx, Len(pt) \in Nat, Len(tx) \in Nat, NEW i \in 1 .. Len(pt),
         NEW j \in 1 .. Len(tx) + 1, NEW k \in 1 .. Len(tx) + 1, Spells(pt, tx, i + 1, k),
         IF pt[i] = "*" THEN j <= k ELSE k = j + 1 /\ Fits(pt[i], tx[j])
  PROVE  Spells(pt, tx, i, j)
<1> DEFINE l == Len(pt) + 1
<1>1. PICK rest : Cuts(pt, tx, i + 1, k, rest)
  BY DEF Spells
<1> DEFINE cut == [q \in i .. l |-> IF q = i THEN j ELSE rest[q]]
<1>2. rest \in [i + 1 .. l -> 1 .. Len(tx) + 1] /\ rest[i + 1] = k /\ rest[l] = Len(tx) + 1
  BY <1>1 DEF Cuts
<1>3. \A q \in i + 1 .. Len(pt) :
       IF pt[q] = "*" THEN rest[q] <= rest[q + 1]
       ELSE rest[q + 1] = rest[q] + 1 /\ Fits(pt[q], tx[rest[q]])
  BY <1>1 DEF Cuts
<1>4. /\ i \in i .. l /\ l \in i + 1 .. l /\ i + 1 \in i + 1 .. l
      /\ \A q \in i .. l : q = i \/ q \in i + 1 .. l
      /\ \A q \in i .. Len(pt) : q + 1 \in i + 1 .. l /\ q + 1 # i /\ (q = i \/ q \in i + 1 .. Len(pt))
      /\ l # i /\ i + 1 .. l \subseteq i .. l
  OBVIOUS
<1>5. cut \in [i .. l -> 1 .. Len(tx) + 1] /\ cut[i] = j
      /\ \A q \in i + 1 .. l : cut[q] = rest[q]
  BY <1>2, <1>4
<1> HIDE DEF cut
<1>6. ASSUME NEW q \in i .. Len(pt)
      PROVE  IF pt[q] = "*" THEN cut[q] <= cut[q + 1]
             ELSE cut[q + 1] = cut[q] + 1 /\ Fits(pt[q], tx[cut[q]])
  <2>1. CASE q = i
    BY <1>2, <1>4, <1>5, <2>1
  <2>2. CASE q \in i + 1 .. Len(pt)
    <3>1. cut[q] = rest[q] /\ cut[q + 1] = rest[q + 1]
      BY <1>4, <1>5, <2>2
    <3> QED BY <1>3, <2>2, <3>1
  <2> QED BY <1>4, <2>1, <2>2
<1>7. cut[l] = Len(tx) + 1
  BY <1>2, <1>4, <1>5
<1>8. Cuts(pt, tx, i, j, cut)
  BY <1>5, <1>6, <1>7 DEF Cuts
<1> QED BY <1>8 DEF Spells

(* Behind the pattern only the end of the text is spelt.                   *)
LEMMA SpellsEnd ==
  ASSUME NEW pt, NEW tx, Len(pt) \in Nat, Len(tx) \in Nat, NEW j
  PROVE  Spells(pt, tx, Len(pt) + 1, j) <=> j = Len(tx) + 1
<1>1. Spells(pt, tx, Len(pt) + 1, j) => j = Len(tx) + 1
  BY DEF Spells, Cuts
<1>2. Cuts(pt, tx, Len(pt) + 1, Len(tx) + 1, [k \in Len(pt) + 1 .. Len(pt) + 1 |-> Len(tx) + 1])
  BY DEF Cuts
<1> QED BY <1>1, <1>2 DEF Spells

(* A letter that is no star stands for one letter.                         *)
LEMMA SpellsOne ==
  ASSUME NEW pt, NEW tx, Len(pt) \in Nat, Len(tx) \in Nat, NEW i \in 1 .. Len(pt),
         NEW j \in 1 .. Len(tx) + 1, pt[i] # "*"
  PROVE  Spells(pt, tx, i, j) <=>
           j <= Len(tx) /\ Fits(pt[i], tx[j]) /\ Spells(pt, tx, i + 1, j + 1)
<1>1. ASSUME Spells(pt, tx, i, j)
      PROVE  j <= Len(tx) /\ Fits(pt[i], tx[j]) /\ Spells(pt, tx, i + 1, j + 1)
  <2>1. PICK cut : Cuts(pt, tx, i, j, cut)
    BY <1>1 DEF Spells
  <2>2. /\ cut[i + 1] \in 1 .. Len(tx) + 1 /\ Spells(pt, tx, i + 1, cut[i + 1])
        /\ cut[i + 1] = j + 1 /\ Fits(pt[i], tx[j])
    BY <2>1, CutRest
  <2> QED BY <2>2
<1>2. ASSUME j <= Len(tx), Fits(pt[i], tx[j]), Spells(pt, tx, i + 1, j + 1)
      PROVE  Spells(pt, tx, i, j)
  <2>1. PICK k \in 1 .. Len(tx) + 1 : k = j + 1
    BY <1>2
  <2> QED BY <1>2, <2>1, CutMore
<1> QED BY <1>1, <1>2

(* A star stands for any text.                                             *)
LEMMA SpellsStar ==
  ASSUME NEW pt, NEW tx, Len(pt) \in Nat, Len(tx) \in Nat, NEW i \in 1 .. Len(pt),
         NEW j \in 1 .. Len(tx) + 1, pt[i] = "*"
  PROVE  Spells(pt, tx, i, j) <=> \E k \in j .. Len(tx) + 1 : Spells(pt, tx, i + 1, k)
<1>1. ASSUME Spells(pt, tx, i, j)
      PROVE  \E k \in j .. Len(tx) + 1 : Spells(pt, tx, i + 1, k)
  <2>1. PICK cut : Cuts(pt, tx, i, j, cut)
    BY <1>1 DEF Spells
  <2>2. /\ cut[i + 1] \in 1 .. Len(tx) + 1 /\ Spells(pt, tx, i + 1, cut[i + 1])
        /\ j <= cut[i + 1]
    BY <2>1, CutRest
  <2> QED BY <2>2
<1>2. ASSUME NEW k \in j .. Len(tx) + 1, Spells(pt, tx, i + 1, k)
      PROVE  Spells(pt, tx, i, j)
  <2>1. k \in 1 .. Len(tx) + 1 /\ j <= k
    OBVIOUS
  <2> QED BY <1>2, <2>1, CutMore
<1> QED BY <1>1, <1>2

(* Letters that are no stars stand for as many letters of the text.        *)
LEMMA Segment ==
  ASSUME NEW pt, NEW tx, Len(pt) \in Nat, Len(tx) \in Nat, NEW i \in Nat \ {0}, NEW j \in Nat \ {0},
         NEW c \in Nat, i + c <= Len(pt) + 1, \A d \in 0 .. c - 1 : pt[i + d] # "*",
         j <= Len(tx) + 1, Spells(pt, tx, i, j)
  PROVE  j + c <= Len(tx) + 1 /\ Spells(pt, tx, i + c, j + c)
<1> DEFINE S == {d \in Nat : d <= c => j + d <= Len(tx) + 1 /\ Spells(pt, tx, i + d, j + d)}
<1>1. 0 \in S
  <2>1. i + 0 = i /\ j + 0 = j
    OBVIOUS
  <2> QED BY <2>1
<1>2. ASSUME NEW d \in Nat, d \in S PROVE d + 1 \in S
  <2>1. SUFFICES ASSUME d + 1 <= c
                 PROVE  j + (d + 1) <= Len(tx) + 1 /\ Spells(pt, tx, i + (d + 1), j + (d + 1))
    OBVIOUS
  <2>2. j + d <= Len(tx) + 1 /\ Spells(pt, tx, i + d, j + d)
    BY <1>2, <2>1
  <2>3. i + d \in 1 .. Len(pt) /\ j + d \in 1 .. Len(tx) + 1 /\ d \in 0 .. c - 1
    BY <2>1, <2>2
  <2>4. pt[i + d] # "*"
    BY <2>3
  <2>5. j + d <= Len(tx) /\ Spells(pt, tx, (i + d) + 1, (j + d) + 1)
    BY <2>2, <2>3, <2>4, SpellsOne
  <2>6. (i + d) + 1 = i + (d + 1) /\ (j + d) + 1 = j + (d + 1)
    OBVIOUS
  <2>7. j + (d + 1) <= Len(tx) + 1
    BY <2>3, <2>5
  <2> QED BY <2>5, <2>6, <2>7
<1> HIDE DEF S
<1>3. c \in S
  BY <1>1, <1>2, Upwards
<1> QED BY <1>3 DEF S

(* Elements without a star match one letter each, so a way to spell what   *)
(* follows them gives one to spell them too.                               *)
LEMMA SegmentBack ==
  ASSUME NEW pt, NEW tx, Len(pt) \in Nat, Len(tx) \in Nat, NEW i \in Nat \ {0}, NEW j \in Nat \ {0},
         NEW c \in Nat, i + c <= Len(pt) + 1, j + c <= Len(tx) + 1,
         \A d \in 0 .. c - 1 : pt[i + d] # "*" /\ Fits(pt[i + d], tx[j + d]),
         Spells(pt, tx, i + c, j + c)
  PROVE  Spells(pt, tx, i, j)
<1> DEFINE S == {d \in Nat : d <= c => Spells(pt, tx, i + (c - d), j + (c - d))}
<1>1. 0 \in S
  <2>1. i + (c - 0) = i + c /\ j + (c - 0) = j + c
    OBVIOUS
  <2> QED BY <2>1
<1>2. ASSUME NEW d \in Nat, d \in S PROVE d + 1 \in S
  <2>1. SUFFICES ASSUME d + 1 <= c
                 PROVE  Spells(pt, tx, i + (c - (d + 1)), j + (c - (d + 1)))
    OBVIOUS
  <2>2. Spells(pt, tx, i + (c - d), j + (c - d))
    BY <1>2, <2>1
  <2>3. PICK q \in 0 .. c - 1 : q = c - (d + 1)
    BY <2>1
  <2>4. i + (c - d) = (i + q) + 1 /\ j + (c - d) = (j + q) + 1
    BY <2>3
  <2>5. i + q \in 1 .. Len(pt) /\ j + q \in 1 .. Len(tx) + 1 /\ j + q <= Len(tx)
    BY <2>3
  <2>6. pt[i + q] # "*" /\ Fits(pt[i + q], tx[j + q])
    BY <2>3
  <2>7. Spells(pt, tx, (i + q) + 1, (j + q) + 1)
    BY <2>2, <2>4
  <2>8. Spells(pt, tx, i + q, j + q)
    BY <2>5, <2>6, <2>7, SpellsOne
  <2> QED BY <2>3, <2>8
<1> HIDE DEF S
<1>3. c \in S
  BY <1>1, <1>2, Upwards
<1>4. i + (c - c) = i /\ j + (c - c) = j
  OBVIOUS
<1> QED BY <1>3, <1>4 DEF S

(* At the end of the text the rest of the pattern may only be stars.       *)
LEMMA StarsSpellNothing ==
  ASSUME NEW pt, NEW tx, Len(pt) \in Nat, Len(tx) \in Nat, NEW i \in 1 .. Len(pt) + 1,
         \A k \in i .. Len(pt) : pt[k] = "*"
  PROVE  Spells(pt, tx, i, Len(tx) + 1)
<1>1. Cuts(pt, tx, i, Len(tx) + 1, [k \in i .. Len(pt) + 1 |-> Len(tx) + 1])
  BY DEF Cuts
<1> QED BY <1>1 DEF Spells

(* At the end of the name only stars are left to match nothing.            *)
LEMMA LetterSpellsOne ==
  ASSUME NEW pt, NEW tx, Len(pt) \in Nat, Len(tx) \in Nat, NEW i \in 1 .. Len(pt) + 1,
         NEW q \in i .. Len(pt), pt[q] # "*"
  PROVE  ~Spells(pt, tx, i, Len(tx) + 1)
<1> SUFFICES ASSUME Spells(pt, tx, i, Len(tx) + 1) PROVE FALSE
  OBVIOUS
<1> DEFINE S == {d \in Nat : i + d <= q => Spells(pt, tx, i + d, Len(tx) + 1)}
<1>1. 0 \in S
  <2>1. i + 0 = i
    OBVIOUS
  <2> QED BY <2>1
<1>2. ASSUME NEW d \in Nat, d \in S PROVE d + 1 \in S
  <2>1. SUFFICES ASSUME i + (d + 1) <= q PROVE Spells(pt, tx, i + (d + 1), Len(tx) + 1)
    OBVIOUS
  <2>2. Spells(pt, tx, i + d, Len(tx) + 1)
    BY <1>2, <2>1
  <2>3. i + d \in 1 .. Len(pt) /\ Len(tx) + 1 \in 1 .. Len(tx) + 1 /\ (i + d) + 1 = i + (d + 1)
        /\ ~(Len(tx) + 1 <= Len(tx))
    BY <2>1
  <2>4. pt[i + d] = "*"
    BY <2>2, <2>3, SpellsOne
  <2>5. PICK k \in Len(tx) + 1 .. Len(tx) + 1 : Spells(pt, tx, (i + d) + 1, k)
    BY <2>2, <2>3, <2>4, SpellsStar
  <2>6. k = Len(tx) + 1
    OBVIOUS
  <2> QED BY <2>3, <2>5, <2>6
<1> HIDE DEF S
<1>3. PICK d \in Nat : i + d = q
  <2>1. q - i \in Nat /\ i + (q - i) = q
    OBVIOUS
  <2> QED BY <2>1
<1>4. Spells(pt, tx, q, Len(tx) + 1)
  <2>1. d \in S
    BY <1>1, <1>2, Upwards
  <2> QED BY <1>3, <2>1 DEF S
<1>5. Len(tx) + 1 \in 1 .. Len(tx) + 1 /\ ~(Len(tx) + 1 <= Len(tx)) /\ q \in 1 .. Len(pt)
  OBVIOUS
<1> QED BY <1>4, <1>5, SpellsOne

-----------------------------------------------------------------------------
(* What the loop knows at positions i and j with the last star s: behind   *)
(* the star, the letters up to i fit the text from m on.                   *)
Behind(pt, tx, i, j, s, m) ==
  /\ s \in 1 .. i - 1 /\ pt[s] = "*" /\ m \in 1 .. j /\ j - m = i - s - 1
  /\ \A d \in 0 .. i - s - 2 : pt[s + 1 + d] # "*" /\ Fits(pt[s + 1 + d], tx[m + d])

(* What is still open decides the whole: from i and j on, or, if a star    *)
(* has been met, from some place for what follows it on.                   *)
Open(pt, tx, i, j, s, m) ==
  IF s = 0 THEN Spells(pt, tx, i, j) ELSE \E k \in m .. Len(tx) + 1 : Spells(pt, tx, s + 1, k)

Tracks(pt, tx, i, j, s, m) ==
  /\ i \in 1 .. Len(pt) + 1 /\ j \in 1 .. Len(tx) + 1
  /\ s # 0 => Behind(pt, tx, i, j, s, m)
  /\ Glob(pt, tx) <=> Open(pt, tx, i, j, s, m)

(* Before the first turn nothing has been decided.                         *)
LEMMA TracksStart ==
  ASSUME NEW pt, NEW tx, Len(pt) \in Nat, Len(tx) \in Nat
  PROVE  Tracks(pt, tx, 1, 1, 0, 0)
BY GlobSpells DEF Tracks, Open

(* From a place for what follows the star to the place i reached, and back.*)
LEMMA BehindForth ==
  ASSUME NEW pt, NEW tx, Len(pt) \in Nat, Len(tx) \in Nat, NEW i \in 1 .. Len(pt) + 1,
         NEW j \in 1 .. Len(tx) + 1, NEW s, NEW m, Behind(pt, tx, i, j, s, m),
         NEW k \in m .. Len(tx) + 1, Spells(pt, tx, s + 1, k)
  PROVE  /\ j + (k - m) \in j .. Len(tx) + 1
         /\ Spells(pt, tx, i, j + (k - m))
<1>1. /\ s \in 1 .. i - 1 /\ m \in 1 .. j /\ j - m = i - s - 1
      /\ \A d \in 0 .. i - s - 2 : pt[s + 1 + d] # "*"
  BY DEF Behind
<1>2. PICK c \in Nat : c = i - s - 1
  BY <1>1
<1>3. /\ s + 1 \in Nat \ {0} /\ k \in Nat \ {0} /\ (s + 1) + c = i /\ k + c = j + (k - m)
      /\ (s + 1) + c <= Len(pt) + 1 /\ k <= Len(tx) + 1 /\ c - 1 = i - s - 2
  BY <1>1, <1>2
<1>4. \A d \in 0 .. c - 1 : pt[(s + 1) + d] # "*"
  BY <1>1, <1>3
<1>5. k + c <= Len(tx) + 1 /\ Spells(pt, tx, (s + 1) + c, k + c)
  BY <1>3, <1>4, Segment
<1>6. j <= j + (k - m) /\ j + (k - m) \in Nat
  BY <1>1
<1>7. j + (k - m) \in j .. Len(tx) + 1
  BY <1>3, <1>5, <1>6
<1> QED BY <1>3, <1>5, <1>7

(* What is left can also be reached from the last star, which takes the    *)
(* letters passed since.                                                   *)
LEMMA BehindBack ==
  ASSUME NEW pt, NEW tx, Len(pt) \in Nat, Len(tx) \in Nat, NEW i \in 1 .. Len(pt) + 1,
         NEW j \in 1 .. Len(tx) + 1, NEW s, NEW m, Behind(pt, tx, i, j, s, m),
         Spells(pt, tx, i, j)
  PROVE  m \in m .. Len(tx) + 1 /\ Spells(pt, tx, s + 1, m)
<1>1. /\ s \in 1 .. i - 1 /\ m \in 1 .. j /\ j - m = i - s - 1
      /\ \A d \in 0 .. i - s - 2 : pt[s + 1 + d] # "*" /\ Fits(pt[s + 1 + d], tx[m + d])
  BY DEF Behind
<1>2. PICK c \in Nat : c = i - s - 1
  BY <1>1
<1>3. /\ s + 1 \in Nat \ {0} /\ m \in Nat \ {0} /\ (s + 1) + c = i /\ m + c = j
      /\ (s + 1) + c <= Len(pt) + 1 /\ m + c <= Len(tx) + 1 /\ c - 1 = i - s - 2
  BY <1>1, <1>2
<1>4. \A d \in 0 .. c - 1 : pt[(s + 1) + d] # "*" /\ Fits(pt[(s + 1) + d], tx[m + d])
  BY <1>1, <1>3
<1>5. Spells(pt, tx, (s + 1) + c, m + c)
  BY <1>3
<1>6. Spells(pt, tx, s + 1, m)
  BY <1>3, <1>4, <1>5, SegmentBack
<1> QED BY <1>1, <1>6

(* A letter that fits is taken: the loop stays on track.                   *)
LEMMA TracksOne ==
  ASSUME NEW pt, NEW tx, Len(pt) \in Nat, Len(tx) \in Nat, NEW i, NEW j, NEW s, NEW m,
         Tracks(pt, tx, i, j, s, m), i <= Len(pt), j <= Len(tx), pt[i] # "*", Fits(pt[i], tx[j])
  PROVE  Tracks(pt, tx, i + 1, j + 1, s, m)
<1>1. i \in 1 .. Len(pt) /\ j \in 1 .. Len(tx) + 1
  BY DEF Tracks
<1>2. i + 1 \in 1 .. Len(pt) + 1 /\ j + 1 \in 1 .. Len(tx) + 1
  BY <1>1
<1>3. Open(pt, tx, i, j, s, m) <=> Open(pt, tx, i + 1, j + 1, s, m)
  BY <1>1, SpellsOne DEF Open
<1>4. ASSUME Behind(pt, tx, i, j, s, m) PROVE Behind(pt, tx, i + 1, j + 1, s, m)
  <2>1. /\ s \in 1 .. i - 1 /\ pt[s] = "*" /\ m \in 1 .. j /\ j - m = i - s - 1
        /\ \A d \in 0 .. i - s - 2 : pt[s + 1 + d] # "*" /\ Fits(pt[s + 1 + d], tx[m + d])
    BY <1>4 DEF Behind
  <2>2. /\ s \in 1 .. (i + 1) - 1 /\ m \in 1 .. j + 1 /\ (j + 1) - m = (i + 1) - s - 1
        /\ s + 1 + (i - s - 1) = i /\ m + (i - s - 1) = j
        /\ \A d \in 0 .. (i + 1) - s - 2 : d \in 0 .. i - s - 2 \/ d = i - s - 1
    BY <1>1, <2>1
  <2>3. \A d \in 0 .. (i + 1) - s - 2 : pt[s + 1 + d] # "*" /\ Fits(pt[s + 1 + d], tx[m + d])
    BY <2>1, <2>2
  <2> QED BY <2>1, <2>2, <2>3 DEF Behind
<1> QED BY <1>2, <1>3, <1>4 DEF Tracks

(* A star met becomes the last star: what it may take, the one before it   *)
(* need not.                                                               *)
LEMMA TracksStar ==
  ASSUME NEW pt, NEW tx, Len(pt) \in Nat, Len(tx) \in Nat, NEW i, NEW j, NEW s, NEW m,
         Tracks(pt, tx, i, j, s, m), i <= Len(pt), pt[i] = "*"
  PROVE  Tracks(pt, tx, i + 1, j, i, j)
<1>1. i \in 1 .. Len(pt) /\ j \in 1 .. Len(tx) + 1 /\ i \in 1 .. Len(pt) + 1
  BY DEF Tracks
<1>2. i + 1 \in 1 .. Len(pt) + 1 /\ i # 0
  BY <1>1
<1>3. Behind(pt, tx, i + 1, j, i, j)
  BY <1>1 DEF Behind
<1> DEFINE Later == \E k \in j .. Len(tx) + 1 : Spells(pt, tx, i + 1, k)
<1>4. Spells(pt, tx, i, j) <=> Later
  BY <1>1, SpellsStar
<1>5. Open(pt, tx, i, j, s, m) <=> Later
  <2>1. CASE s = 0
    BY <1>4, <2>1 DEF Open
  <2>2. CASE s # 0
    <3>1. Behind(pt, tx, i, j, s, m)
      BY <2>2 DEF Tracks
    <3>2. ASSUME NEW k \in m .. Len(tx) + 1, Spells(pt, tx, s + 1, k) PROVE Later
      <4>1. j + (k - m) \in j .. Len(tx) + 1 /\ Spells(pt, tx, i, j + (k - m))
        BY <1>1, <3>1, <3>2, BehindForth
      <4>2. PICK f \in j .. Len(tx) + 1 : Spells(pt, tx, i, f)
        BY <4>1
      <4>3. f \in 1 .. Len(tx) + 1
        BY <1>1
      <4>4. PICK g \in f .. Len(tx) + 1 : Spells(pt, tx, i + 1, g)
        BY <1>1, <4>2, <4>3, SpellsStar
      <4>5. g \in j .. Len(tx) + 1
        BY <1>1
      <4> QED BY <4>4, <4>5
    <3>3. ASSUME Later PROVE \E k \in m .. Len(tx) + 1 : Spells(pt, tx, s + 1, k)
      BY <1>1, <1>4, <3>1, <3>3, BehindBack
    <3> QED BY <2>2, <3>2, <3>3 DEF Open
  <2> QED BY <2>1, <2>2
<1>6. Open(pt, tx, i + 1, j, i, j) <=> Later
  BY <1>2 DEF Open
<1> QED BY <1>1, <1>2, <1>3, <1>5, <1>6 DEF Tracks

(* A mismatch: nothing is spelt from here on.                              *)
LEMMA Stuck ==
  ASSUME NEW pt, NEW tx, Len(pt) \in Nat, Len(tx) \in Nat, NEW i \in 1 .. Len(pt) + 1,
         NEW j \in 1 .. Len(tx) + 1, j <= Len(tx),
         i <= Len(pt) => pt[i] # "*" /\ ~Fits(pt[i], tx[j])
  PROVE  ~Spells(pt, tx, i, j)
<1>1. CASE i <= Len(pt)
  <2>1. i \in 1 .. Len(pt)
    BY <1>1
  <2> QED BY <1>1, <2>1, SpellsOne
<1>2. CASE i = Len(pt) + 1
  <2>1. j # Len(tx) + 1
    OBVIOUS
  <2> QED BY <1>2, <2>1, SpellsEnd
<1> QED BY <1>1, <1>2

(* A mismatch gives the last star one letter more, and loses no match.     *)
LEMMA TracksBack ==
  ASSUME NEW pt, NEW tx, Len(pt) \in Nat, Len(tx) \in Nat, NEW i, NEW j, NEW s, NEW m,
         Tracks(pt, tx, i, j, s, m), s # 0, j <= Len(tx),
         i <= Len(pt) => pt[i] # "*" /\ ~Fits(pt[i], tx[j])
  PROVE  Tracks(pt, tx, s + 1, m + 1, s, m + 1)
<1>1. i \in 1 .. Len(pt) + 1 /\ j \in 1 .. Len(tx) + 1 /\ Behind(pt, tx, i, j, s, m)
  BY DEF Tracks
<1>2. s \in 1 .. i - 1 /\ pt[s] = "*" /\ m \in 1 .. j
  BY <1>1 DEF Behind
<1>3. Behind(pt, tx, s + 1, m + 1, s, m + 1)
  <2>1. s \in 1 .. (s + 1) - 1 /\ m + 1 \in 1 .. m + 1 /\ (m + 1) - (m + 1) = (s + 1) - s - 1
        /\ 0 .. (s + 1) - s - 2 = {}
    BY <1>1, <1>2
  <2> QED BY <1>2, <2>1 DEF Behind
<1>4. ~Spells(pt, tx, i, j)
  BY <1>1, Stuck
<1>5. ~Spells(pt, tx, s + 1, m)
  <2> SUFFICES ASSUME Spells(pt, tx, s + 1, m) PROVE FALSE
    OBVIOUS
  <2>1. m \in m .. Len(tx) + 1 /\ j + (m - m) = j
    BY <1>1, <1>2
  <2>2. Spells(pt, tx, i, j + (m - m))
    BY <1>1, <2>1, BehindForth
  <2> QED BY <1>4, <2>1, <2>2
<1>6. Open(pt, tx, i, j, s, m) <=> Open(pt, tx, s + 1, m + 1, s, m + 1)
  <2>1. \A k \in m .. Len(tx) + 1 : k = m \/ k \in m + 1 .. Len(tx) + 1
    BY <1>1, <1>2
  <2>2. \A k \in m + 1 .. Len(tx) + 1 : k \in m .. Len(tx) + 1
    BY <1>1, <1>2
  <2> QED BY <1>5, <2>1, <2>2 DEF Open
<1>7. s + 1 \in 1 .. Len(pt) + 1 /\ m + 1 \in 1 .. Len(tx) + 1
  BY <1>1, <1>2
<1> QED BY <1>3, <1>6, <1>7 DEF Tracks

(* A mismatch with no star behind it: no match there is.                   *)
LEMMA TracksFails ==
  ASSUME NEW pt, NEW tx, Len(pt) \in Nat, Len(tx) \in Nat, NEW i, NEW j, NEW m,
         Tracks(pt, tx, i, j, 0, m), j <= Len(tx),
         i <= Len(pt) => pt[i] # "*" /\ ~Fits(pt[i], tx[j])
  PROVE  ~Glob(pt, tx)
<1>1. i \in 1 .. Len(pt) + 1 /\ j \in 1 .. Len(tx) + 1
  BY DEF Tracks
<1> QED BY <1>1, Stuck DEF Tracks, Open

(* At the end of the name it matches if only stars are left.               *)
LEMMA TracksEnd ==
  ASSUME NEW pt, NEW tx, Len(pt) \in Nat, Len(tx) \in Nat, NEW i, NEW j, NEW s, NEW m,
         Tracks(pt, tx, i, j, s, m), ~(j <= Len(tx))
  PROVE  Glob(pt, tx) <=> \A k \in i .. Len(pt) : pt[k] = "*"
<1>1. i \in 1 .. Len(pt) + 1 /\ j \in 1 .. Len(tx) + 1 /\ j = Len(tx) + 1
  BY DEF Tracks
<1>2. Spells(pt, tx, i, j) <=> \A k \in i .. Len(pt) : pt[k] = "*"
  BY <1>1, StarsSpellNothing, LetterSpellsOne
<1>3. Open(pt, tx, i, j, s, m) <=> Spells(pt, tx, i, j)
  <2>1. CASE s = 0
    BY <2>1 DEF Open
  <2>2. CASE s # 0
    <3>1. Behind(pt, tx, i, j, s, m)
      BY <2>2 DEF Tracks
    <3>2. ASSUME NEW k \in m .. Len(tx) + 1, Spells(pt, tx, s + 1, k) PROVE Spells(pt, tx, i, j)
      <4>1. j + (k - m) \in j .. Len(tx) + 1 /\ Spells(pt, tx, i, j + (k - m))
        BY <1>1, <3>1, <3>2, BehindForth
      <4>2. j + (k - m) = j
        BY <1>1, <4>1
      <4> QED BY <4>1, <4>2
    <3>3. ASSUME Spells(pt, tx, i, j) PROVE \E k \in m .. Len(tx) + 1 : Spells(pt, tx, s + 1, k)
      BY <1>1, <3>1, <3>3, BehindBack
    <3> QED BY <2>2, <3>2, <3>3 DEF Open
  <2> QED BY <2>1, <2>2
<1> QED BY <1>2, <1>3 DEF Tracks

-----------------------------------------------------------------------------
PatternLetters == Letters \union {".", "?", "*"}
NameLetters    == Letters \union {"."}

(* Both halves of a name are made of its letters.                          *)
LEMMA PartsOf ==
  ASSUME NEW L, NEW s \in Seq(L)
  PROVE  Base(s) \in Seq(L) /\ Ext(s) \in Seq(L)
<1>1. ASSUME HasDot(s) PROVE Dot(s) \in DOMAIN s
  <2> DEFINE dots == {i \in DOMAIN s : s[i] = "."}
  <2>1. dots \subseteq Nat /\ dots # {}
    BY <1>1 DEF HasDot
  <2> HIDE DEF dots
  <2>2. PICK i \in dots : \A j \in dots : i <= j
    BY <2>1, LeastOf
  <2>3. i \in DOMAIN s /\ s[i] = "." /\ \A j \in 1 .. i - 1 : s[j] # "."
    <3>1. i \in DOMAIN s /\ s[i] = "."
      BY <2>2 DEF dots
    <3>2. ASSUME NEW j \in 1 .. i - 1, s[j] = "." PROVE FALSE
      <4>1. j \in DOMAIN s /\ ~(i <= j)
        BY <3>1
      <4> QED BY <2>2, <3>2, <4>1 DEF dots
    <3> QED BY <3>1, <3>2
  <2> QED BY <2>3, Zenon DEF Dot
<1>2. ASSUME HasDot(s) PROVE SubSeq(s, 1, Dot(s) - 1) \in Seq(L) /\ SubSeq(s, Dot(s) + 1, Len(s)) \in Seq(L)
  <2>1. PICK d \in 1 .. Len(s) : d = Dot(s)
    BY <1>1, <1>2
  <2>2. \A i \in 1 .. d - 1 : s[i] \in L
    OBVIOUS
  <2>3. \A i \in d + 1 .. Len(s) : s[i] \in L
    OBVIOUS
  <2>4. SubSeq(s, 1, d - 1) \in Seq(L)
    BY <2>2, SubSeqProperties
  <2>5. SubSeq(s, d + 1, Len(s)) \in Seq(L)
    BY <2>3, SubSeqProperties
  <2> QED BY <2>1, <2>4, <2>5
<1>3. <<>> \in Seq(L)
  OBVIOUS
<1> QED BY <1>2, <1>3 DEF Base, Ext

(* The pattern of an extension is a pattern ("*" when there is none).      *)
LEMMA PatExtOf == pat \in Seq(PatternLetters) => PatExt \in Seq(PatternLetters)
<1>1. <<"*">> \in Seq(PatternLetters)
  BY DEF PatternLetters
<1> QED BY <1>1, PartsOf DEF PatExt

(* What every state of a comparison satisfies.                             *)
ArgsTyped == pat \in Seq(PatternLetters) /\ name \in Seq(NameLetters)
PhaseTyped == phase \in {"idle", "base", "ext", "yes", "no"}
AtRest    == phase = "idle" => p = 1 /\ n = 1 /\ star = 0 /\ mark = 0
OnTrack   == Comparing => Tracks(Pattern, Text, p, n, star, mark)
BaseHeld  == phase = "ext" => Glob(Base(pat), Base(name))
MatchInv  == ArgsTyped /\ PhaseTyped /\ AtRest /\ OnTrack /\ BaseHeld /\ VerdictIsGlob

(* What is compared is spelt with the letters of patterns and names.       *)
LEMMA PartsTyped ==
  ASSUME ArgsTyped
  PROVE  Pattern \in Seq(PatternLetters) /\ Text \in Seq(NameLetters)
BY PartsOf, PatExtOf DEF ArgsTyped, Pattern, Text

(* The first state.                                                        *)
LEMMA MatchInitInv == MatchInit => MatchInv
BY DEF MatchInit, MatchInv, ArgsTyped, PhaseTyped, AtRest, OnTrack, BaseHeld, VerdictIsGlob, Comparing

(* The call, and each kind of turn, keeps the invariant.                   *)
LEMMA CompareInv == ASSUME MatchInv, Compare PROVE MatchInv'
<1>1. /\ phase = "idle" /\ pat' \in Patterns /\ name' \in EntryNames /\ phase' = "base"
      /\ p' = p /\ n' = n /\ star' = star /\ mark' = mark
  BY DEF Compare
<1>2. p = 1 /\ n = 1 /\ star = 0 /\ mark = 0
  BY <1>1 DEF MatchInv, AtRest
<1>3. ArgsTyped'
  BY <1>1, MatchAssumption DEF ArgsTyped, PatternLetters, NameLetters
<1>4. Base(pat') \in Seq(PatternLetters) /\ Base(name') \in Seq(NameLetters)
  BY <1>3, PartsOf DEF ArgsTyped
<1>5. Tracks(Base(pat'), Base(name'), 1, 1, 0, 0)
  BY <1>4, TracksStart
<1>6. OnTrack'
  BY <1>1, <1>2, <1>5 DEF OnTrack, Pattern, Text
<1> QED BY <1>1, <1>3, <1>6 DEF MatchInv, PhaseTyped, AtRest, BaseHeld, VerdictIsGlob

(* A letter that fits.                                                     *)
LEMMA TakeOneInv == ASSUME "*" \notin Letters, MatchInv, TakeOne PROVE MatchInv'
<1>1. /\ Comparing /\ n <= Len(Text) /\ p <= Len(Pattern) /\ Fits(Pattern[p], Text[n])
      /\ p' = p + 1 /\ n' = n + 1 /\ phase' = phase /\ pat' = pat /\ name' = name
      /\ star' = star /\ mark' = mark
  BY DEF TakeOne, OneFits
<1>2. Pattern' = Pattern /\ Text' = Text
  BY <1>1 DEF Pattern, Text, PatExt
<1>3. Tracks(Pattern, Text, p, n, star, mark)
  BY <1>1 DEF MatchInv, OnTrack
<1>4. Pattern \in Seq(PatternLetters) /\ Text \in Seq(NameLetters)
  BY PartsTyped DEF MatchInv
<1>5. Pattern[p] # "*"
  <2>1. Text[n] \in NameLetters
    BY <1>1, <1>3, <1>4 DEF Tracks
  <2> QED BY <1>1, <2>1 DEF Fits, NameLetters
<1>6. Tracks(Pattern, Text, p + 1, n + 1, star, mark)
  BY <1>1, <1>3, <1>4, <1>5, TracksOne
<1>7. OnTrack'
  BY <1>1, <1>2, <1>6 DEF OnTrack
<1> QED BY <1>1, <1>7 DEF MatchInv, ArgsTyped, PhaseTyped, AtRest, BaseHeld, VerdictIsGlob, Comparing, PatExt

(* A star.                                                                 *)
LEMMA MeetStarInv == ASSUME MatchInv, MeetStar PROVE MatchInv'
<1>1. /\ Comparing /\ p <= Len(Pattern) /\ Pattern[p] = "*"
      /\ p' = p + 1 /\ n' = n /\ phase' = phase /\ pat' = pat /\ name' = name
      /\ star' = p /\ mark' = n
  BY DEF MeetStar, AtStar
<1>2. Pattern' = Pattern /\ Text' = Text
  BY <1>1 DEF Pattern, Text, PatExt
<1>3. Tracks(Pattern, Text, p, n, star, mark)
  BY <1>1 DEF MatchInv, OnTrack
<1>4. Pattern \in Seq(PatternLetters) /\ Text \in Seq(NameLetters)
  BY PartsTyped DEF MatchInv
<1>5. Tracks(Pattern, Text, p + 1, n, p, n)
  BY <1>1, <1>3, <1>4, TracksStar
<1>6. OnTrack'
  BY <1>1, <1>2, <1>5 DEF OnTrack
<1> QED BY <1>1, <1>6 DEF MatchInv, ArgsTyped, PhaseTyped, AtRest, BaseHeld, VerdictIsGlob, Comparing, PatExt

(* A letter that does not fit: back to the last star, or no match.         *)
LEMMA MismatchInv == ASSUME MatchInv, Mismatch PROVE MatchInv'
<1>1. /\ Comparing /\ n <= Len(Text) /\ ~OneFits /\ ~AtStar
      /\ pat' = pat /\ name' = name /\ star' = star
  BY DEF Mismatch
<1>2. p <= Len(Pattern) => Pattern[p] # "*" /\ ~Fits(Pattern[p], Text[n])
  BY <1>1 DEF OneFits, AtStar
<1>3. Tracks(Pattern, Text, p, n, star, mark)
  BY <1>1 DEF MatchInv, OnTrack
<1>4. Pattern \in Seq(PatternLetters) /\ Text \in Seq(NameLetters)
  BY PartsTyped DEF MatchInv
<1>5. CASE star # 0 /\ BackToStar /\ phase' = phase
  <2>1. p' = star + 1 /\ n' = mark + 1 /\ mark' = mark + 1
    BY <1>5 DEF BackToStar
  <2>2. Pattern' = Pattern /\ Text' = Text
    BY <1>1, <1>5 DEF Pattern, Text, PatExt
  <2>3. Tracks(Pattern, Text, star + 1, mark + 1, star, mark + 1)
    BY <1>1, <1>2, <1>3, <1>4, <1>5, TracksBack
  <2>4. OnTrack'
    BY <1>1, <2>1, <2>2, <2>3 DEF OnTrack
  <2> QED BY <1>1, <1>5, <2>4
          DEF MatchInv, ArgsTyped, PhaseTyped, AtRest, BaseHeld, VerdictIsGlob, Comparing, PatExt
<1>6. CASE star = 0 /\ phase' = "no"
  <2>1. ~Glob(Pattern, Text)
    BY <1>1, <1>2, <1>3, <1>4, <1>6, TracksFails
  <2>2. PatExt' = PatExt
    BY <1>1 DEF PatExt
  <2>3. ~(Glob(Base(pat), Base(name)) /\ Glob(PatExt, Ext(name)))
    BY <1>1, <2>1 DEF Pattern, Text, Comparing
  <2>4. VerdictIsGlob'
    BY <1>1, <1>6, <2>2, <2>3 DEF VerdictIsGlob
  <2> QED BY <1>1, <1>6, <2>4 DEF MatchInv, ArgsTyped, PhaseTyped, AtRest, OnTrack, BaseHeld, Comparing
<1> QED BY <1>5, <1>6 DEF Mismatch

(* The end of the part: what is left of the pattern decides.               *)
LEMMA TextEndsInv == ASSUME MatchInv, TextEnds PROVE MatchInv'
<1> DEFINE left == \E i \in p .. Len(Pattern) : Pattern[i] # "*"
<1>1. /\ Comparing /\ n > Len(Text) /\ pat' = pat /\ name' = name
      /\ phase' = IF left THEN "no" ELSE IF phase = "base" THEN "ext" ELSE "yes"
      /\ p' = 1 /\ n' = 1 /\ star' = 0 /\ mark' = 0
  BY DEF TextEnds
<1>2. Tracks(Pattern, Text, p, n, star, mark)
  BY <1>1 DEF MatchInv, OnTrack
<1>3. Pattern \in Seq(PatternLetters) /\ Text \in Seq(NameLetters)
  BY PartsTyped DEF MatchInv
<1>4. ~(n <= Len(Text))
  BY <1>1, <1>2, <1>3 DEF Tracks
<1>5. Glob(Pattern, Text) <=> ~left
  BY <1>2, <1>3, <1>4, TracksEnd
<1>6. PatExt' = PatExt
  BY <1>1 DEF PatExt
<1>7. PatExt \in Seq(PatternLetters) /\ Ext(name) \in Seq(NameLetters)
  BY PatExtOf, PartsOf DEF MatchInv, ArgsTyped
<1>8. Tracks(PatExt, Ext(name), 1, 1, 0, 0)
  BY <1>7, TracksStart
<1> HIDE DEF left
<1>9. ArgsTyped' /\ PhaseTyped' /\ AtRest'
  BY <1>1 DEF MatchInv, ArgsTyped, PhaseTyped, AtRest
<1>10. OnTrack'
  BY <1>1, <1>6, <1>8 DEF OnTrack, Pattern, Text, Comparing
<1>11. BaseHeld' /\ VerdictIsGlob'
  <2>1. CASE phase = "base"
    BY <1>1, <1>5, <1>6, <2>1 DEF BaseHeld, VerdictIsGlob, Pattern, Text
  <2>2. CASE phase = "ext"
    BY <1>1, <1>5, <1>6, <2>2 DEF MatchInv, BaseHeld, VerdictIsGlob, Pattern, Text
  <2> QED BY <1>1, <2>1, <2>2 DEF Comparing
<1> QED BY <1>9, <1>10, <1>11 DEF MatchInv

(* The verdict is returned.                                                *)
LEMMA ReturnInv == ASSUME Return PROVE MatchInv'
BY DEF Return, MatchInv, ArgsTyped, PhaseTyped, AtRest, OnTrack, BaseHeld, VerdictIsGlob, Comparing

(* So does every step.                                                     *)
LEMMA MatchNextInv == ASSUME "*" \notin Letters, MatchInv, [MatchNext]_matchVars PROVE MatchInv'
<1>1. CASE UNCHANGED matchVars
  BY <1>1 DEF matchVars, MatchInv, ArgsTyped, PhaseTyped, AtRest, OnTrack, BaseHeld, VerdictIsGlob,
              Comparing, Pattern, Text, PatExt
<1> QED BY <1>1, CompareInv, TakeOneInv, MeetStarInv, MismatchInv, TextEndsInv, ReturnInv
        DEF MatchNext, MatchTurn

(* The one remembered star of wildmatch is enough: the loop's verdict is   *)
(* what the pattern means, for every pattern and every name that has no    *)
(* star among its letters.                                                 *)
THEOREM OneStarIsEnough ==
  ASSUME "*" \notin Letters
  PROVE  MatchSpec => []VerdictIsGlob
<1>1. MatchInv /\ [MatchNext]_matchVars => MatchInv'
  BY MatchNextInv
<1>2. MatchInv => VerdictIsGlob
  BY DEF MatchInv
<1> QED BY MatchInitInv, <1>1, <1>2, PTL DEF MatchSpec

MarkInv == p \in Nat /\ n \in Nat /\ star \in Nat /\ mark \in Nat /\ mark <= n

(* Every turn of wildmatch's loop advances: what its star has been given   *)
(* grows, or the position in the pattern does.                             *)
THEOREM TurnsDoAdvance == MatchSpec => TurnsAdvance
<1>1. MatchInit => MarkInv
  BY DEF MatchInit, MarkInv
<1>2. MarkInv /\ [MatchNext]_matchVars => MarkInv'
  BY DEF MarkInv, MatchNext, MatchTurn, Compare, TakeOne, MeetStar, Mismatch, BackToStar, TextEnds,
         Return, matchVars
<1>3. ASSUME MarkInv, MatchTurn
      PROVE  (phase' # phase /\ phase' # "base") \/ mark' > mark \/ (mark' = mark /\ p' > p)
  <2>1. CASE TakeOne \/ MeetStar
    BY <1>3, <2>1 DEF MarkInv, TakeOne, MeetStar
  <2>2. CASE Mismatch \/ TextEnds
    BY <1>3, <2>2 DEF MarkInv, Mismatch, BackToStar, TextEnds, Comparing
  <2> QED BY <1>3, <2>1, <2>2 DEF MatchTurn
<1>4. MarkInv /\ [MatchNext]_matchVars =>
        [MatchTurn => \/ phase' # phase /\ phase' # "base"
                      \/ mark' > mark
                      \/ mark' = mark /\ p' > p]_matchVars
  BY <1>3
<1> QED BY <1>1, <1>2, <1>4, PTL DEF MatchSpec, TurnsAdvance

(* A loop of so many turns runs: one value after each turn.                *)
Turning(S, len, T)   == \A k \in 1 .. len : \A x \in T : S[<<k, x>>] \in T
IsRun(f, len, T, a, S) ==
  /\ f \in [0 .. len -> T] /\ f[0] = a
  /\ \A k \in 1 .. len : f[k] = S[<<k, f[k - 1]>>]

(* A loop of len turns whose turns stay in T computes a value per turn.    *)
LEMMA LoopRuns ==
  ASSUME NEW len \in Nat, NEW T, NEW a \in T, NEW S, Turning(S, len, T)
  PROVE  \E f : IsRun(f, len, T, a, S)
<1> USE DEF Turning
<1> DEFINE Run(f, m) == /\ f \in [0 .. m -> T] /\ f[0] = a
                        /\ \A k \in 1 .. m : f[k] = S[<<k, f[k - 1]>>]
           D == {m \in Nat : m <= len => \E f : Run(f, m)}
<1>1. 0 \in D
  <2>1. Run([k \in 0 .. 0 |-> a], 0)
    OBVIOUS
  <2> QED BY <2>1
<1>2. ASSUME NEW m \in Nat, m \in D PROVE m + 1 \in D
  <2> SUFFICES ASSUME m + 1 <= len PROVE \E f : Run(f, m + 1)
    OBVIOUS
  <2>1. PICK f : Run(f, m)
    BY <1>2
  <2> DEFINE g == [k \in 0 .. m + 1 |-> IF k = m + 1 THEN S[<<m + 1, f[m]>>] ELSE f[k]]
  <2>2. f \in [0 .. m -> T] /\ f[0] = a /\ \A k \in 1 .. m : f[k] = S[<<k, f[k - 1]>>]
    BY <2>1
  <2>3. m + 1 \in 1 .. len /\ f[m] \in T
    BY <2>2
  <2>4. S[<<m + 1, f[m]>>] \in T
    BY <2>3
  <2>5. \A k \in 0 .. m + 1 : k = m + 1 \/ k \in 0 .. m
    OBVIOUS
  <2>6. g \in [0 .. m + 1 -> T] /\ g[m + 1] = S[<<m + 1, f[m]>>] /\ \A k \in 0 .. m : g[k] = f[k]
    BY <2>2, <2>4, <2>5
  <2> HIDE DEF g
  <2>7. g[0] = a /\ \A k \in 1 .. m + 1 : g[k] = S[<<k, g[k - 1]>>]
    <3>1. 0 \in 0 .. m /\ (m + 1) - 1 = m /\ m \in 0 .. m
          /\ \A k \in 1 .. m + 1 : k = m + 1 \/ (k \in 1 .. m /\ k \in 0 .. m /\ k - 1 \in 0 .. m)
      OBVIOUS
    <3> QED BY <2>2, <2>6, <3>1
  <2> QED BY <2>6, <2>7
<1> HIDE DEF D
<1>3. len \in D
  BY <1>1, <1>2, Upwards
<1> QED BY <1>3 DEF D, IsRun

-----------------------------------------------------------------------------
(* The vector as the allocator keeps it: from the first MCB to the end of  *)
(* the heap, each block beginning where the one before it ends.            *)
Rows == [seg : Nat, paras : Nat, owner : Word, used : BOOLEAN]
Stop(v, i) == IF i < Len(v) THEN v[i+1].seg ELSE HeapEnd
InOrder(v) ==
  /\ v \in Seq(Rows) /\ Len(v) >= 1
  /\ v[1].seg = ArenaMcb
  /\ \A i \in 1 .. Len(v) : v[i].seg + 1 + v[i].paras = Stop(v, i)

(* The paragraphs between an MCB and one further up.                       *)
LEMMA Between ==
  ASSUME NEW x \in Nat, NEW y \in Nat, x < y
  PROVE  y - x - 1 \in Nat /\ x + 1 + (y - x - 1) = y
OBVIOUS

(* What a row of a vector in order is, and where the next one begins.      *)
LEMMA RowFacts ==
  ASSUME NEW v, InOrder(v), NEW i \in DOMAIN v
  PROVE  /\ i \in 1 .. Len(v) /\ v[i] \in Rows
         /\ v[i].seg \in Nat /\ v[i].paras \in Nat /\ v[i].owner \in Word /\ v[i].used \in BOOLEAN
         /\ v[i].seg + 1 + v[i].paras = Stop(v, i)
<1>1. i \in 1 .. Len(v) /\ v[i] \in Rows
  BY DEF InOrder
<1> QED BY <1>1 DEF InOrder, Rows

(* A vector in order has a block at least.                                 *)
LEMMA Length ==
  ASSUME NEW v, InOrder(v)
  PROVE  Len(v) \in Nat /\ Len(v) >= 1 /\ DOMAIN v = 1 .. Len(v)
BY DEF InOrder

(* The blocks ascend.                                                      *)
LEMMA Ascending ==
  ASSUME NEW v, InOrder(v), NEW i \in DOMAIN v, NEW j \in DOMAIN v, i < j
  PROVE  v[i].seg + 1 + v[i].paras <= v[j].seg
<1> DEFINE S == {d \in Nat : i + d + 1 <= Len(v) => v[i].seg + 1 + v[i].paras <= v[i + d + 1].seg}
<1>0. Len(v) \in Nat /\ DOMAIN v = 1 .. Len(v) /\ i \in Nat /\ j \in Nat
  BY Length
<1>1. 0 \in S
  <2>1. i + 0 + 1 = i + 1
    BY <1>0
  <2>2. i + 1 <= Len(v) => v[i].seg + 1 + v[i].paras = v[i + 1].seg
    BY <1>0, RowFacts DEF Stop
  <2>3. i + 1 <= Len(v) => v[i + 1].seg \in Nat
    BY <1>0, RowFacts
  <2> QED BY <2>1, <2>2, <2>3
<1>2. ASSUME NEW d \in Nat, d \in S PROVE d + 1 \in S
  <2> SUFFICES ASSUME i + (d + 1) + 1 <= Len(v)
               PROVE  v[i].seg + 1 + v[i].paras <= v[i + (d + 1) + 1].seg
    OBVIOUS
  <2>0. PICK k \in Nat : k = i + d + 1
    BY <1>0
  <2>1. k \in DOMAIN v /\ k + 1 \in DOMAIN v /\ k < Len(v) /\ i + (d + 1) + 1 = k + 1 /\ i + d + 1 = k
    BY <1>0, <2>0
  <2>2. v[i].seg + 1 + v[i].paras <= v[k].seg
    BY <1>2, <2>1
  <2> HIDE DEF S
  <2>3. v[k].seg + 1 + v[k].paras = v[k + 1].seg /\ v[k].seg \in Nat /\ v[k].paras \in Nat
        /\ v[k + 1].seg \in Nat
    BY <2>1, RowFacts DEF Stop
  <2>4. v[i].seg \in Nat /\ v[i].paras \in Nat
    BY RowFacts
  <2>5. v[k].seg <= v[k + 1].seg
    <3>1. \A x, y, z \in Nat : x + 1 + y = z => x <= z
      OBVIOUS
    <3> QED BY <2>3, <3>1, Zenon
  <2>6. v[i].seg + 1 + v[i].paras \in Nat
    BY <2>4
  <2>7. \A x, y, z \in Nat : x <= y /\ y <= z => x <= z
    OBVIOUS
  <2>8. v[i].seg + 1 + v[i].paras <= v[k + 1].seg
    BY <2>2, <2>3, <2>5, <2>6, <2>7, Zenon
  <2> QED BY <2>1, <2>8
<1> HIDE DEF S
<1>3. j - i - 1 \in S
  <2>1. j - i - 1 \in Nat
    BY <1>0
  <2> QED BY <1>1, <1>2, <2>1, Upwards
<1>4. i + (j - i - 1) + 1 = j /\ j <= Len(v)
  BY <1>0
<1> QED BY <1>3, <1>4 DEF S

(* The rows are in address order, so no two have one MCB.                  *)
LEMMA SegsDiffer ==
  ASSUME NEW v, InOrder(v), NEW i \in DOMAIN v, NEW j \in DOMAIN v
  PROVE  /\ v[i].seg = v[j].seg => i = j
         /\ i < j <=> v[i].seg < v[j].seg
<1>1. /\ i \in Nat /\ j \in Nat /\ v[i].seg \in Nat /\ v[j].seg \in Nat
      /\ v[i].paras \in Nat /\ v[j].paras \in Nat
  BY Length, RowFacts
<1>2. i < j => v[i].seg + 1 + v[i].paras <= v[j].seg
  BY Ascending
<1>3. j < i => v[j].seg + 1 + v[j].paras <= v[i].seg
  BY Ascending
<1> QED BY <1>1, <1>2, <1>3

(* Every block lies in the arena.                                          *)
LEMMA InArena ==
  ASSUME NEW v, InOrder(v), NEW i \in DOMAIN v
  PROVE  /\ ArenaMcb <= v[i].seg /\ v[i].seg < HeapEnd /\ v[i].seg \in Paragraphs
         /\ v[i].seg + 1 + v[i].paras <= HeapEnd /\ v[i].paras \in 0 .. HeapEnd
<1>1. /\ Len(v) \in Nat /\ 1 \in DOMAIN v /\ Len(v) \in DOMAIN v /\ i \in 1 .. Len(v)
  BY Length
<1>2. v[1].seg = ArenaMcb /\ v[1].paras \in Nat
  BY <1>1, RowFacts DEF InOrder
<1>3. v[Len(v)].seg + 1 + v[Len(v)].paras = HeapEnd /\ v[Len(v)].seg \in Nat /\ v[Len(v)].paras \in Nat
  BY <1>1, RowFacts DEF Stop
<1>4. v[i].seg \in Nat /\ v[i].paras \in Nat
  BY RowFacts
<1>5. i = 1 \/ v[1].seg + 1 + v[1].paras <= v[i].seg
  BY <1>1, Ascending
<1>6. i = Len(v) \/ v[i].seg + 1 + v[i].paras <= v[Len(v)].seg
  BY <1>1, Ascending
<1>7. PICK x \in Nat : x = v[i].seg
  BY <1>4
<1>8. PICK y \in Nat : y = v[i].paras
  BY <1>4
<1>9. ArenaMcb <= x
  BY <1>2, <1>5, <1>7, ArenaAssumption
<1>10. x + 1 + y <= HeapEnd
  <2>1. PICK a \in Nat : a = v[Len(v)].seg
    BY <1>3
  <2>2. PICK b \in Nat : b = v[Len(v)].paras
    BY <1>3
  <2>3. a + 1 + b = HeapEnd
    BY <1>3, <2>1, <2>2
  <2>4. i = Len(v) => x = a /\ y = b
    BY <1>7, <1>8, <2>1, <2>2
  <2>5. i # Len(v) => x + 1 + y <= a
    BY <1>6, <1>7, <1>8, <2>1
  <2> QED BY <2>3, <2>4, <2>5
<1>11. x < HeapEnd /\ x \in ArenaMcb .. HeapEnd - 1 /\ y \in 0 .. HeapEnd
  BY <1>9, <1>10, ArenaAssumption
<1> QED BY <1>7, <1>8, <1>9, <1>10, <1>11 DEF Paragraphs

(* The block a row stands for.                                             *)
LEMMA CellFacts ==
  ASSUME NEW r \in Rows, r.paras \in 0 .. HeapEnd
  PROVE  Cell(r) \in Block /\ Cell(r).paras = r.paras /\ Cell(r).used = r.used
<1>1. r.owner \in Word /\ r.used \in BOOLEAN
  BY DEF Rows
<1>2. 0 \in Word
  BY DEF Word, MaxWord
<1> QED BY <1>1, <1>2 DEF Cell, FreeBlock, Block

(* The arena a vector stands for.                                          *)
LEMMA ArenaOf ==
  ASSUME NEW v, InOrder(v)
  PROVE  /\ DOMAIN ToArena(v) = {v[i].seg : i \in DOMAIN v}
         /\ \A i \in DOMAIN v :
              /\ v[i].seg \in DOMAIN ToArena(v)
              /\ ToArena(v)[v[i].seg] = Cell(v[i])
              /\ ToArena(v)[v[i].seg].paras = v[i].paras
              /\ ToArena(v)[v[i].seg].used = v[i].used
              /\ End(ToArena(v), v[i].seg) = v[i].seg + 1 + v[i].paras
         /\ IsTiling(ToArena(v))
<1> DEFINE bs == ToArena(v)
<1>1. DOMAIN bs = {v[i].seg : i \in DOMAIN v}
  BY DEF ToArena
<1>2. ASSUME NEW i \in DOMAIN v PROVE bs[v[i].seg] = Cell(v[i])
  <2> DEFINE s == v[i].seg
  <2>1. \A j \in DOMAIN v : v[j].seg = s => j = i
    BY SegsDiffer
  <2>2. (CHOOSE j \in DOMAIN v : v[j].seg = s) = i
    BY <2>1
  <2>3. bs[s] = Cell(v[CHOOSE j \in DOMAIN v : v[j].seg = s])
    BY <1>1 DEF ToArena
  <2> QED BY <2>2, <2>3
<1> HIDE DEF bs
<1>3. ASSUME NEW i \in DOMAIN v
      PROVE  /\ v[i].seg \in DOMAIN bs /\ bs[v[i].seg] \in Block
             /\ bs[v[i].seg].paras = v[i].paras /\ bs[v[i].seg].used = v[i].used
             /\ End(bs, v[i].seg) = v[i].seg + 1 + v[i].paras
  <2>1. v[i] \in Rows /\ v[i].paras \in 0 .. HeapEnd
    BY RowFacts, InArena
  <2> QED BY <1>1, <1>2, <2>1, CellFacts DEF End
<1>4. IsArena(bs)
  <2>1. DOMAIN bs \subseteq Paragraphs
    BY <1>1, InArena
  <2>2. bs = [t \in DOMAIN bs |-> bs[t]]
    BY DEF bs, ToArena
  <2>3. \A t \in DOMAIN bs : bs[t] \in Block
    BY <1>1, <1>3
  <2> QED BY <2>1, <2>2, <2>3 DEF IsArena
<1>5. StartsAtBottom(bs)
  <2>1. 1 \in DOMAIN v /\ v[1].seg = ArenaMcb
    BY Length DEF InOrder
  <2> QED BY <1>1, <2>1 DEF StartsAtBottom
<1>6. Contiguous(bs)
  <2> SUFFICES ASSUME NEW i \in DOMAIN v PROVE End(bs, v[i].seg) \in DOMAIN bs \union {HeapEnd}
    BY <1>1 DEF Contiguous
  <2>1. i < Len(v) => i + 1 \in DOMAIN v
    BY Length
  <2>2. End(bs, v[i].seg) = Stop(v, i)
    BY <1>3, RowFacts
  <2> QED BY <1>3, <2>1, <2>2 DEF Stop
<1>7. Disjoint(bs)
  <2> SUFFICES ASSUME NEW i \in DOMAIN v, NEW j \in DOMAIN v, v[i].seg < v[j].seg
               PROVE  End(bs, v[i].seg) <= v[j].seg
    BY <1>1 DEF Disjoint
  <2> QED BY <1>3, SegsDiffer, Ascending
<1> QED BY <1>1, <1>2, <1>3, <1>4, <1>5, <1>6, <1>7 DEF IsTiling, bs

(* A function of the MCBs that agrees with each row is the arena.          *)
LEMMA ArenaIs ==
  ASSUME NEW v, InOrder(v), NEW D, NEW fs, fs = [t \in D |-> fs[t]],
         D = {v[i].seg : i \in DOMAIN v}, \A i \in DOMAIN v : fs[v[i].seg] = Cell(v[i])
  PROVE  ToArena(v) = fs
<1>1. DOMAIN ToArena(v) = D /\ \A i \in DOMAIN v : ToArena(v)[v[i].seg] = Cell(v[i])
  BY ArenaOf
<1>2. ToArena(v) = [t \in DOMAIN ToArena(v) |-> ToArena(v)[t]]
  BY DEF ToArena
<1>3. \A t \in D : ToArena(v)[t] = fs[t]
  BY <1>1
<1> QED BY <1>1, <1>2, <1>3
-----------------------------------------------------------------------------
(* insert, erase and a changed element, by their indexes.                  *)
LEMMA Inserted ==
  ASSUME NEW v \in Seq(Rows), NEW i \in 1 .. Len(v), NEW r \in Rows
  PROVE  LET w == InsertAfter(v, i, r)
         IN  /\ w \in Seq(Rows) /\ Len(w) = Len(v) + 1
             /\ \A j \in 1 .. i : w[j] = v[j]
             /\ w[i+1] = r
             /\ \A j \in i + 2 .. Len(v) + 1 : w[j] = v[j-1]
<1> DEFINE a == SubSeq(v, 1, i)  b == SubSeq(v, i + 1, Len(v))  c == <<r>>
           len == Len(v)
<1>0. len \in Nat /\ i \in Nat /\ i <= len /\ 1 <= i
  OBVIOUS
<1>1. a \in Seq(Rows) /\ Len(a) = i /\ \A j \in 1 .. i : a[j] = v[j]
  <2>1. \A j \in 1 .. i : v[j] \in Rows
    OBVIOUS
  <2>2. /\ a \in Seq(Rows) /\ Len(a) = (IF 1 <= i THEN i - 1 + 1 ELSE 0)
        /\ \A j \in 1 .. i - 1 + 1 : a[j] = v[1 + j - 1]
    BY <1>0, <2>1, SubSeqProperties
  <2>3. i - 1 + 1 = i /\ \A j \in 1 .. i : 1 + j - 1 = j
    BY <1>0
  <2> QED BY <1>0, <2>2, <2>3
<1>2. b \in Seq(Rows) /\ Len(b) = len - i /\ \A j \in 1 .. len - i : b[j] = v[i + j]
  <2>1. \A j \in i + 1 .. len : v[j] \in Rows
    OBVIOUS
  <2>2. /\ b \in Seq(Rows) /\ Len(b) = (IF i + 1 <= len THEN len - (i + 1) + 1 ELSE 0)
        /\ \A j \in 1 .. len - (i + 1) + 1 : b[j] = v[(i + 1) + j - 1]
    BY <1>0, <2>1, SubSeqProperties
  <2>3. len - (i + 1) + 1 = len - i /\ \A j \in 1 .. len - i : (i + 1) + j - 1 = i + j
    BY <1>0
  <2>4. i + 1 <= len \/ len - i = 0
    BY <1>0
  <2> QED BY <2>2, <2>3, <2>4
<1>3. c \in Seq(Rows) /\ Len(c) = 1 /\ c[1] = r
  OBVIOUS
<1> HIDE DEF a, b, c, len
<1>4. /\ a \o c \in Seq(Rows) /\ Len(a \o c) = i + 1
      /\ \A j \in 1 .. i + 1 : (a \o c)[j] = IF j <= i THEN a[j] ELSE c[j - i]
  <2>1. /\ a \o c \in Seq(Rows) /\ Len(a \o c) = Len(a) + Len(c)
        /\ \A j \in 1 .. Len(a) + Len(c) : (a \o c)[j] = IF j <= Len(a) THEN a[j] ELSE c[j - Len(a)]
    BY <1>1, <1>3, ConcatProperties, Zenon
  <2> QED BY <1>1, <1>3, <2>1
<1>5. /\ (a \o c) \o b \in Seq(Rows) /\ Len((a \o c) \o b) = (i + 1) + (len - i)
      /\ \A j \in 1 .. (i + 1) + (len - i) :
           ((a \o c) \o b)[j] = IF j <= i + 1 THEN (a \o c)[j] ELSE b[j - (i + 1)]
  <2> DEFINE d == a \o c
  <2>1. d \in Seq(Rows) /\ Len(d) = i + 1
    BY <1>4
  <2> HIDE DEF d
  <2>2. /\ d \o b \in Seq(Rows) /\ Len(d \o b) = Len(d) + Len(b)
        /\ \A j \in 1 .. Len(d) + Len(b) : (d \o b)[j] = IF j <= Len(d) THEN d[j] ELSE b[j - Len(d)]
    BY <1>2, <2>1, ConcatProperties, Zenon
  <2>3. /\ d \o b \in Seq(Rows) /\ Len(d \o b) = (i + 1) + (len - i)
        /\ \A j \in 1 .. (i + 1) + (len - i) : (d \o b)[j] = IF j <= i + 1 THEN d[j] ELSE b[j - (i + 1)]
    BY <1>2, <2>1, <2>2
  <2> QED BY <2>3, Zenon DEF d
<1>6. (i + 1) + (len - i) = len + 1
  BY <1>0
<1> DEFINE w == (a \o c) \o b
<1>7. \A j \in 1 .. i : w[j] = v[j]
  <2>1. \A j \in 1 .. i : j \in 1 .. len + 1 /\ j <= i + 1 /\ j <= i /\ j \in 1 .. i + 1
    BY <1>0
  <2> QED BY <1>1, <1>4, <1>5, <1>6, <2>1
<1>8. w[i + 1] = r
  <2>1. i + 1 \in 1 .. len + 1 /\ i + 1 <= i + 1 /\ i + 1 \in 1 .. i + 1 /\ ~(i + 1 <= i)
        /\ i + 1 - i = 1
    BY <1>0
  <2>2. w[i + 1] = (a \o c)[i + 1] /\ (a \o c)[i + 1] = c[i + 1 - i]
    BY <1>4, <1>5, <1>6, <2>1
  <2> QED BY <1>3, <2>1, <2>2
<1>9. \A j \in i + 2 .. len + 1 : w[j] = v[j - 1]
  <2>1. \A j \in i + 2 .. len + 1 : /\ j \in 1 .. len + 1 /\ ~(j <= i + 1) /\ j - (i + 1) \in 1 .. len - i
                                    /\ i + (j - (i + 1)) = j - 1
    BY <1>0
  <2> QED BY <1>2, <1>5, <1>6, <2>1
<1>10. w = InsertAfter(v, i, r)
  BY Zenon DEF InsertAfter, a, b, c, len
<1> HIDE DEF w
<1> QED BY <1>5, <1>6, <1>7, <1>8, <1>9, <1>10 DEF w, len

(* blocks_.erase: the rows before i, then those from k on.                 *)
LEMMA Erased ==
  ASSUME NEW v \in Seq(Rows), NEW i \in 1 .. Len(v) + 1, NEW k \in i .. Len(v) + 1
  PROVE  LET w == Erase(v, i, k)
         IN  /\ w \in Seq(Rows) /\ Len(w) = Len(v) - (k - i)
             /\ \A j \in 1 .. i - 1 : w[j] = v[j]
             /\ \A j \in i .. Len(v) - (k - i) : w[j] = v[j + (k - i)]
<1> DEFINE a == SubSeq(v, 1, i - 1)  b == SubSeq(v, k, Len(v))
           len == Len(v)
<1>0. len \in Nat /\ i \in Nat /\ i <= len + 1 /\ 1 <= i /\ k \in Nat /\ i <= k /\ k <= len + 1
  OBVIOUS
<1>1. a \in Seq(Rows) /\ Len(a) = i - 1 /\ \A j \in 1 .. i - 1 : a[j] = v[j]
  <2>1. \A j \in 1 .. i - 1 : v[j] \in Rows
    OBVIOUS
  <2>2. /\ a \in Seq(Rows) /\ Len(a) = (IF 1 <= i - 1 THEN i - 1 - 1 + 1 ELSE 0)
        /\ \A j \in 1 .. i - 1 - 1 + 1 : a[j] = v[1 + j - 1]
    BY <1>0, <2>1, SubSeqProperties
  <2>3. i - 1 - 1 + 1 = i - 1 /\ \A j \in 1 .. i - 1 : 1 + j - 1 = j
    BY <1>0
  <2>4. 1 <= i - 1 \/ i - 1 = 0
    BY <1>0
  <2> QED BY <1>0, <2>2, <2>3, <2>4
<1>2. b \in Seq(Rows) /\ Len(b) = len + 1 - k /\ \A j \in 1 .. len + 1 - k : b[j] = v[k + j - 1]
  <2>1. \A j \in k .. len : v[j] \in Rows
    BY <1>0
  <2>2. /\ b \in Seq(Rows) /\ Len(b) = (IF k <= len THEN len - k + 1 ELSE 0)
        /\ \A j \in 1 .. len - k + 1 : b[j] = v[k + j - 1]
    BY <1>0, <2>1, SubSeqProperties
  <2>3. len - k + 1 = len + 1 - k /\ (k <= len \/ len + 1 - k = 0)
    BY <1>0
  <2> QED BY <2>2, <2>3
<1> HIDE DEF a, b, len
<1>3. /\ a \o b \in Seq(Rows) /\ Len(a \o b) = (i - 1) + (len + 1 - k)
      /\ \A j \in 1 .. (i - 1) + (len + 1 - k) : (a \o b)[j] = IF j <= i - 1 THEN a[j] ELSE b[j - (i - 1)]
  <2>1. /\ a \o b \in Seq(Rows) /\ Len(a \o b) = Len(a) + Len(b)
        /\ \A j \in 1 .. Len(a) + Len(b) : (a \o b)[j] = IF j <= Len(a) THEN a[j] ELSE b[j - Len(a)]
    BY <1>1, <1>2, ConcatProperties, Zenon
  <2> QED BY <1>1, <1>2, <2>1
<1>4. (i - 1) + (len + 1 - k) = len - (k - i)
  BY <1>0
<1> DEFINE w == a \o b
<1>5. \A j \in 1 .. i - 1 : w[j] = v[j]
  <2>1. \A j \in 1 .. i - 1 : j \in 1 .. len - (k - i) /\ j <= i - 1
    BY <1>0
  <2> QED BY <1>1, <1>3, <1>4, <2>1
<1>6. \A j \in i .. len - (k - i) : w[j] = v[j + (k - i)]
  <2>1. \A j \in i .. len - (k - i) : /\ j \in 1 .. len - (k - i) /\ ~(j <= i - 1)
                                      /\ j - (i - 1) \in 1 .. len + 1 - k
                                      /\ k + (j - (i - 1)) - 1 = j + (k - i)
    BY <1>0
  <2> QED BY <1>2, <1>3, <1>4, <2>1
<1>7. w = Erase(v, i, k)
  BY DEF Erase, a, b, len
<1> HIDE DEF w
<1> QED BY <1>3, <1>4, <1>5, <1>6, <1>7 DEF w, len

(* An assignment to one row.                                               *)
LEMMA Changed ==
  ASSUME NEW v \in Seq(Rows), NEW i \in 1 .. Len(v), NEW r \in Rows
  PROVE  LET w == [v EXCEPT ![i] = r]
         IN  /\ w \in Seq(Rows) /\ Len(w) = Len(v) /\ w[i] = r
             /\ \A j \in 1 .. Len(v) : j # i => w[j] = v[j]
BY ExceptSeq

(* A search that stops at the first of some indexes.                       *)
LEMMA FirstFacts ==
  ASSUME NEW v, Len(v) \in Nat, NEW at, at \subseteq 1 .. Len(v)
  PROVE  /\ First(v, at) \in at \union {Len(v) + 1} /\ First(v, at) \in 1 .. Len(v) + 1
         /\ at # {} => First(v, at) \in at
         /\ at = {} => First(v, at) = Len(v) + 1
         /\ \A x \in at : First(v, at) <= x
<1> DEFINE S == at \union {Len(v) + 1}
<1>0. PICK len \in Nat : len = Len(v)
  OBVIOUS
<1>a. at \subseteq 1 .. len
  BY <1>0
<1>b. S = at \union {len + 1}
  BY <1>0
<1> HIDE DEF S
<1>1. S \subseteq Nat /\ S # {} /\ S = at \union {len + 1}
  BY <1>a, <1>b
<1>2. Least(S) \in S /\ \A y \in S : Least(S) <= y
  BY <1>1, LeastExists
<1>3. First(v, at) = Least(S)
  BY DEF First, S
<1>4. ~(Least(S) \in at) => Least(S) = len + 1
  BY <1>1, <1>2
<1>5. at # {} => Least(S) \in at
  <2> SUFFICES ASSUME NEW x \in at PROVE Least(S) # len + 1
    BY <1>4
  <2>1. Least(S) <= x /\ x \in 1 .. len
    BY <1>a, <1>1, <1>2
  <2> QED BY <2>1
<1>6. Least(S) \in 1 .. len + 1
  <2>1. 1 .. len \subseteq 1 .. len + 1 /\ len + 1 \in 1 .. len + 1
    OBVIOUS
  <2> QED BY <1>a, <1>b, <1>2, <2>1, Zenon
<1>7. Least(S) \in at \union {Len(v) + 1} /\ Least(S) \in 1 .. Len(v) + 1
  BY <1>0, <1>1, <1>2, <1>6
<1>8. at = {} => Least(S) = Len(v) + 1
  BY <1>0, <1>1, <1>2
<1>9. \A x \in at : Least(S) <= x
  BY <1>1, <1>2
<1> QED BY <1>3, <1>5, <1>7, <1>8, <1>9

(* The searches by MCB and by segment find the row.                        *)
LEMMA AtIs ==
  ASSUME NEW v, InOrder(v), NEW i \in DOMAIN v
  PROVE  At(v, v[i].seg) = i /\ LoopFind(v, v[i].seg + 1) = i
<1> DEFINE a == {j \in DOMAIN v : v[j].seg = v[i].seg}
           b == {j \in DOMAIN v : v[j].seg + 1 = v[i].seg + 1}
<1>1. Len(v) \in Nat /\ DOMAIN v = 1 .. Len(v)
  BY Length
<1>2. a = {i}
  BY SegsDiffer
<1>3. \A j \in DOMAIN v : v[j].seg \in Nat
  BY RowFacts
<1>4. b = a
  BY <1>3
<1>5. First(v, {i}) = i
  BY <1>1, FirstFacts, SMTT(20)
<1>6. At(v, v[i].seg) = First(v, a) /\ LoopFind(v, v[i].seg + 1) = First(v, b)
  BY DEF At, LoopFind
<1> HIDE DEF a, b
<1> QED BY <1>2, <1>4, <1>5, <1>6

(* A segment that is no block's.                                           *)
LEMMA FindFails ==
  ASSUME NEW v, InOrder(v), NEW seg \in Nat, NEW bs, bs = ToArena(v)
  PROVE  /\ seg - 1 \in DOMAIN bs =>
              /\ LoopFind(v, seg) \in DOMAIN v /\ v[LoopFind(v, seg)].seg = seg - 1
              /\ LoopFind(v, seg) <= Len(v)
         /\ seg - 1 \notin DOMAIN bs => LoopFind(v, seg) > Len(v)
<1>1. Len(v) \in Nat /\ DOMAIN v = 1 .. Len(v)
  BY Length
<1>2. \A j \in DOMAIN v : v[j].seg \in Nat
  BY RowFacts
<1>3. DOMAIN bs = {v[j].seg : j \in DOMAIN v}
  BY ArenaOf
<1> DEFINE b == {j \in DOMAIN v : v[j].seg + 1 = seg}
<1>4. \A j \in DOMAIN v : v[j].seg = seg - 1 <=> v[j].seg + 1 = seg
  BY <1>2
<1>5. b \subseteq 1 .. Len(v)
  BY <1>1
<1>6. LoopFind(v, seg) = First(v, b)
  BY DEF LoopFind
<1>7. CASE seg - 1 \in DOMAIN bs
  <2>1. b # {}
    BY <1>3, <1>4, <1>7
  <2>2. First(v, b) \in b
    BY <1>1, <1>5, <2>1, FirstFacts
  <2>3. First(v, b) \in DOMAIN v /\ v[First(v, b)].seg = seg - 1
    BY <1>4, <2>2
  <2> HIDE DEF b
  <2> QED BY <1>1, <1>6, <1>7, <2>3
<1>8. CASE seg - 1 \notin DOMAIN bs
  <2>1. b = {}
    BY <1>3, <1>4, <1>8
  <2>2. First(v, b) = Len(v) + 1
    BY <1>1, <1>5, <2>1, FirstFacts
  <2> HIDE DEF b
  <2>3. Len(v) + 1 > Len(v)
    BY <1>1
  <2> QED BY <1>6, <1>8, <2>2, <2>3
<1> QED BY <1>7, <1>8

(* The row a split inserts.                                                *)
LEMMA RowType ==
  ASSUME NEW s \in Nat, NEW k \in Nat
  PROVE  /\ Row(s, FreeBlock(k)) \in Rows
         /\ Row(s, FreeBlock(k)).seg = s /\ Row(s, FreeBlock(k)).paras = k
         /\ ~Row(s, FreeBlock(k)).used
         /\ Cell(Row(s, FreeBlock(k))) = FreeBlock(k)
<1>1. 0 \in Word
  BY DEF Word, MaxWord
<1> QED BY <1>1 DEF Row, FreeBlock, Rows, Cell

Cells == [paras : Nat, owner : Word, used : BOOLEAN]

(* Two cells that differ in their lengths only.                            *)
LEMMA CellsDiffer ==
  ASSUME NEW x \in Cells, NEW y \in Cells, y.owner = x.owner, y.used = x.used
  PROVE  y = [x EXCEPT !.paras = y.paras]
<1> DEFINE z == [x EXCEPT !.paras = y.paras]
<1>1. /\ z.paras = y.paras /\ z.owner = y.owner /\ z.used = y.used
      /\ DOMAIN z = {"paras", "owner", "used"} /\ z = [f \in DOMAIN z |-> z[f]]
  BY DEF Cells
<1>2. DOMAIN y = {"paras", "owner", "used"} /\ y = [f \in DOMAIN y |-> y[f]]
  BY DEF Cells
<1> HIDE DEF z
<1>3. \A f \in {"paras", "owner", "used"} : z[f] = y[f]
  BY <1>1
<1>4. z = y
  BY <1>1, <1>2, <1>3
<1> QED BY <1>4 DEF z

(* The fields of the block a row stands for.                               *)
LEMMA CellFields ==
  ASSUME NEW r \in Rows
  PROVE  /\ Cell(r) \in Cells /\ Cell(r).paras = r.paras /\ Cell(r).used = r.used
         /\ Cell(r).owner = IF r.used THEN r.owner ELSE 0
<1>1. 0 \in Word
  BY DEF Word, MaxWord
<1> QED BY <1>1 DEF Rows, Cells, Cell, FreeBlock

(* A row given another length is a block given that length.                *)
LEMMA RowResized ==
  ASSUME NEW r \in Rows, NEW k \in Nat
  PROVE  /\ [r EXCEPT !.paras = k] \in Rows
         /\ [r EXCEPT !.paras = k].seg = r.seg /\ [r EXCEPT !.paras = k].paras = k
         /\ [r EXCEPT !.paras = k].used = r.used
         /\ Cell([r EXCEPT !.paras = k]) = [Cell(r) EXCEPT !.paras = k]
<1> DEFINE q == [r EXCEPT !.paras = k]
<1>1. /\ q \in Rows /\ q.seg = r.seg /\ q.paras = k /\ q.used = r.used /\ q.owner = r.owner
  BY DEF Rows
<1> HIDE DEF q
<1>2. Cell(q) = [Cell(r) EXCEPT !.paras = k]
  BY <1>1, CellFields, CellsDiffer
<1> QED BY <1>1, <1>2 DEF q

(* mem_split on the vector.                                                *)
IsCut(v, i, k, w) ==
  /\ Len(w) = Len(v) + 1
  /\ w[i] = [v[i] EXCEPT !.paras = k]
  /\ w[i+1] = Row(v[i].seg + 1 + k, FreeBlock(v[i].paras - k - 1))
  /\ \A j \in 1 .. i - 1 : w[j] = v[j]
  /\ \A j \in i + 2 .. Len(v) + 1 : w[j] = v[j-1]

(* mem_split cuts the row in two.                                          *)
LEMMA LoopSplitCuts ==
  ASSUME NEW v, InOrder(v), NEW i \in DOMAIN v, NEW k \in Nat, k < v[i].paras
  PROVE  /\ LoopSplit(v, v[i].seg, k) \in Seq(Rows)
         /\ IsCut(v, i, k, LoopSplit(v, v[i].seg, k))
<1>1. /\ Len(v) \in Nat /\ DOMAIN v = 1 .. Len(v) /\ i \in 1 .. Len(v) /\ v \in Seq(Rows)
      /\ v[i] \in Rows /\ v[i].seg \in Nat /\ v[i].paras \in Nat
  BY Length, RowFacts DEF InOrder
<1> DEFINE u == [v EXCEPT ![i].paras = k]
           r == Row(v[i].seg + 1 + k, FreeBlock(v[i].paras - k - 1))
<1>2. ~(i > Len(v)) /\ ~(v[i].paras < k + 1)
  BY <1>1
<1>3. LoopSplit(v, v[i].seg, k) = InsertAfter(u, i, r)
  <2>1. At(v, v[i].seg) = i
    BY AtIs
  <2>2. LoopSplit(v, v[i].seg, k) =
          IF i > Len(v) \/ v[i].paras < k + 1 THEN v ELSE InsertAfter(u, i, r)
    BY <2>1, Zenon DEF LoopSplit
  <2> HIDE DEF u, r
  <2> QED BY <1>2, <2>2
<1>4. u = [v EXCEPT ![i] = [v[i] EXCEPT !.paras = k]]
  BY <1>1
<1>5. [v[i] EXCEPT !.paras = k] \in Rows
  BY <1>1, RowResized
<1>6. /\ u \in Seq(Rows) /\ Len(u) = Len(v) /\ u[i] = [v[i] EXCEPT !.paras = k]
      /\ \A j \in 1 .. Len(v) : j # i => u[j] = v[j]
  BY <1>1, <1>4, <1>5, Changed
<1>7. r \in Rows
  <2>1. v[i].seg + 1 + k \in Nat /\ v[i].paras - k - 1 \in Nat
    BY <1>1
  <2> QED BY <2>1, RowType
<1> HIDE DEF u, r
<1> DEFINE w == InsertAfter(u, i, r)
<1>8. /\ w \in Seq(Rows) /\ Len(w) = Len(u) + 1
      /\ \A j \in 1 .. i : w[j] = u[j]
      /\ w[i+1] = r
      /\ \A j \in i + 2 .. Len(u) + 1 : w[j] = u[j-1]
  <2>1. i \in 1 .. Len(u)
    BY <1>1, <1>6
  <2> QED BY <1>6, <1>7, <2>1, Inserted, ZenonT(60)
<1> HIDE DEF w
<1>9. IsCut(v, i, k, w)
  <2>1. i \in 1 .. i /\ \A j \in 1 .. i - 1 : j \in 1 .. i /\ j \in 1 .. Len(v) /\ j # i
    BY <1>1
  <2>2. \A j \in i + 2 .. Len(v) + 1 : j - 1 \in 1 .. Len(v) /\ j - 1 # i
    BY <1>1
  <2> QED BY <1>6, <1>8, <2>1, <2>2 DEF IsCut, r
<1> QED BY <1>3, <1>8, <1>9 DEF w

(* A row cut in two is a block split in two.                               *)
LEMMA CutAgrees ==
  ASSUME NEW v, InOrder(v), NEW i \in DOMAIN v, NEW k \in Nat, k < v[i].paras,
         NEW w \in Seq(Rows), IsCut(v, i, k, w), NEW bs, bs = ToArena(v)
  PROVE  InOrder(w) /\ ToArena(w) = Split(bs, v[i].seg, k)
<1> DEFINE s == v[i].seg  m == v[i].seg + 1 + k  len == Len(v)
<1>1. /\ len \in Nat /\ DOMAIN v = 1 .. len /\ i \in 1 .. len /\ v \in Seq(Rows)
      /\ v[i] \in Rows /\ v[i].seg \in Nat /\ v[i].paras \in Nat /\ len >= 1
  BY Length, RowFacts DEF InOrder
<1>2. /\ Len(w) = len + 1
      /\ w[i] = [v[i] EXCEPT !.paras = k]
      /\ w[i+1] = Row(m, FreeBlock(v[i].paras - k - 1))
      /\ \A j \in 1 .. i - 1 : w[j] = v[j]
      /\ \A j \in i + 2 .. len + 1 : w[j] = v[j-1]
  BY DEF IsCut
<1>3. w[i].seg = s /\ w[i].paras = k /\ w[i].used = v[i].used
      /\ Cell(w[i]) = [Cell(v[i]) EXCEPT !.paras = k]
  BY <1>1, <1>2, RowResized, SMTT(20)
<1>4. w[i+1].seg = m /\ w[i+1].paras = v[i].paras - k - 1
      /\ Cell(w[i+1]) = FreeBlock(v[i].paras - k - 1)
  <2>1. m \in Nat /\ v[i].paras - k - 1 \in Nat
    BY <1>1
  <2> QED BY <1>2, <2>1, RowType
<1>5. InOrder(w)
  <2>1. w[1].seg = ArenaMcb
    <3>1. v[1].seg = ArenaMcb
      BY DEF InOrder
    <3>2. i = 1 \/ 1 \in 1 .. i - 1
      BY <1>1
    <3> QED BY <1>2, <1>3, <3>1, <3>2
  <2>2. ASSUME NEW j \in 1 .. len + 1 PROVE w[j].seg + 1 + w[j].paras = Stop(w, j)
    <3>1. CASE j < i - 1
      <4>1. /\ j \in 1 .. i - 1 /\ j + 1 \in 1 .. i - 1 /\ j \in DOMAIN v /\ j < len /\ j < len + 1
        BY <1>1, <3>1
      <4>2. v[j].seg + 1 + v[j].paras = v[j+1].seg
        BY <4>1, RowFacts DEF Stop
      <4> QED BY <1>2, <4>1, <4>2 DEF Stop
    <3>2. CASE j = i - 1
      <4>1. /\ j \in 1 .. i - 1 /\ j + 1 = i /\ j \in DOMAIN v /\ j < len /\ j < len + 1
        BY <1>1, <3>2
      <4>2. v[j].seg + 1 + v[j].paras = v[i].seg
        BY <4>1, RowFacts DEF Stop
      <4> QED BY <1>2, <1>3, <4>1, <4>2 DEF Stop
    <3>3. CASE j = i
      <4>1. j < len + 1
        BY <1>1, <3>3
      <4> QED BY <1>2, <1>3, <1>4, <3>3, <4>1 DEF Stop
    <3>4. CASE j = i + 1
      <4>1. w[j].seg + 1 + w[j].paras = Stop(v, i)
        <5>1. v[i].seg + 1 + v[i].paras = Stop(v, i)
          BY RowFacts
        <5>2. m + 1 + (v[i].paras - k - 1) = v[i].seg + 1 + v[i].paras
          BY <1>1, SMTT(20)
        <5> QED BY <1>4, <3>4, <5>1, <5>2
      <4>2. i < len => j < len + 1 /\ j + 1 \in i + 2 .. len + 1 /\ (j + 1) - 1 = i + 1
        BY <1>1, <3>4
      <4>3. ~(i < len) => ~(j < len + 1)
        BY <1>1, <3>4
      <4> QED BY <1>2, <4>1, <4>2, <4>3 DEF Stop
    <3>5. CASE j > i + 1
      <4>1. j \in i + 2 .. len + 1 /\ j - 1 \in DOMAIN v /\ (j < len + 1 <=> j - 1 < len)
            /\ (j - 1) + 1 = j
        BY <1>1, <3>5
      <4>2. j < len + 1 => j + 1 \in i + 2 .. len + 1 /\ (j + 1) - 1 = j
        BY <4>1
      <4>3. v[j-1].seg + 1 + v[j-1].paras = Stop(v, j - 1)
        BY <4>1, RowFacts
      <4> QED BY <1>2, <4>1, <4>2, <4>3 DEF Stop
    <3> QED BY <1>1, <3>1, <3>2, <3>3, <3>4, <3>5
  <2> QED BY <1>1, <1>2, <2>1, <2>2 DEF InOrder
<1>6. /\ IsTiling(bs) /\ s \in DOMAIN bs /\ bs[s].paras = v[i].paras /\ bs[s] = Cell(v[i])
      /\ DOMAIN bs = {v[j].seg : j \in DOMAIN v} /\ \A j \in DOMAIN v : bs[v[j].seg] = Cell(v[j])
  BY ArenaOf
<1> DEFINE cs == Split(bs, s, k)
<1>7. IsSplit(bs, s, k, cs, m)
  BY <1>6, SplitFacts
<1> HIDE DEF cs
<1>8. /\ DOMAIN cs = DOMAIN bs \union {m}
      /\ cs[s] = [bs[s] EXCEPT !.paras = k] /\ cs[m] = FreeBlock(bs[s].paras - k - 1)
      /\ \A t \in DOMAIN bs : t # s => cs[t] = bs[t]
      /\ cs \in [DOMAIN cs -> Block]
  BY <1>7 DEF IsSplit
<1>9. \A j \in DOMAIN v : j # i => v[j].seg # s
  BY SegsDiffer
<1>10. DOMAIN w = 1 .. len + 1 /\ \A j \in 1 .. len + 1 : j \in 1 .. i - 1 \/ j = i \/ j = i + 1 \/ j \in i + 2 .. len + 1
  BY <1>1, <1>2, SMTT(20)
<1>11. \A j \in 1 .. i - 1 : j \in DOMAIN v /\ j # i /\ j \in DOMAIN w
  BY <1>1, <1>10
<1>12. \A j \in i + 2 .. len + 1 : j - 1 \in DOMAIN v /\ j - 1 # i /\ j \in DOMAIN w
  BY <1>1, <1>10
<1>13. DOMAIN cs = {w[j].seg : j \in DOMAIN w}
  <2>1. ASSUME NEW j \in DOMAIN w PROVE w[j].seg \in DOMAIN cs
    <3>1. CASE j \in 1 .. i - 1
      BY <1>2, <1>6, <1>8, <1>11, <3>1
    <3>2. CASE j = i
      BY <1>3, <1>6, <1>8, <3>2
    <3>3. CASE j = i + 1
      BY <1>4, <1>8, <3>3
    <3>4. CASE j \in i + 2 .. len + 1
      BY <1>2, <1>6, <1>8, <1>12, <3>4
    <3> QED BY <1>10, <3>1, <3>2, <3>3, <3>4
  <2>2. ASSUME NEW j \in DOMAIN v PROVE \E q \in DOMAIN w : w[q].seg = v[j].seg
    <3>1. CASE j < i
      <4>1. j \in 1 .. i - 1
        BY <1>1, <3>1
      <4> QED BY <1>2, <1>11, <4>1
    <3>2. CASE j = i
      BY <1>1, <1>3, <1>10, <3>2
    <3>3. CASE j > i
      <4>1. j + 1 \in i + 2 .. len + 1 /\ (j + 1) - 1 = j
        BY <1>1, <3>3
      <4> QED BY <1>2, <1>12, <4>1
    <3> QED BY <1>1, <3>1, <3>2, <3>3
  <2>3. i + 1 \in DOMAIN w
    BY <1>1, <1>10
  <2>4. ASSUME NEW t \in DOMAIN cs PROVE \E q \in DOMAIN w : w[q].seg = t
    <3>1. CASE t = m
      BY <1>4, <2>3, <3>1
    <3>2. CASE t \in DOMAIN bs
      <4>1. PICK j \in DOMAIN v : t = v[j].seg
        BY <1>6, <3>2
      <4> QED BY <2>2, <4>1
    <3> QED BY <1>8, <3>1, <3>2
  <2> QED BY <2>1, <2>4
<1>14. \A j \in DOMAIN w : cs[w[j].seg] = Cell(w[j])
  <2> SUFFICES ASSUME NEW j \in DOMAIN w PROVE cs[w[j].seg] = Cell(w[j])
    OBVIOUS
  <2>1. CASE j \in 1 .. i - 1
    BY <1>2, <1>6, <1>8, <1>9, <1>11, <2>1
  <2>2. CASE j = i
    BY <1>3, <1>6, <1>8, <2>2
  <2>3. CASE j = i + 1
    BY <1>4, <1>6, <1>8, <2>3
  <2>4. CASE j \in i + 2 .. len + 1
    BY <1>2, <1>6, <1>8, <1>9, <1>12, <2>4
  <2> QED BY <1>10, <2>1, <2>2, <2>3, <2>4
<1>15. ToArena(w) = cs
  <2>1. cs = [t \in DOMAIN cs |-> cs[t]]
    BY <1>8
  <2> QED BY <1>5, <1>13, <1>14, <2>1, ArenaIs
<1> QED BY <1>5, <1>15 DEF cs

(* Blocks are their fields.                                                *)
LEMMA CellsSame ==
  ASSUME NEW x \in Cells, NEW y \in Cells, y.paras = x.paras, y.owner = x.owner, y.used = x.used
  PROVE  x = y
<1>1. y = [x EXCEPT !.paras = y.paras] /\ x = [x EXCEPT !.paras = x.paras]
  BY CellsDiffer
<1> QED BY <1>1

(* The arena, row by row.                                                  *)
LEMMA ArenaCells ==
  ASSUME NEW v, InOrder(v), NEW bs, bs = ToArena(v)
  PROVE  /\ bs = [t \in DOMAIN bs |-> bs[t]] /\ \A t \in DOMAIN bs : bs[t] \in Cells
         /\ DOMAIN bs = {v[j].seg : j \in DOMAIN v}
         /\ \A j \in DOMAIN v : v[j].seg \in DOMAIN bs /\ bs[v[j].seg] = Cell(v[j])
<1>1. /\ DOMAIN bs = {v[j].seg : j \in DOMAIN v}
      /\ \A j \in DOMAIN v : v[j].seg \in DOMAIN bs /\ bs[v[j].seg] = Cell(v[j])
  BY ArenaOf
<1>2. bs = [t \in DOMAIN bs |-> bs[t]]
  BY DEF ToArena
<1>3. \A j \in DOMAIN v : Cell(v[j]) \in Cells
  BY RowFacts, CellFields
<1> QED BY <1>1, <1>2, <1>3

(* The same blocks, said of differently.                                   *)
LEMMA Relabelled ==
  ASSUME NEW v, InOrder(v), NEW w \in Seq(Rows), Len(w) = Len(v),
         \A j \in 1 .. Len(v) : w[j].seg = v[j].seg /\ w[j].paras = v[j].paras
  PROVE  InOrder(w) /\ DOMAIN w = DOMAIN v /\ {w[j].seg : j \in DOMAIN w} = {v[j].seg : j \in DOMAIN v}
<1>1. Len(v) \in Nat /\ Len(v) >= 1 /\ DOMAIN v = 1 .. Len(v) /\ DOMAIN w = DOMAIN v
  BY Length
<1>2. w[1].seg = ArenaMcb
  BY <1>1 DEF InOrder
<1>3. ASSUME NEW j \in 1 .. Len(v) PROVE w[j].seg + 1 + w[j].paras = Stop(w, j)
  <2>1. v[j].seg + 1 + v[j].paras = Stop(v, j)
    BY DEF InOrder
  <2>2. j < Len(v) => j + 1 \in 1 .. Len(v)
    BY <1>1
  <2> QED BY <2>1, <2>2 DEF Stop
<1> QED BY <1>1, <1>2, <1>3 DEF InOrder

(* A cell once it is owned.                                                *)
LEMMA CellClaimed ==
  ASSUME NEW x \in Cells, NEW owner \in Word
  PROVE  LET c == [[x EXCEPT !.used = TRUE] EXCEPT !.owner = owner]
         IN  c \in Cells /\ c.paras = x.paras /\ c.used = TRUE /\ c.owner = owner
BY DEF Cells

(* A vector whose row i is given an owner is the arena claimed there.      *)
LEMMA ClaimAgrees ==
  ASSUME NEW v, InOrder(v), NEW i \in DOMAIN v, NEW owner \in Word, NEW bs, bs = ToArena(v)
  PROVE  LET w == [v EXCEPT ![i].used = TRUE, ![i].owner = owner]
         IN  InOrder(w) /\ ToArena(w) = Claim(bs, v[i].seg, owner)
<1> DEFINE w == [v EXCEPT ![i].used = TRUE, ![i].owner = owner]
           r == [[v[i] EXCEPT !.used = TRUE] EXCEPT !.owner = owner]
           s == v[i].seg
<1>1. /\ Len(v) \in Nat /\ DOMAIN v = 1 .. Len(v) /\ i \in 1 .. Len(v) /\ v \in Seq(Rows) /\ v[i] \in Rows
  BY Length, RowFacts DEF InOrder
<1>2. r \in Rows /\ r.seg = s /\ r.paras = v[i].paras /\ r.used = TRUE /\ r.owner = owner
  BY <1>1 DEF Rows
<1>3. w = [v EXCEPT ![i] = r]
  BY <1>1
<1> HIDE DEF w, r
<1>4. /\ w \in Seq(Rows) /\ Len(w) = Len(v) /\ w[i] = r
      /\ \A j \in 1 .. Len(v) : j # i => w[j] = v[j]
  BY <1>1, <1>2, <1>3, Changed
<1>5. \A j \in 1 .. Len(v) : w[j].seg = v[j].seg /\ w[j].paras = v[j].paras
  BY <1>2, <1>4
<1>6. InOrder(w) /\ DOMAIN w = DOMAIN v /\ {w[j].seg : j \in DOMAIN w} = {v[j].seg : j \in DOMAIN v}
  BY <1>4, <1>5, Relabelled
<1>7. /\ bs = [t \in DOMAIN bs |-> bs[t]] /\ \A t \in DOMAIN bs : bs[t] \in Cells
      /\ DOMAIN bs = {v[j].seg : j \in DOMAIN v}
      /\ \A j \in DOMAIN v : v[j].seg \in DOMAIN bs /\ bs[v[j].seg] = Cell(v[j])
  BY ArenaCells
<1> DEFINE cs == Claim(bs, s, owner)
           c  == [[bs[s] EXCEPT !.used = TRUE] EXCEPT !.owner = owner]
<1>8. DOMAIN cs = DOMAIN bs /\ cs[s] = c /\ (\A t \in DOMAIN bs : t # s => cs[t] = bs[t])
      /\ cs = [t \in DOMAIN cs |-> cs[t]]
  BY <1>7 DEF Claim
<1>9. c \in Cells /\ c.paras = bs[s].paras /\ c.used = TRUE /\ c.owner = owner
  <2>1. bs[s] \in Cells
    BY <1>1, <1>7
  <2> QED BY <2>1, CellClaimed
<1> HIDE DEF cs, c
<1>10. c = Cell(r)
  <2>1. bs[s].paras = v[i].paras
    BY <1>1, <1>7, CellFields
  <2>2. Cell(r) \in Cells /\ Cell(r).paras = r.paras /\ Cell(r).used = r.used /\ Cell(r).owner = owner
    BY <1>2, CellFields
  <2> QED BY <1>2, <1>9, <2>1, <2>2, CellsSame
<1>11. \A j \in DOMAIN w : cs[w[j].seg] = Cell(w[j])
  <2>1. \A j \in DOMAIN v : j # i => v[j].seg # s
    BY SegsDiffer
  <2> SUFFICES ASSUME NEW j \in DOMAIN v PROVE cs[w[j].seg] = Cell(w[j])
    BY <1>6
  <2>2. CASE j = i
    BY <1>2, <1>4, <1>8, <1>10, <2>2
  <2>3. CASE j # i
    <3>1. w[j] = v[j]
      BY <1>1, <1>4, <2>3
    <3> QED BY <1>7, <1>8, <2>1, <2>3, <3>1
  <2> QED BY <2>2, <2>3
<1>12. ToArena(w) = cs
  <2>1. DOMAIN cs = {w[j].seg : j \in DOMAIN w}
    BY <1>6, <1>7, <1>8
  <2> QED BY <1>6, <1>8, <1>11, <2>1, ArenaIs
<1> QED BY <1>6, <1>12 DEF w, cs

(* A row marked free is a block freed.                                     *)
LEMMA FreedAgrees ==
  ASSUME NEW v, InOrder(v), NEW i \in DOMAIN v, NEW bs, bs = ToArena(v)
  PROVE  LET w == [v EXCEPT ![i].used = FALSE]
         IN  InOrder(w) /\ ToArena(w) = [bs EXCEPT ![v[i].seg] = FreeBlock(bs[v[i].seg].paras)]
<1> DEFINE w == [v EXCEPT ![i].used = FALSE]
           r == [v[i] EXCEPT !.used = FALSE]
           s == v[i].seg
<1>1. /\ Len(v) \in Nat /\ DOMAIN v = 1 .. Len(v) /\ i \in 1 .. Len(v) /\ v \in Seq(Rows) /\ v[i] \in Rows
  BY Length, RowFacts DEF InOrder
<1>2. r \in Rows /\ r.seg = s /\ r.paras = v[i].paras /\ r.used = FALSE
  BY <1>1 DEF Rows
<1>3. w = [v EXCEPT ![i] = r]
  BY <1>1
<1> HIDE DEF w, r
<1>4. /\ w \in Seq(Rows) /\ Len(w) = Len(v) /\ w[i] = r
      /\ \A j \in 1 .. Len(v) : j # i => w[j] = v[j]
  BY <1>1, <1>2, <1>3, Changed
<1>5. \A j \in 1 .. Len(v) : w[j].seg = v[j].seg /\ w[j].paras = v[j].paras
  BY <1>2, <1>4
<1>6. InOrder(w) /\ DOMAIN w = DOMAIN v /\ {w[j].seg : j \in DOMAIN w} = {v[j].seg : j \in DOMAIN v}
  BY <1>4, <1>5, Relabelled
<1>7. /\ bs = [t \in DOMAIN bs |-> bs[t]]
      /\ DOMAIN bs = {v[j].seg : j \in DOMAIN v}
      /\ \A j \in DOMAIN v : v[j].seg \in DOMAIN bs /\ bs[v[j].seg] = Cell(v[j])
  BY ArenaCells
<1> DEFINE cs == [bs EXCEPT ![s] = FreeBlock(bs[s].paras)]
<1>8. DOMAIN cs = DOMAIN bs /\ cs[s] = FreeBlock(bs[s].paras)
      /\ (\A t \in DOMAIN bs : t # s => cs[t] = bs[t]) /\ cs = [t \in DOMAIN cs |-> cs[t]]
  BY <1>7
<1> HIDE DEF cs
<1>9. FreeBlock(bs[s].paras) = Cell(r)
  <2>1. bs[s].paras = v[i].paras
    BY <1>1, <1>7, CellFields
  <2> QED BY <1>2, <2>1 DEF Cell
<1>10. \A j \in DOMAIN w : cs[w[j].seg] = Cell(w[j])
  <2>1. \A j \in DOMAIN v : j # i => v[j].seg # s
    BY SegsDiffer
  <2> SUFFICES ASSUME NEW j \in DOMAIN v PROVE cs[w[j].seg] = Cell(w[j])
    BY <1>6
  <2>2. CASE j = i
    BY <1>2, <1>4, <1>8, <1>9, <2>2
  <2>3. CASE j # i
    <3>1. w[j] = v[j]
      BY <1>1, <1>4, <2>3
    <3> QED BY <1>7, <1>8, <2>1, <2>3, <3>1
  <2> QED BY <2>2, <2>3
<1>11. ToArena(w) = cs
  <2>1. DOMAIN cs = {w[j].seg : j \in DOMAIN w}
    BY <1>6, <1>7, <1>8
  <2> QED BY <1>6, <1>8, <1>10, <2>1, ArenaIs
<1> QED BY <1>6, <1>11 DEF w, cs

(* What is given back past k paragraphs is what Trim gives back.           *)
LEMMA TrimAgrees ==
  ASSUME NEW v, InOrder(v), NEW i \in DOMAIN v, NEW k \in Nat, NEW bs, bs = ToArena(v)
  PROVE  LET w == SplitAfter(v, i, k)
         IN  /\ InOrder(w) /\ ToArena(w) = Trim(bs, v[i].seg, k)
             /\ i \in DOMAIN w /\ w[i].seg = v[i].seg
<1> DEFINE w == SplitAfter(v, i, k)
<1>1. bs[v[i].seg].paras = v[i].paras /\ v[i].paras \in Nat /\ v[i] \in Rows /\ i \in 1 .. Len(v)
  BY ArenaOf, RowFacts
<1>2. CASE v[i].paras > k
  <2>1. k < v[i].paras /\ w = LoopSplit(v, v[i].seg, k) /\ Trim(bs, v[i].seg, k) = Split(bs, v[i].seg, k)
    BY <1>1, <1>2 DEF SplitAfter, Trim
  <2>2. w \in Seq(Rows) /\ IsCut(v, i, k, w)
    BY <2>1, LoopSplitCuts
  <2> HIDE DEF w
  <2>3. InOrder(w) /\ ToArena(w) = Split(bs, v[i].seg, k)
    BY <2>1, <2>2, CutAgrees
  <2>4. i \in DOMAIN w /\ w[i].seg = v[i].seg
    <3>1. Len(w) = Len(v) + 1 /\ w[i] = [v[i] EXCEPT !.paras = k]
      BY <2>2 DEF IsCut
    <3>2. w[i].seg = v[i].seg
      BY <1>1, <3>1, RowResized
    <3>3. DOMAIN w = 1 .. Len(w) /\ Len(v) \in Nat
      BY <2>3, Length
    <3> QED BY <1>1, <3>1, <3>2, <3>3
  <2> QED BY <2>1, <2>3, <2>4 DEF w
<1>3. CASE ~(v[i].paras > k)
  <2>1. w = v /\ Trim(bs, v[i].seg, k) = bs
    BY <1>1, <1>3 DEF SplitAfter, Trim
  <2> QED BY <2>1
<1> QED BY <1>2, <1>3

(* A block takes over those that follow it, up to index k.                 *)
IsSwallowed(v, i, k, q, w) ==
  /\ InOrder(w) /\ Len(w) = Len(v) - (k - i - 1) /\ i \in DOMAIN w
  /\ w[i] = [v[i] EXCEPT !.paras = q] /\ \A j \in 1 .. i - 1 : w[j] = v[j]
  /\ \A j \in i + 1 .. Len(w) : j + (k - i - 1) \in DOMAIN v /\ w[j] = v[j + (k - i - 1)]
  /\ ToArena(w) = [t \in DOMAIN ToArena(v) \ {v[j].seg : j \in i + 1 .. k - 1} |->
                     IF t = v[i].seg THEN [ToArena(v)[t] EXCEPT !.paras = q] ELSE ToArena(v)[t]]

(* A row that swallows the rows up to k keeps the vector in order.         *)
LEMMA SwallowAgrees ==
  ASSUME NEW v, InOrder(v), NEW i \in DOMAIN v, NEW k \in i + 1 .. Len(v) + 1, NEW q,
         q = (IF k <= Len(v) THEN v[k].seg ELSE HeapEnd) - v[i].seg - 1
  PROVE  IsSwallowed(v, i, k, q, Erase([v EXCEPT ![i].paras = q], i + 1, k))
<1> DEFINE u == [v EXCEPT ![i].paras = q]
           w == Erase(u, i + 1, k)
           len == Len(v)  gap == k - i - 1  s == v[i].seg  bs == ToArena(v)
           r == [v[i] EXCEPT !.paras = q]
<1>1. /\ len \in Nat /\ DOMAIN v = 1 .. len /\ i \in 1 .. len /\ v \in Seq(Rows) /\ v[i] \in Rows
      /\ v[i].seg \in Nat /\ len >= 1 /\ i \in Nat
  BY Length, RowFacts DEF InOrder
<1>2. k \in Nat /\ i < k /\ k <= len + 1 /\ gap \in Nat /\ gap <= len - i
  BY <1>1
<1>3. q \in Nat /\ s + 1 + q = (IF k <= len THEN v[k].seg ELSE HeapEnd)
  <2>1. CASE k <= len
    <3>1. k \in DOMAIN v
      BY <1>1, <1>2, <2>1
    <3>2. v[k].seg \in Nat /\ s < v[k].seg
      BY <1>2, <3>1, SegsDiffer, RowFacts
    <3>3. q = v[k].seg - s - 1
      BY <2>1
    <3>4. s \in Nat /\ v[k].seg \in Nat /\ s < v[k].seg
      BY <1>1, <3>2
    <3> HIDE DEF s, len
    <3>5. q \in Nat /\ s + 1 + q = v[k].seg
      <4>1. PICK x \in Nat : x = s
        BY <3>4
      <4>2. PICK y \in Nat : y = v[k].seg
        BY <3>4
      <4>3. x < y /\ q = y - x - 1
        BY <3>3, <3>4, <4>1, <4>2
      <4>4. q \in Nat /\ x + 1 + q = y
        BY <4>3, Between
      <4> QED BY <4>1, <4>2, <4>4
    <3> QED BY <2>1, <3>5
  <2>2. CASE ~(k <= len)
    <3>1. q = HeapEnd - s - 1 /\ s < HeapEnd
      BY <2>2, InArena
    <3> QED BY <1>1, <2>2, <3>1, ArenaAssumption
  <2> QED BY <2>1, <2>2
<1>4. r \in Rows /\ r.seg = s /\ r.paras = q /\ r.used = v[i].used
      /\ Cell(r) = [Cell(v[i]) EXCEPT !.paras = q]
  BY <1>1, <1>3, RowResized
<1>5. u = [v EXCEPT ![i] = r]
  BY <1>1
<1> HIDE DEF u, r
<1>6. /\ u \in Seq(Rows) /\ Len(u) = len /\ u[i] = r
      /\ \A j \in 1 .. len : j # i => u[j] = v[j]
  BY <1>1, <1>4, <1>5, Changed
<1>7. /\ w \in Seq(Rows) /\ Len(w) = len - gap
      /\ \A j \in 1 .. i : w[j] = u[j]
      /\ \A j \in i + 1 .. len - gap : w[j] = u[j + gap]
  <2>1. i + 1 \in 1 .. len + 1 /\ k \in i + 1 .. len + 1 /\ k - (i + 1) = gap /\ (i + 1) - 1 = i
    BY <1>1, <1>2
  <2>2. /\ w \in Seq(Rows) /\ Len(w) = Len(u) - (k - (i + 1))
        /\ \A j \in 1 .. (i + 1) - 1 : w[j] = u[j]
        /\ \A j \in i + 1 .. Len(u) - (k - (i + 1)) : w[j] = u[j + (k - (i + 1))]
    <3>1. i + 1 \in 1 .. Len(u) + 1 /\ k \in i + 1 .. Len(u) + 1
      BY <1>6, <2>1
    <3> QED BY <1>6, <3>1, Erased, Zenon
  <2> QED BY <1>6, <2>1, <2>2
<1> HIDE DEF w
<1>8. w[i] = r /\ \A j \in 1 .. i - 1 : w[j] = v[j] /\ j \in DOMAIN v
  <2>1. i \in 1 .. i /\ \A j \in 1 .. i - 1 : j \in 1 .. i /\ j # i /\ j \in 1 .. len
    BY <1>1
  <2> QED BY <1>1, <1>6, <1>7, <2>1
<1>9. \A j \in i + 1 .. len - gap : j + gap \in DOMAIN v /\ w[j] = v[j + gap] /\ j + gap # i
  <2>1. \A j \in i + 1 .. len - gap : j + gap \in 1 .. len /\ j + gap # i
    BY <1>1, <1>2, SMTT(20)
  <2> QED BY <1>1, <1>6, <1>7, <2>1
<1>10. /\ DOMAIN w = 1 .. len - gap /\ i \in DOMAIN w /\ len - gap \in Nat /\ len - gap >= 1
       /\ \A j \in 1 .. len - gap : j \in 1 .. i - 1 \/ j = i \/ j \in i + 1 .. len - gap
  BY <1>1, <1>2, <1>7, SMTT(20)
<1>11. InOrder(w)
  <2>1. w[1].seg = ArenaMcb
    <3>1. v[1].seg = ArenaMcb
      BY DEF InOrder
    <3>2. i = 1 \/ 1 \in 1 .. i - 1
      BY <1>1
    <3> QED BY <1>4, <1>8, <3>1, <3>2
  <2>2. ASSUME NEW j \in 1 .. len - gap PROVE w[j].seg + 1 + w[j].paras = Stop(w, j)
    <3>1. CASE j \in 1 .. i - 1
      <4>1. j < len /\ j < len - gap /\ j \in DOMAIN v /\ (j + 1 = i \/ j + 1 \in 1 .. i - 1)
        BY <1>1, <1>2, <3>1, SMTT(20)
      <4>2. v[j].seg + 1 + v[j].paras = v[j+1].seg
        BY <4>1, RowFacts DEF Stop
      <4> QED BY <1>4, <1>7, <1>8, <3>1, <4>1, <4>2 DEF Stop
    <3>2. CASE j = i
      <4>1. i < len - gap <=> k <= len
        BY <1>1, <1>2
      <4>2. i < len - gap => i + 1 \in i + 1 .. len - gap /\ (i + 1) + gap = k
        BY <1>1, <1>2, SMTT(20)
      <4> QED BY <1>3, <1>4, <1>7, <1>8, <1>9, <3>2, <4>1, <4>2 DEF Stop
    <3>3. CASE j \in i + 1 .. len - gap
      <4>1. j < len - gap => j + 1 \in i + 1 .. len - gap
        BY <3>3, <1>1, <1>2
      <4>2. (j < len - gap <=> j + gap < len) /\ (j + 1) + gap = (j + gap) + 1
        BY <1>1, <1>2, <3>3, SMTT(20)
      <4>3. v[j + gap].seg + 1 + v[j + gap].paras = Stop(v, j + gap)
        BY <1>9, <3>3, RowFacts
      <4> QED BY <1>7, <1>9, <3>3, <4>1, <4>2, <4>3 DEF Stop
    <3> QED BY <1>10, <3>1, <3>2, <3>3
  <2> QED BY <1>7, <1>10, <2>1, <2>2 DEF InOrder
<1> DEFINE gone == {v[j].seg : j \in i + 1 .. k - 1}
           cs == [t \in DOMAIN bs \ gone |-> IF t = s THEN [bs[t] EXCEPT !.paras = q] ELSE bs[t]]
<1>12. /\ DOMAIN bs = {v[j].seg : j \in DOMAIN v}
       /\ \A j \in DOMAIN v : v[j].seg \in DOMAIN bs /\ bs[v[j].seg] = Cell(v[j])
  BY ArenaCells
<1>13. \A j \in DOMAIN v : v[j].seg \in gone <=> j \in i + 1 .. k - 1
  <2>1. \A j \in i + 1 .. k - 1 : j \in DOMAIN v
    BY <1>1, <1>2
  <2> QED BY <2>1, SegsDiffer
<1>14. \A j \in DOMAIN v : v[j].seg = s => j = i
  BY SegsDiffer
<1>15. DOMAIN cs = DOMAIN bs \ gone /\ cs = [t \in DOMAIN cs |-> cs[t]]
       /\ \A t \in DOMAIN bs \ gone : cs[t] = IF t = s THEN [bs[t] EXCEPT !.paras = q] ELSE bs[t]
  OBVIOUS
<1> HIDE DEF cs, gone
<1>16. ASSUME NEW j \in DOMAIN w PROVE w[j].seg \in DOMAIN cs /\ cs[w[j].seg] = Cell(w[j])
  <2>1. CASE j \in 1 .. i - 1
    <3>1. ~(j \in i + 1 .. k - 1) /\ j # i /\ j \in DOMAIN v /\ w[j] = v[j]
      BY <1>1, <1>2, <1>8, <2>1
    <3> QED BY <1>12, <1>13, <1>14, <1>15, <3>1
  <2>2. CASE j = i
    <3>1. ~(i \in i + 1 .. k - 1) /\ w[j].seg = s
      BY <1>1, <1>2, <1>4, <1>8, <2>2
    <3>2. s \in DOMAIN bs \ gone
      BY <1>1, <1>12, <1>13, <3>1
    <3>3. cs[s] = [bs[s] EXCEPT !.paras = q] /\ bs[s] = Cell(v[i])
      BY <1>12, <1>15, <3>2
    <3> QED BY <1>4, <1>8, <1>15, <2>2, <3>1, <3>2, <3>3
  <2>3. CASE j \in i + 1 .. len - gap
    <3>1. ~(j + gap \in i + 1 .. k - 1)
      BY <1>1, <1>2, <2>3, SMTT(20)
    <3>2. j + gap \in DOMAIN v /\ w[j] = v[j + gap] /\ j + gap # i
      BY <1>9, <2>3
    <3>3. PICK f \in DOMAIN v : w[j] = v[f] /\ ~(f \in i + 1 .. k - 1) /\ f # i
      BY <3>1, <3>2
    <3> QED BY <1>12, <1>13, <1>14, <1>15, <3>3
  <2> QED BY <1>10, <2>1, <2>2, <2>3
<1>17. ASSUME NEW t \in DOMAIN cs PROVE \E j \in DOMAIN w : w[j].seg = t
  <2>1. PICK j \in DOMAIN v : t = v[j].seg
    BY <1>12, <1>15
  <2>2. ~(j \in i + 1 .. k - 1)
    BY <1>13, <1>15, <2>1
  <2>3. CASE j < i
    <3>1. j \in 1 .. i - 1 /\ j \in 1 .. len - gap
      BY <1>1, <1>2, <2>3
    <3> QED BY <1>8, <1>10, <2>1, <3>1
  <2>4. CASE j = i
    BY <1>4, <1>8, <1>10, <2>1, <2>4
  <2>5. CASE j >= k
    <3>1. PICK f \in i + 1 .. len - gap : f + gap = j
      <4>1. j - gap \in i + 1 .. len - gap /\ (j - gap) + gap = j
        <5>1. j \in 1 .. len
          BY <1>1
        <5>2. len \in Nat /\ i \in Nat /\ k \in Nat
          BY <1>1, <1>2
        <5> HIDE DEF len
        <5> QED BY <2>5, <5>1, <5>2
      <4> QED BY <4>1
    <3>2. f \in DOMAIN w
      BY <1>1, <1>10
    <3> QED BY <1>9, <2>1, <3>1, <3>2
  <2> QED BY <1>1, <1>2, <2>2, <2>3, <2>4, <2>5
<1>18. DOMAIN cs = {w[j].seg : j \in DOMAIN w}
  BY <1>16, <1>17
<1>19. ToArena(w) = cs
  BY <1>11, <1>15, <1>16, <1>18, ArenaIs
<1>20. /\ InOrder(w) /\ Len(w) = len - gap /\ i \in DOMAIN w /\ w[i] = r
       /\ (\A j \in 1 .. i - 1 : w[j] = v[j])
       /\ (\A j \in i + 1 .. Len(w) : j + gap \in DOMAIN v /\ w[j] = v[j + gap])
       /\ ToArena(w) = cs
  BY <1>7, <1>8, <1>9, <1>10, <1>11, <1>19
<1> QED BY <1>20, Zenon DEF IsSwallowed, w, u, r, cs, gone, bs

(* Where the run behind block x ends does not depend on whether two free   *)
(* blocks of it are one.                                                   *)
IsMerge(bs, s, t, cs) ==
  /\ DOMAIN cs = DOMAIN bs \ {t}
  /\ cs[s] = [bs[s] EXCEPT !.paras = End(bs, t) - s - 1]
  /\ \A x \in DOMAIN bs \ {s, t} : cs[x] = bs[x]

(* Two free neighbours made one end no run of free blocks elsewhere.       *)
LEMMA MergeRunEnd ==
  ASSUME NEW bs, IsTiling(bs), NEW s \in DOMAIN bs, NEW t \in DOMAIN bs, t = End(bs, s),
         ~bs[s].used, ~bs[t].used, NEW cs, IsTiling(cs), IsMerge(bs, s, t, cs), NEW x \in DOMAIN cs
  PROVE  RunEnd(cs, x) = RunEnd(bs, x)
<1> DEFINE E(as) == {e \in {End(as, u) : u \in {y \in DOMAIN as : y >= x}} : ~IsFree(as, e)}
<1>1. /\ s \in Nat /\ t \in Nat /\ s < t /\ End(bs, t) \in Nat /\ t < End(bs, t) /\ bs[s] \in Block
      /\ x \in DOMAIN bs /\ x # t /\ x \in Nat /\ s \in DOMAIN cs
  BY BlockFacts DEF IsMerge
<1>2. /\ DOMAIN cs = DOMAIN bs \ {t} /\ cs[s].used = bs[s].used /\ cs[s].paras = End(bs, t) - s - 1
      /\ \A y \in DOMAIN bs \ {s, t} : cs[y] = bs[y]
  BY <1>1 DEF IsMerge, Block
<1>3. End(cs, s) = End(bs, t) /\ \A y \in DOMAIN cs : y # s => End(cs, y) = End(bs, y)
  BY <1>1, <1>2 DEF End
<1>4. \A e : e # t => (IsFree(cs, e) <=> IsFree(bs, e))
  BY <1>2 DEF IsFree
<1>5. IsFree(bs, t)
  BY DEF IsFree
<1>6. \A y \in DOMAIN cs : End(cs, y) # t
  <2> SUFFICES ASSUME NEW y \in DOMAIN cs, End(cs, y) = t PROVE FALSE
    OBVIOUS
  <2>1. y # s
    BY <1>1, <1>3
  <2>2. End(bs, y) = End(bs, s) /\ y \in DOMAIN bs
    BY <1>2, <1>3, <2>1
  <2> QED BY <2>1, <2>2, EndUnique
<1>7. \A y \in DOMAIN bs : y = s \/ y = t \/ y \in DOMAIN cs
  BY <1>2
<1>8. x <= t <=> x <= s
  <2>1. x > s => x >= t
    BY <1>1 DEF IsTiling, Disjoint
  <2> QED BY <1>1, <2>1
<1>9. ASSUME NEW e \in E(cs) PROVE e \in E(bs)
  <2>1. PICK u \in DOMAIN cs : u >= x /\ e = End(cs, u) /\ ~IsFree(cs, e)
    BY <1>9
  <2>2. u \in DOMAIN bs /\ u # t /\ e # t /\ u \in Nat
    BY <1>2, <1>6, <2>1, BlockFacts
  <2>3. ~IsFree(bs, e)
    BY <1>4, <2>1, <2>2
  <2>4. CASE u = s
    <3>1. e = End(bs, t) /\ t >= x
      BY <1>1, <1>3, <2>1, <2>4
    <3> QED BY <2>3, <3>1
  <2>5. CASE u # s
    <3>1. e = End(bs, u)
      BY <1>3, <2>1, <2>5
    <3> QED BY <2>1, <2>2, <2>3, <3>1
  <2> QED BY <2>4, <2>5
<1>10. ASSUME NEW e \in E(bs) PROVE e \in E(cs)
  <2>1. PICK u \in DOMAIN bs : u >= x /\ e = End(bs, u) /\ ~IsFree(bs, e)
    BY <1>10
  <2>2. e # t /\ u # s
    BY <1>5, <2>1
  <2>3. ~IsFree(cs, e)
    BY <1>4, <2>1, <2>2
  <2>4. CASE u = t
    <3>1. e = End(cs, s) /\ s >= x
      BY <1>1, <1>3, <1>8, <2>1, <2>4
    <3> QED BY <1>1, <2>3, <3>1
  <2>5. CASE u # t
    <3>1. u \in DOMAIN cs /\ e = End(cs, u)
      BY <1>3, <1>7, <2>1, <2>2, <2>5
    <3> QED BY <2>1, <2>3, <3>1
  <2> QED BY <2>4, <2>5
<1>11. E(cs) = E(bs)
  BY <1>9, <1>10
<1> QED BY <1>11, Zenon DEF RunEnd

(* ... and leave the coalesced arena what it was: each turn of             *)
(* mem_coalesce keeps the answer.                                          *)
LEMMA MergeCoalesces ==
  ASSUME NEW bs, IsTiling(bs), NEW s \in DOMAIN bs, NEW t \in DOMAIN bs, t = End(bs, s),
         ~bs[s].used, ~bs[t].used, NEW cs, IsTiling(cs), IsMerge(bs, s, t, cs)
  PROVE  Coalesce(cs) = Coalesce(bs)
<1>1. /\ s \in Nat /\ t \in Nat /\ s < t /\ End(bs, t) \in Nat /\ t < End(bs, t) /\ bs[s] \in Block
  BY BlockFacts
<1>2. /\ DOMAIN cs = DOMAIN bs \ {t} /\ cs[s].used = bs[s].used /\ cs[s].paras = End(bs, t) - s - 1
      /\ \A y \in DOMAIN bs \ {s, t} : cs[y] = bs[y]
  BY <1>1 DEF IsMerge, Block
<1>3. End(cs, s) = End(bs, t) /\ \A y \in DOMAIN cs : y # s => End(cs, y) = End(bs, y)
  BY <1>1, <1>2 DEF End
<1>4. \A e : e # t => (IsFree(cs, e) <=> IsFree(bs, e))
  BY <1>2 DEF IsFree
<1>5. IsFree(bs, s) /\ IsFree(bs, t) /\ s \in DOMAIN cs /\ IsFree(cs, s)
  BY <1>1, <1>2 DEF IsFree
<1>6. t \in Absorbed(bs)
  BY <1>5 DEF Absorbed
<1>7. \A y \in DOMAIN cs : y \in Absorbed(cs) <=> y \in Absorbed(bs)
  <2> SUFFICES ASSUME NEW y \in DOMAIN cs PROVE y \in Absorbed(cs) <=> y \in Absorbed(bs)
    OBVIOUS
  <2>1. y \in DOMAIN bs /\ y # t /\ (IsFree(cs, y) <=> IsFree(bs, y))
    BY <1>2, <1>4
  <2>2. ASSUME NEW f \in DOMAIN cs, IsFree(cs, f), End(cs, f) = y
        PROVE  \E g \in DOMAIN bs : IsFree(bs, g) /\ End(bs, g) = y
    <3>1. f = s => End(bs, t) = y
      BY <1>3, <2>2
    <3>2. f # s => f \in DOMAIN bs /\ IsFree(bs, f) /\ End(bs, f) = y
      BY <1>2, <1>3, <1>4, <2>2
    <3> QED BY <1>5, <3>1, <3>2
  <2>3. ASSUME NEW g \in DOMAIN bs, IsFree(bs, g), End(bs, g) = y
        PROVE  \E f \in DOMAIN cs : IsFree(cs, f) /\ End(cs, f) = y
    <3>1. g # s
      BY <2>1, <2>3
    <3>2. g = t => End(cs, s) = y
      BY <1>3, <2>3
    <3>3. g # t => g \in DOMAIN cs /\ IsFree(cs, g) /\ End(cs, g) = y
      BY <1>2, <1>3, <1>4, <2>3, <3>1
    <3> QED BY <1>5, <3>2, <3>3
  <2> QED BY <2>1, <2>2, <2>3 DEF Absorbed
<1>8. DOMAIN cs \ Absorbed(cs) = DOMAIN bs \ Absorbed(bs)
  BY <1>2, <1>6, <1>7
<1>9. \A x \in DOMAIN cs : RunEnd(cs, x) = RunEnd(bs, x)
  BY MergeRunEnd
<1> DEFINE val(as, x) == IF as[x].used THEN as[x] ELSE [as[x] EXCEPT !.paras = RunEnd(as, x) - x - 1]
<1>10. ASSUME NEW x \in DOMAIN cs PROVE val(cs, x) = val(bs, x)
  <2>1. CASE x = s
    <3>1. cs[s] = [bs[s] EXCEPT !.paras = End(bs, t) - s - 1]
      BY DEF IsMerge
    <3>2. [cs[s] EXCEPT !.paras = RunEnd(bs, s) - s - 1] = [bs[s] EXCEPT !.paras = RunEnd(bs, s) - s - 1]
      BY <1>1, <3>1 DEF Block
    <3> QED BY <1>2, <1>9, <2>1, <3>2
  <2>2. CASE x # s
    <3>1. cs[x] = bs[x]
      BY <1>2, <2>2
    <3> QED BY <1>9, <3>1
  <2> QED BY <2>1, <2>2
<1> HIDE DEF val
<1>11. \A x \in DOMAIN cs \ Absorbed(cs) : val(cs, x) = val(bs, x)
  BY <1>10
<1>12. [x \in DOMAIN cs \ Absorbed(cs) |-> val(cs, x)] = [x \in DOMAIN bs \ Absorbed(bs) |-> val(bs, x)]
  BY <1>8, <1>11
<1> QED BY <1>12, Zenon DEF Coalesce, val

(* An arena with no free neighbours has nothing to merge.                  *)
LEMMA NothingToMerge ==
  ASSUME NEW bs, IsTiling(bs), Merged(bs), bs = [t \in DOMAIN bs |-> bs[t]]
  PROVE  Coalesce(bs) = bs
<1>1. Absorbed(bs) = {}
  BY DEF Absorbed, Merged, IsFree
<1>2. ASSUME NEW x \in DOMAIN bs, ~bs[x].used
      PROVE  [bs[x] EXCEPT !.paras = RunEnd(bs, x) - x - 1] = bs[x]
  <2>1. ~IsFree(bs, End(bs, x))
    BY <1>2 DEF Merged
  <2>2. RunEnd(bs, x) = End(bs, x) /\ bs[x] \in Block /\ x \in Nat /\ bs[x].paras \in Nat
    BY <2>1, TightBlock, BlockFacts
  <2>3. RunEnd(bs, x) - x - 1 = bs[x].paras
    BY <2>2 DEF End
  <2>4. [bs[x] EXCEPT !.paras = bs[x].paras] = bs[x]
    BY <2>2 DEF Block
  <2> QED BY <2>3, <2>4
<1> DEFINE val(x) == IF bs[x].used THEN bs[x] ELSE [bs[x] EXCEPT !.paras = RunEnd(bs, x) - x - 1]
<1>3. \A x \in DOMAIN bs : val(x) = bs[x]
  BY <1>2
<1>4. Coalesce(bs) = [x \in DOMAIN bs |-> val(x)]
  BY <1>1 DEF Coalesce
<1> HIDE DEF val
<1> QED BY <1>3, <1>4

-----------------------------------------------------------------------------
(* One turn of mem_coalesce.                                               *)
Sound(v, c) ==
  /\ InOrder(c.list) /\ c.i \in 2 .. Len(c.list) + 1
  /\ Coalesce(ToArena(c.list)) = Coalesce(ToArena(v))
  /\ \A j \in 2 .. c.i - 1 : c.list[j].used \/ c.list[j-1].used

Turns(v) == {c \in [list : Seq(Rows), i : Nat] : Sound(v, c)}

(* The paragraphs of two neighbours and of the MCB between them.           *)
LEMMA Telescopes ==
  ASSUME NEW x \in Nat, NEW a \in Nat, NEW y \in Nat, NEW b \in Nat, x + 1 + a = y
  PROVE  a + 1 + b = (y + 1 + b) - x - 1
OBVIOUS

(* The turn of mem_coalesce that merges keeps the order and the answer.    *)
LEMMA MergeAtAgrees ==
  ASSUME NEW v, InOrder(v), NEW i \in 2 .. Len(v), Mergeable(v, i)
  PROVE  /\ InOrder(MergeAt(v, i)) /\ Len(MergeAt(v, i)) = Len(v) - 1
         /\ Coalesce(ToArena(MergeAt(v, i))) = Coalesce(ToArena(v))
         /\ \A j \in 1 .. i - 1 : MergeAt(v, i)[j].used = v[j].used
<1> DEFINE h == i - 1  s == v[h].seg  t == v[i].seg  bs == ToArena(v)
           q == v[h].paras + 1 + v[i].paras
           w == MergeAt(v, i)
<1>1. /\ Len(v) \in Nat /\ DOMAIN v = 1 .. Len(v) /\ i \in Nat /\ h \in DOMAIN v /\ i \in DOMAIN v
      /\ h + 1 = i /\ h < i /\ i + 1 \in h + 1 .. Len(v) + 1 /\ (i + 1) - h - 1 = 1
  BY Length
<1>2. /\ s \in Nat /\ t \in Nat /\ v[h].paras \in Nat /\ v[i].paras \in Nat /\ v[h] \in Rows
  BY <1>1, RowFacts
<1>3. ~v[i].used /\ ~v[h].used /\ s + 1 + v[h].paras = t
  BY DEF Mergeable
<1>4. q = (IF i + 1 <= Len(v) THEN v[i + 1].seg ELSE HeapEnd) - s - 1
  <2>1. v[i].seg + 1 + v[i].paras = Stop(v, i)
    BY <1>1, RowFacts
  <2>2. i < Len(v) <=> i + 1 <= Len(v)
    BY <1>1
  <2>3. Stop(v, i) = IF i + 1 <= Len(v) THEN v[i + 1].seg ELSE HeapEnd
    BY <2>2 DEF Stop
  <2>5. v[h].paras + 1 + v[i].paras = (t + 1 + v[i].paras) - s - 1
    <3>1. s + 1 + v[h].paras = t
      BY <1>3
    <3>2. s \in Nat /\ t \in Nat /\ v[h].paras \in Nat /\ v[i].paras \in Nat
      BY <1>2
    <3> HIDE DEF h, s, t
    <3>3. PICK a \in Nat : a = v[h].paras
      BY <3>2
    <3>4. PICK b \in Nat : b = v[i].paras
      BY <3>2
    <3>5. s + 1 + a = t
      BY <3>1, <3>3
    <3>6. a + 1 + b = (t + 1 + b) - s - 1
      BY <3>2, <3>5, Telescopes
    <3> QED BY <3>3, <3>4, <3>6
  <2> QED BY <2>1, <2>3, <2>5
<1>5. w = Erase([v EXCEPT ![h].paras = q], h + 1, i + 1)
  BY <1>1 DEF MergeAt
<1>6. /\ InOrder(w) /\ Len(w) = Len(v) - ((i + 1) - h - 1)
      /\ w[h] = [v[h] EXCEPT !.paras = q] /\ \A j \in 1 .. h - 1 : w[j] = v[j]
      /\ ToArena(w) = [x \in DOMAIN bs \ {v[j].seg : j \in h + 1 .. (i + 1) - 1} |->
                         IF x = s THEN [bs[x] EXCEPT !.paras = q] ELSE bs[x]]
  <2> HIDE DEF q, h
  <2>1. i + 1 \in h + 1 .. Len(v) + 1
    BY <1>1
  <2>2. h \in DOMAIN v /\ q = (IF i + 1 <= Len(v) THEN v[i + 1].seg ELSE HeapEnd) - v[h].seg - 1
    BY <1>1, <1>4
  <2>3. IsSwallowed(v, h, i + 1, q, w)
    BY <1>5, <2>1, <2>2, SwallowAgrees
  <2> HIDE DEF w
  <2> QED BY <2>3 DEF IsSwallowed, bs
<1> HIDE DEF w
<1>7. \A j \in 1 .. h : w[j].used = v[j].used
  <2>1. q \in Nat
    <3>1. v[h].paras \in Nat /\ v[i].paras \in Nat
      BY <1>2
    <3>2. PICK a \in Nat : a = v[h].paras
      BY <3>1
    <3>3. PICK b \in Nat : b = v[i].paras
      BY <3>1
    <3>4. q = a + 1 + b
      BY <3>2, <3>3
    <3> HIDE DEF q
    <3> QED BY <3>4
  <2>2. w[h].used = v[h].used
    BY <1>2, <1>6, <2>1, RowResized
  <2>3. \A j \in 1 .. h : j = h \/ j \in 1 .. h - 1
    BY <1>1
  <2> QED BY <1>6, <2>2, <2>3
<1>8. /\ IsTiling(bs) /\ s \in DOMAIN bs /\ t \in DOMAIN bs /\ ~bs[s].used /\ ~bs[t].used
      /\ End(bs, s) = s + 1 + v[h].paras /\ End(bs, t) = t + 1 + v[i].paras
  BY <1>1, <1>3, ArenaOf
<1>9. IsMerge(bs, s, t, ToArena(w))
  <2>1. {v[j].seg : j \in h + 1 .. (i + 1) - 1} = {t}
    <3>1. h + 1 .. (i + 1) - 1 = {i}
      BY <1>1
    <3> QED BY <3>1
  <2>2. s # t
    BY <1>2, <1>3
  <2>3. q = End(bs, t) - s - 1
    <3>2. v[h].paras + 1 + v[i].paras = (t + 1 + v[i].paras) - s - 1
      <4>1. s + 1 + v[h].paras = t
        BY <1>3
      <4>2. s \in Nat /\ t \in Nat /\ v[h].paras \in Nat /\ v[i].paras \in Nat
        BY <1>2
      <4> HIDE DEF h, s, t
      <4>3. PICK a \in Nat : a = v[h].paras
        BY <4>2
      <4>4. PICK b \in Nat : b = v[i].paras
        BY <4>2
      <4>5. s + 1 + a = t
        BY <4>1, <4>3
      <4>6. a + 1 + b = (t + 1 + b) - s - 1
        BY <4>2, <4>5, Telescopes
      <4> QED BY <4>3, <4>4, <4>6
    <3> QED BY <1>8, <3>2
  <2>4. ToArena(w) = [x \in DOMAIN bs \ {t} |->
                        IF x = s THEN [bs[x] EXCEPT !.paras = q] ELSE bs[x]]
    BY <1>6, <2>1
  <2> HIDE DEF bs, q, s, t
  <2>5. DOMAIN ToArena(w) = DOMAIN bs \ {t}
    BY <2>4
  <2>6. ToArena(w)[s] = [bs[s] EXCEPT !.paras = q]
    BY <1>8, <2>2, <2>4
  <2>7. \A x \in DOMAIN bs \ {s, t} : ToArena(w)[x] = bs[x]
    BY <2>4
  <2> QED BY <2>3, <2>5, <2>6, <2>7 DEF IsMerge
<1>10. IsTiling(ToArena(w))
  BY <1>6, ArenaOf
<1>11. Coalesce(ToArena(w)) = Coalesce(bs)
  <2> HIDE DEF bs, s, t
  <2>1. t = End(bs, s)
    BY <1>3, <1>8
  <2> QED BY <1>8, <1>9, <1>10, <2>1, MergeCoalesces
<1> QED BY <1>1, <1>6, <1>7, <1>11 DEF w

(* A turn keeps what holds of the loop, and leaves one block fewer to      *)
(* see.                                                                    *)
LEMMA TurnSound ==
  ASSUME NEW v, NEW c \in Turns(v)
  PROVE  /\ CoalesceTurn(c) \in Turns(v)
         /\ c.i > Len(c.list) => CoalesceTurn(c) = c
         /\ c.i <= Len(c.list) => Len(CoalesceTurn(c).list) - CoalesceTurn(c).i = Len(c.list) - c.i - 1
<1> DEFINE w == c.list  i == c.i  d == CoalesceTurn(c)
<1>1. /\ InOrder(w) /\ w \in Seq(Rows) /\ i \in 2 .. Len(w) + 1
      /\ Coalesce(ToArena(w)) = Coalesce(ToArena(v))
      /\ \A j \in 2 .. i - 1 : w[j].used \/ w[j-1].used
  BY DEF Turns, Sound
<1>2. Len(w) \in Nat /\ DOMAIN w = 1 .. Len(w) /\ i \in Nat
  BY <1>1, Length
<1>3. CASE i > Len(w)
  <2>1. d = c
    BY <1>3 DEF CoalesceTurn
  <2> QED BY <1>2, <1>3, <2>1
<1>4. CASE i <= Len(w) /\ Mergeable(w, i)
  <2>1. d = [list |-> MergeAt(w, i), i |-> i]
    BY <1>2, <1>4 DEF CoalesceTurn
  <2>2. i \in 2 .. Len(w)
    BY <1>1, <1>2, <1>4
  <2>3. /\ InOrder(MergeAt(w, i)) /\ Len(MergeAt(w, i)) = Len(w) - 1
        /\ Coalesce(ToArena(MergeAt(w, i))) = Coalesce(ToArena(w))
        /\ \A j \in 1 .. i - 1 : MergeAt(w, i)[j].used = w[j].used
    BY <1>1, <1>4, <2>2, MergeAtAgrees
  <2> HIDE DEF d
  <2>4. d.list = MergeAt(w, i) /\ d.i = i
    BY <2>1
  <2>5. \A j \in 2 .. i - 1 : d.list[j].used \/ d.list[j-1].used
    <3>1. \A j \in 2 .. i - 1 : j \in 1 .. i - 1 /\ j - 1 \in 1 .. i - 1
      BY <1>2
    <3> QED BY <1>1, <2>3, <2>4, <3>1
  <2>6. i \in 2 .. Len(d.list) + 1
    BY <1>2, <2>2, <2>3, <2>4
  <2>7. Sound(v, d)
    BY <1>1, <2>3, <2>4, <2>5, <2>6 DEF Sound
  <2>8. d \in [list : Seq(Rows), i : Nat]
    BY <1>2, <2>1, <2>3 DEF InOrder
  <2>9. Len(d.list) - d.i = Len(w) - i - 1 /\ ~(i > Len(w))
    BY <1>2, <1>4, <2>3, <2>4
  <2> QED BY <2>7, <2>8, <2>9 DEF Turns, d
<1>5. CASE i <= Len(w) /\ ~Mergeable(w, i)
  <2>1. d = [list |-> w, i |-> i + 1]
    BY <1>2, <1>5 DEF CoalesceTurn
  <2> HIDE DEF d
  <2>2. d.list = w /\ d.i = i + 1
    BY <2>1
  <2>3. w[i].used \/ w[i-1].used
    <3>1. i - 1 \in DOMAIN w /\ i - 1 < Len(w) /\ (i - 1) + 1 = i
      BY <1>1, <1>2, <1>5
    <3>2. w[i-1].seg + 1 + w[i-1].paras = w[i].seg
      BY <1>1, <3>1, RowFacts DEF Stop
    <3> QED BY <1>5, <3>2 DEF Mergeable
  <2>4. \A j \in 2 .. d.i - 1 : d.list[j].used \/ d.list[j-1].used
    <3>1. \A j \in 2 .. (i + 1) - 1 : j = i \/ j \in 2 .. i - 1
      BY <1>2
    <3> QED BY <1>1, <2>2, <2>3, <3>1
  <2>5. d.i \in 2 .. Len(d.list) + 1
    BY <1>1, <1>2, <1>5, <2>2
  <2>6. Sound(v, d)
    BY <1>1, <2>2, <2>4, <2>5 DEF Sound
  <2>7. d \in [list : Seq(Rows), i : Nat]
    BY <1>1, <1>2, <2>1
  <2>8. Len(d.list) - d.i = Len(w) - i - 1 /\ ~(i > Len(w))
    BY <1>2, <1>5, <2>2
  <2> QED BY <2>6, <2>7, <2>8 DEF Turns, d
<1> QED BY <1>2, <1>3, <1>4, <1>5

(* mem_coalesce's loop computes what Coalesce says.                        *)
LEMMA LoopCoalesceAgrees ==
  ASSUME NEW v, InOrder(v)
  PROVE  InOrder(LoopCoalesce(v)) /\ ToArena(LoopCoalesce(v)) = Coalesce(ToArena(v))
<1> DEFINE len == Len(v)
           S == [x \in (1 .. len) \X Turns(v) |-> CoalesceTurn(x[2])]
           a == [list |-> v, i |-> 2]
<1>1. len \in Nat /\ len >= 1
  BY Length
<1>2. a \in Turns(v)
  <2>1. a.list = v /\ a.i = 2 /\ a \in [list : Seq(Rows), i : Nat]
    BY DEF InOrder
  <2> HIDE DEF a
  <2>2. a.i \in 2 .. Len(a.list) + 1 /\ 2 .. a.i - 1 = {}
    BY <1>1, <2>1
  <2>3. Sound(v, a)
    BY <2>1, <2>2 DEF Sound
  <2> QED BY <2>1, <2>3 DEF Turns
<1>3. Turning(S, len, Turns(v)) /\ \A k \in 1 .. len : \A x \in Turns(v) : S[<<k, x>>] = CoalesceTurn(x)
  BY TurnSound DEF Turning
<1> HIDE DEF S
<1>4. PICK f : IsRun(f, len, Turns(v), a, S)
  <2>1. len \in Nat
    BY <1>1
  <2> HIDE DEF a, len
  <2> QED BY <1>2, <1>3, <2>1, LoopRuns
<1> USE DEF IsRun
<1> HIDE DEF a
<1>5. \A k \in 0 .. len : k = 0 \/ (k \in 1 .. len /\ k # 0)
  BY <1>1
<1>6. \A k \in 1 .. len : f[k] = CoalesceTurn(f[k - 1])
  <2>1. \A k \in 1 .. len : k - 1 \in 0 .. len
    BY <1>1
  <2>2. \A k \in 1 .. len : f[k - 1] \in Turns(v)
    BY <1>4, <2>1
  <2> QED BY <1>3, <1>4, <2>2
<1>8. f = [k \in 0 .. len |-> IF k = 0 THEN a ELSE CoalesceTurn(f[k - 1])]
  <2> HIDE DEF len
  <2>2. \A k \in 0 .. len : f[k] = IF k = 0 THEN a ELSE CoalesceTurn(f[k - 1])
    BY <1>4, <1>5, <1>6
  <2> QED BY <1>4, <2>2
<1> DEFINE turn[k \in 0 .. Len(v)] ==
             IF k = 0 THEN [list |-> v, i |-> 2] ELSE CoalesceTurn(turn[k-1])
<1>9. turn = [k \in 0 .. Len(v) |-> IF k = 0 THEN [list |-> v, i |-> 2] ELSE CoalesceTurn(turn[k-1])]
  BY <1>8, Zenon DEF a
<1>10. LoopCoalesce(v) = turn[Len(v)].list
  BY DEF LoopCoalesce
<1> HIDE DEF turn
<1> DEFINE D == {k \in Nat : k <= len => /\ turn[k] \in Turns(v)
                                         /\ turn[k].i > Len(turn[k].list) \/ Len(turn[k].list) - turn[k].i + 1 + k <= len - 1}
<1>11. 0 \in D
  <2>1. turn[0] = a
    BY <1>1, <1>9 DEF a
  <2>2. a.list = v /\ a.i = 2
    BY DEF a
  <2>3. Len(v) - 2 + 1 + 0 <= Len(v) - 1
    BY <1>1
  <2> QED BY <1>2, <2>1, <2>2, <2>3
<1>12. ASSUME NEW k \in Nat, k \in D PROVE k + 1 \in D
  <2> SUFFICES ASSUME k + 1 <= len
               PROVE  /\ turn[k + 1] \in Turns(v)
                      /\ \/ turn[k + 1].i > Len(turn[k + 1].list)
                         \/ Len(turn[k + 1].list) - turn[k + 1].i + 1 + (k + 1) <= len - 1
    OBVIOUS
  <2>1. k <= len /\ k + 1 \in 0 .. len /\ k + 1 # 0 /\ (k + 1) - 1 = k
    BY <1>1
  <2>2. /\ turn[k] \in Turns(v)
        /\ turn[k].i > Len(turn[k].list) \/ Len(turn[k].list) - turn[k].i + 1 + k <= len - 1
    BY <1>12, <2>1
  <2>3. turn[k + 1] = CoalesceTurn(turn[k])
    BY <1>9, <2>1
  <2> DEFINE c == turn[k]  d == turn[k + 1]
  <2> HIDE DEF D, c, d
  <2>4. c \in Turns(v) /\ d = CoalesceTurn(c)
    BY <2>2, <2>3 DEF c, d
  <2>5. /\ d \in Turns(v)
        /\ c.i > Len(c.list) => d = c
        /\ c.i <= Len(c.list) => Len(d.list) - d.i = Len(c.list) - c.i - 1
    BY <2>4, TurnSound
  <2>6. c.i \in Nat /\ Len(c.list) \in Nat /\ d.i \in Nat /\ Len(d.list) \in Nat
    BY <2>4, <2>5 DEF Turns
  <2>7. c.i > Len(c.list) \/ Len(c.list) - c.i + 1 + k <= len - 1
    BY <2>2 DEF c
  <2>8. d.i > Len(d.list) \/ Len(d.list) - d.i + 1 + (k + 1) <= len - 1
    <3>1. PICK x \in Nat : x = Len(c.list)
      BY <2>6
    <3>2. PICK y \in Nat : y = c.i
      BY <2>6
    <3>3. PICK z \in Nat : z = Len(d.list)
      BY <2>6
    <3>4. PICK t \in Nat : t = d.i
      BY <2>6
    <3>5. CASE y > x
      BY <2>5, <3>1, <3>2, <3>5
    <3>6. CASE y <= x
      <4>1. z - t = x - y - 1 /\ x - y + 1 + k <= len - 1
        BY <2>5, <2>7, <3>1, <3>2, <3>3, <3>4, <3>6
      <4>2. z - t + 1 + (k + 1) <= len - 1
        BY <1>1, <4>1
      <4> QED BY <3>3, <3>4, <4>2
    <3> QED BY <3>5, <3>6
  <2> QED BY <2>5, <2>8 DEF d
<1> HIDE DEF D
<1>13. len \in D
  BY <1>1, <1>11, <1>12, Upwards
<1> DEFINE c == turn[len]  w == c.list
<1>14. c \in Turns(v) /\ (c.i > Len(c.list) \/ Len(c.list) - c.i + 1 + len <= len - 1)
  BY <1>1, <1>13 DEF D
<1> HIDE DEF c
<1>15. /\ InOrder(w) /\ c.i \in 2 .. Len(w) + 1 /\ Coalesce(ToArena(w)) = Coalesce(ToArena(v))
       /\ \A j \in 2 .. c.i - 1 : w[j].used \/ w[j-1].used
  BY <1>14 DEF Turns, Sound
<1>16. Len(w) \in Nat /\ DOMAIN w = 1 .. Len(w)
  BY <1>15, Length
<1>17. c.i = Len(w) + 1
  <2>1. PICK y \in 2 .. Len(w) + 1 : y = c.i
    BY <1>15
  <2>2. y > Len(w) \/ Len(w) - y + 1 + len <= len - 1
    BY <1>14, <2>1
  <2>3. y = Len(w) + 1
    BY <1>1, <1>16, <2>2
  <2> QED BY <2>1, <2>3
<1> DEFINE bs == ToArena(w)
<1>18. Merged(bs)
  <2>1. /\ DOMAIN bs = {w[j].seg : j \in DOMAIN w}
        /\ \A j \in DOMAIN w : bs[w[j].seg].used = w[j].used /\ End(bs, w[j].seg) = w[j].seg + 1 + w[j].paras
    BY <1>15, ArenaOf
  <2> HIDE DEF bs, w
  <2> SUFFICES ASSUME NEW j \in DOMAIN w, ~w[j].used, IsFree(bs, End(bs, w[j].seg)) PROVE FALSE
    BY <2>1 DEF Merged
  <2>2. End(bs, w[j].seg) = Stop(w, j)
    BY <1>15, <2>1, RowFacts
  <2>3. PICK h \in DOMAIN w : End(bs, w[j].seg) = w[h].seg /\ ~w[h].used
    BY <2>1 DEF IsFree
  <2>4. j < Len(w)
    <3>1. w[h].seg < HeapEnd /\ HeapEnd \in Nat /\ w[h].seg \in Nat
      BY <1>15, InArena, RowFacts, ArenaAssumption
    <3> QED BY <2>2, <2>3, <3>1 DEF Stop
  <2>5. j + 1 \in DOMAIN w /\ j + 1 \in 2 .. c.i - 1 /\ (j + 1) - 1 = j
    BY <1>16, <1>17, <2>4
  <2>6. w[h].seg = w[j + 1].seg
    BY <2>2, <2>3, <2>4 DEF Stop
  <2>7. h = j + 1
    BY <1>15, <2>5, <2>6, SegsDiffer
  <2> QED BY <1>15, <2>3, <2>5, <2>7
<1>19. Coalesce(ToArena(w)) = ToArena(w)
  <2>1. IsTiling(ToArena(w)) /\ ToArena(w) = [t \in DOMAIN ToArena(w) |-> ToArena(w)[t]]
    BY <1>15, ArenaOf, ArenaCells
  <2> QED BY <1>18, <2>1, NothingToMerge
<1>20. LoopCoalesce(v) = w
  BY <1>10 DEF c
<1> QED BY <1>15, <1>19, <1>20

(* The least element of a set is the one below all others.                 *)
LEMMA LeastIs ==
  ASSUME NEW S, S \subseteq Nat, NEW x \in S, \A y \in S : x <= y
  PROVE  Least(S) = x
<1>1. Least(S) \in S /\ \A y \in S : Least(S) <= y
  BY LeastExists
<1>2. Least(S) \in Nat /\ x \in Nat /\ Least(S) <= x /\ x <= Least(S)
  BY <1>1
<1> QED BY <1>2

(* mem_largest's loop computes what Largest says.                          *)
LEMMA LoopLargestAgrees ==
  ASSUME NEW v, InOrder(v)
  PROVE  LoopLargest(v) = Largest(ToArena(v))
<1> DEFINE len == Len(v)
           S == [x \in (1 .. len) \X Nat |-> Better(v[x[1]], x[2])]
<1>1. len \in Nat /\ len >= 1 /\ DOMAIN v = 1 .. len
  BY Length
<1>2. \A k \in 1 .. len : v[k].paras \in Nat /\ v[k].used \in BOOLEAN /\ v[k].paras >= 0
  BY <1>1, RowFacts
<1>3. \A k \in 1 .. len : \A x \in Nat : S[<<k, x>>] = Better(v[k], x) /\ Better(v[k], x) \in Nat
  BY <1>2 DEF Better
<1>4. Turning(S, len, Nat)
  BY <1>3 DEF Turning
<1> HIDE DEF S
<1>5. PICK f : IsRun(f, len, Nat, 0, S)
  <2> HIDE DEF len
  <2> QED BY <1>1, <1>4, LoopRuns
<1>6. f = [k \in 0 .. len |-> IF k = 0 THEN 0 ELSE Better(v[k], f[k - 1])]
  <2>1. \A k \in 0 .. len : k = 0 \/ (k \in 1 .. len /\ k # 0)
    BY <1>1
  <2>2. \A k \in 1 .. len : k - 1 \in 0 .. len
    BY <1>1
  <2>3. \A k \in 1 .. len : f[k - 1] \in Nat
    BY <1>5, <2>2 DEF IsRun
  <2>4. \A k \in 1 .. len : f[k] = Better(v[k], f[k - 1])
    BY <1>3, <1>5, <2>3 DEF IsRun
  <2> HIDE DEF len
  <2>5. \A k \in 0 .. len : f[k] = IF k = 0 THEN 0 ELSE Better(v[k], f[k - 1])
    BY <1>5, <2>1, <2>4 DEF IsRun
  <2> QED BY <1>5, <2>5 DEF IsRun
<1> DEFINE best[k \in 0 .. Len(v)] == IF k = 0 THEN 0 ELSE Better(v[k], best[k-1])
<1>7. best = [k \in 0 .. Len(v) |-> IF k = 0 THEN 0 ELSE Better(v[k], best[k-1])]
  BY <1>6, Zenon
<1>8. LoopLargest(v) = best[Len(v)]
  BY DEF LoopLargest
<1> HIDE DEF best
<1> DEFINE Most(k, m) == /\ m \in Nat
                         /\ m = 0 \/ \E j \in 1 .. k : ~v[j].used /\ v[j].paras = m
                         /\ \A j \in 1 .. k : ~v[j].used => v[j].paras <= m
           D == {k \in Nat : k <= len => Most(k, best[k])}
<1>9. 0 \in D
  <2>1. best[0] = 0
    BY <1>1, <1>7
  <2> QED BY <2>1
<1>10. ASSUME NEW k \in Nat, k \in D PROVE k + 1 \in D
  <2> SUFFICES ASSUME k + 1 <= len PROVE Most(k + 1, best[k + 1])
    OBVIOUS
  <2>1. k <= len /\ k + 1 \in 0 .. len /\ k + 1 # 0 /\ (k + 1) - 1 = k /\ k + 1 \in 1 .. len
    BY <1>1
  <2>2. Most(k, best[k])
    BY <1>10, <2>1
  <2>3. best[k + 1] = Better(v[k + 1], best[k])
    BY <1>7, <2>1
  <2> DEFINE m == best[k]  d == best[k + 1]
  <2> HIDE DEF D, m, d
  <2>4. d = (IF ~v[k + 1].used /\ v[k + 1].paras > m THEN v[k + 1].paras ELSE m)
    BY <2>3 DEF m, d, Better
  <2>5. /\ m \in Nat
        /\ m = 0 \/ \E j \in 1 .. k : ~v[j].used /\ v[j].paras = m
        /\ \A j \in 1 .. k : ~v[j].used => v[j].paras <= m
    BY <2>2 DEF m
  <2>6. \A j \in 1 .. k + 1 : j = k + 1 \/ j \in 1 .. k
    OBVIOUS
  <2>7. \A j \in 1 .. k : j \in 1 .. k + 1 /\ j \in 1 .. len
    BY <2>1, <1>1
  <2>8. v[k + 1].paras \in Nat
    BY <1>2, <2>1
  <2>9. CASE ~v[k + 1].used /\ v[k + 1].paras > m
    <3>1. d = v[k + 1].paras
      BY <2>4, <2>9
    <3>2. \A j \in 1 .. k : ~v[j].used => v[j].paras <= d
      BY <1>2, <2>5, <2>7, <2>8, <2>9, <3>1
    <3>3. \A j \in 1 .. k + 1 : ~v[j].used => v[j].paras <= d
      BY <2>6, <2>8, <3>1, <3>2
    <3>4. k + 1 \in 1 .. k + 1
      OBVIOUS
    <3> QED BY <2>8, <2>9, <3>1, <3>3, <3>4 DEF d
  <2>10. CASE ~(~v[k + 1].used /\ v[k + 1].paras > m)
    <3>1. d = m /\ (v[k + 1].used \/ v[k + 1].paras <= m)
      BY <2>4, <2>5, <2>8, <2>10
    <3>2. \A j \in 1 .. k + 1 : ~v[j].used => v[j].paras <= d
      BY <2>5, <2>6, <3>1
    <3> QED BY <2>5, <2>7, <3>1, <3>2 DEF d
  <2> QED BY <2>9, <2>10
<1> HIDE DEF D
<1>11. len \in D
  BY <1>1, <1>9, <1>10, Upwards
<1> DEFINE m == best[len]  bs == ToArena(v)
<1>12. Most(len, m)
  BY <1>1, <1>11 DEF D
<1> HIDE DEF m
<1>13. /\ DOMAIN bs = {v[j].seg : j \in DOMAIN v}
       /\ \A j \in DOMAIN v : bs[v[j].seg].used = v[j].used /\ bs[v[j].seg].paras = v[j].paras
  BY ArenaOf
<1> HIDE DEF bs
<1>14. FreeSizes(bs) = {v[j].paras : j \in {h \in 1 .. len : ~v[h].used}}
  <2>1. ASSUME NEW x \in FreeSizes(bs) PROVE \E j \in 1 .. len : ~v[j].used /\ x = v[j].paras
    BY <1>1, <1>13, <2>1 DEF FreeSizes
  <2>2. ASSUME NEW j \in 1 .. len, ~v[j].used PROVE v[j].paras \in FreeSizes(bs)
    BY <1>1, <1>13, <2>2 DEF FreeSizes
  <2> QED BY <2>1, <2>2
<1>15. m \in FreeSizes(bs) \union {0} /\ \A x \in FreeSizes(bs) : x <= m
  BY <1>12, <1>14
<1>16. FreeSizes(bs) \subseteq Nat
  BY <1>2, <1>14
<1>17. Largest(bs) \in FreeSizes(bs) \union {0} /\ \A x \in FreeSizes(bs) : x <= Largest(bs)
  BY <1>15 DEF Largest
<1>18. Largest(bs) = m
  <2>1. Largest(bs) \in Nat /\ m \in Nat
    BY <1>15, <1>16, <1>17
  <2>2. Largest(bs) <= m
    BY <1>15, <1>17, <2>1
  <2>3. m <= Largest(bs)
    BY <1>15, <1>17, <2>1
  <2> QED BY <2>1, <2>2, <2>3
<1> QED BY <1>8, <1>18 DEF m, bs

(* The block the search of mem_alloc_at holds after it has looked at k of  *)
(* them: none, or the first that fits, or the first of the largest.        *)
HasRoom(v, need, j) == ~v[j].used /\ v[j].paras >= need
Ahead(v, big, held, j) ==
  IF big THEN v[j].paras <= v[held].paras /\ (v[j].paras = v[held].paras => held <= j) ELSE held <= j
Picked(v, need, big, k, held) ==
  IF held > Len(v) THEN \A j \in 1 .. k : ~HasRoom(v, need, j)
  ELSE held \in 1 .. k /\ HasRoom(v, need, held) /\ \A j \in 1 .. k : HasRoom(v, need, j) => Ahead(v, big, held, j)

(* One turn of the search keeps the choice: the first that fits or the     *)
(* first of the largest.                                                   *)
LEMMA PickTurnPicks ==
  ASSUME NEW v, InOrder(v), NEW need \in Nat, NEW big \in BOOLEAN, NEW k \in Nat, k + 1 <= Len(v),
         NEW held \in 1 .. Len(v) + 1, Picked(v, need, big, k, held)
  PROVE  /\ PickTurn(v, need, big, k + 1, held) \in 1 .. Len(v) + 1
         /\ Picked(v, need, big, k + 1, PickTurn(v, need, big, k + 1, held))
<1> DEFINE i == k + 1  d == PickTurn(v, need, big, k + 1, held)  len == Len(v)
<1>1. len \in Nat /\ len >= 1 /\ DOMAIN v = 1 .. len
  BY Length
<1>2. /\ i \in Nat /\ i \in 1 .. len /\ i \in 1 .. i /\ i <= len /\ held \in Nat /\ i \in 1 .. len + 1
      /\ \A j \in 1 .. i : j \in Nat /\ j \in 1 .. len /\ (j = i \/ j \in 1 .. k)
      /\ \A j \in 1 .. k : j \in 1 .. i /\ j < i
  BY <1>1
<1>3. \A j \in 1 .. len : v[j].paras \in Nat
  BY <1>1, RowFacts
<1>4. d = (IF ~HasRoom(v, need, i) THEN held ELSE IF ~big THEN (IF held > len THEN i ELSE held)
           ELSE IF held > len THEN i ELSE IF v[i].paras > v[held].paras THEN i ELSE held)
  BY <1>2, <1>3 DEF PickTurn, HasRoom
<1> HIDE DEF i, d, len
<1>5. IF held > len THEN \A j \in 1 .. k : ~HasRoom(v, need, j)
      ELSE held \in 1 .. k /\ HasRoom(v, need, held) /\ \A j \in 1 .. k : HasRoom(v, need, j) => Ahead(v, big, held, j)
  BY DEF Picked, len
<1>6. Picked(v, need, big, i, d) <=>
        IF d > len THEN \A j \in 1 .. i : ~HasRoom(v, need, j)
        ELSE d \in 1 .. i /\ HasRoom(v, need, d) /\ \A j \in 1 .. i : HasRoom(v, need, j) => Ahead(v, big, d, j)
  BY DEF Picked, len
<1>7. CASE held > len
  <2>1. CASE ~HasRoom(v, need, i)
    <3>1. d = held
      BY <1>4, <2>1
    <3> QED BY <1>2, <1>5, <1>6, <1>7, <2>1, <3>1 DEF d, i, len
  <2>2. CASE HasRoom(v, need, i)
    <3>1. d = i
      BY <1>4, <1>7, <2>2
    <3>2. Ahead(v, big, i, i)
      BY <1>2, <1>3 DEF Ahead
    <3>3. \A j \in 1 .. i : HasRoom(v, need, j) => Ahead(v, big, i, j)
      BY <1>2, <1>5, <1>7, <3>2
    <3>4. ~(i > len)
      BY <1>1, <1>2
    <3>5. Picked(v, need, big, i, d)
      BY <1>2, <1>6, <2>2, <3>1, <3>3, <3>4
    <3> QED BY <1>2, <3>1, <3>5 DEF d, i, len
  <2> QED BY <2>1, <2>2
<1>8. CASE ~(held > len)
  <2>0. /\ held \in 1 .. k /\ HasRoom(v, need, held) /\ \A j \in 1 .. k : HasRoom(v, need, j) => Ahead(v, big, held, j)
        /\ held \in 1 .. i /\ held < i /\ held \in 1 .. len
    BY <1>2, <1>5, <1>8
  <2>1. CASE HasRoom(v, need, i) => Ahead(v, big, held, i)
    <3>1. d = held
      BY <1>2, <1>3, <1>4, <1>8, <2>0, <2>1 DEF Ahead
    <3>2. \A j \in 1 .. i : HasRoom(v, need, j) => Ahead(v, big, held, j)
      BY <1>2, <2>0, <2>1
    <3>3. Picked(v, need, big, i, d)
      BY <1>6, <1>8, <2>0, <3>1, <3>2
    <3> QED BY <1>2, <3>1, <3>3 DEF d, i, len
  <2>2. CASE HasRoom(v, need, i) /\ ~Ahead(v, big, held, i)
    <3>1. big /\ v[i].paras > v[held].paras
      BY <1>2, <1>3, <2>0, <2>2 DEF Ahead
    <3>2. d = i
      BY <1>4, <1>8, <2>2, <3>1
    <3>3. \A j \in 1 .. k : HasRoom(v, need, j) => Ahead(v, big, i, j)
      <4> SUFFICES ASSUME NEW j \in 1 .. k, HasRoom(v, need, j) PROVE Ahead(v, big, i, j)
        OBVIOUS
      <4>1. v[j].paras <= v[held].paras /\ j \in 1 .. len
        BY <1>2, <2>0, <3>1 DEF Ahead
      <4>2. v[j].paras < v[i].paras
        BY <1>2, <1>3, <2>0, <3>1, <4>1
      <4> QED BY <1>2, <1>3, <3>1, <4>1, <4>2 DEF Ahead
    <3>4. Ahead(v, big, i, i)
      BY <1>2, <1>3 DEF Ahead
    <3>5. \A j \in 1 .. i : HasRoom(v, need, j) => Ahead(v, big, i, j)
      BY <1>2, <3>3, <3>4
    <3>6. ~(i > len)
      BY <1>1, <1>2
    <3>7. Picked(v, need, big, i, d)
      BY <1>2, <1>6, <2>2, <3>2, <3>5, <3>6
    <3> QED BY <1>2, <3>2, <3>7 DEF d, i, len
  <2> QED BY <2>1, <2>2
<1> QED BY <1>7, <1>8

(* So the search ends with the choice among all blocks.                    *)
LEMMA LoopPicks ==
  ASSUME NEW v, InOrder(v), NEW need \in Nat, NEW big \in BOOLEAN
  PROVE  /\ LoopPick(v, need, big) \in 1 .. Len(v) + 1
         /\ Picked(v, need, big, Len(v), LoopPick(v, need, big))
<1> DEFINE len == Len(v)
           T == 1 .. len + 1
           S == [x \in (1 .. len) \X T |-> PickTurn(v, need, big, x[1], x[2])]
           a == len + 1
<1>1. len \in Nat /\ len >= 1 /\ DOMAIN v = 1 .. len /\ a \in T /\ a > len
      /\ \A k \in 1 .. len : k \in T
  BY Length
<1>2. \A k \in 1 .. len : \A x \in T : S[<<k, x>>] = PickTurn(v, need, big, k, x) /\ PickTurn(v, need, big, k, x) \in T
  BY <1>1 DEF PickTurn
<1>3. Turning(S, len, T)
  BY <1>2 DEF Turning
<1> HIDE DEF S
<1>4. PICK f : IsRun(f, len, T, a, S)
  <2> HIDE DEF len, T, a
  <2> QED BY <1>1, <1>3, LoopRuns
<1>5. f = [k \in 0 .. len |-> IF k = 0 THEN a ELSE PickTurn(v, need, big, k, f[k - 1])]
  <2>1. \A k \in 0 .. len : k = 0 \/ (k \in 1 .. len /\ k # 0)
    BY <1>1
  <2>2. \A k \in 1 .. len : k - 1 \in 0 .. len
    BY <1>1
  <2> HIDE DEF len, T, a
  <2>3. \A k \in 1 .. len : f[k - 1] \in T
    BY <1>4, <2>2 DEF IsRun
  <2>4. \A k \in 1 .. len : f[k] = PickTurn(v, need, big, k, f[k - 1])
    BY <1>2, <1>4, <2>3 DEF IsRun
  <2>5. \A k \in 0 .. len : f[k] = IF k = 0 THEN a ELSE PickTurn(v, need, big, k, f[k - 1])
    BY <1>4, <2>1, <2>4 DEF IsRun
  <2> QED BY <1>4, <2>5 DEF IsRun
<1> DEFINE pick[k \in 0 .. Len(v)] == IF k = 0 THEN Len(v) + 1 ELSE PickTurn(v, need, big, k, pick[k-1])
<1>6. pick = [k \in 0 .. Len(v) |-> IF k = 0 THEN Len(v) + 1 ELSE PickTurn(v, need, big, k, pick[k-1])]
  BY <1>5, Zenon
<1>7. LoopPick(v, need, big) = pick[Len(v)]
  BY DEF LoopPick
<1> HIDE DEF pick
<1> DEFINE D == {k \in Nat : k <= len => pick[k] \in T /\ Picked(v, need, big, k, pick[k])}
<1>8. 0 \in D
  <2>1. pick[0] = a /\ \A j \in 1 .. 0 : FALSE
    BY <1>1, <1>6
  <2>2. Picked(v, need, big, 0, a)
    BY <1>1, <2>1 DEF Picked
  <2> QED BY <1>1, <2>1, <2>2
<1>9. ASSUME NEW k \in Nat, k \in D PROVE k + 1 \in D
  <2> SUFFICES ASSUME k + 1 <= len
               PROVE  pick[k + 1] \in T /\ Picked(v, need, big, k + 1, pick[k + 1])
    OBVIOUS
  <2>1. k <= len /\ k + 1 \in 0 .. len /\ k + 1 # 0 /\ (k + 1) - 1 = k
    BY <1>1
  <2>2. pick[k] \in T /\ Picked(v, need, big, k, pick[k])
    BY <1>9, <2>1
  <2>3. pick[k + 1] = PickTurn(v, need, big, k + 1, pick[k])
    BY <1>6, <2>1
  <2> HIDE DEF D
  <2> QED BY <2>2, <2>3, PickTurnPicks
<1> HIDE DEF D
<1>10. len \in D
  BY <1>1, <1>8, <1>9, Upwards
<1> QED BY <1>1, <1>7, <1>10 DEF D

(* Trimming a block and claiming it, as mem_alloc_at and mem_own do.       *)
LEMMA TakenAgrees ==
  ASSUME NEW v, InOrder(v), NEW i \in DOMAIN v, NEW k \in Nat, NEW owner \in Word,
         NEW bs, bs = ToArena(v)
  PROVE  /\ InOrder(Taken(v, i, k, owner))
         /\ ToArena(Taken(v, i, k, owner)) = Claim(Trim(bs, v[i].seg, k), v[i].seg, owner)
<1> DEFINE w == SplitAfter(v, i, k)
<1>1. InOrder(w) /\ ToArena(w) = Trim(bs, v[i].seg, k) /\ i \in DOMAIN w /\ w[i].seg = v[i].seg
  BY TrimAgrees
<1> HIDE DEF w
<1>2. /\ InOrder([w EXCEPT ![i].used = TRUE, ![i].owner = owner])
      /\ ToArena([w EXCEPT ![i].used = TRUE, ![i].owner = owner]) = Claim(ToArena(w), w[i].seg, owner)
  BY <1>1, ClaimAgrees
<1>3. Taken(v, i, k, owner) = [w EXCEPT ![i].used = TRUE, ![i].owner = owner]
  BY DEF Taken, w
<1> QED BY <1>1, <1>2, <1>3

(* mem_alloc_at: the block chosen, what is split off and what is           *)
(* returned.                                                               *)
LEMMA LoopAllocAgrees ==
  ASSUME NEW v, InOrder(v), NEW request \in Nat, NEW big \in BOOLEAN, NEW owner \in Word,
         NEW bs, bs = ToArena(v)
  PROVE  /\ InOrder(LoopAlloc(v, request, big, owner).list)
         /\ LoopAlloc(v, request, big, owner).seg = Alloc(bs, request, big, owner).seg
         /\ ToArena(LoopAlloc(v, request, big, owner).list) = Alloc(bs, request, big, owner).blocks
<1> DEFINE need == AtLeastOne(request)  held == LoopPick(v, need, big)  len == Len(v)
           fits == Fitting(bs, need)
           K == IF big THEN Roomiest(bs, fits) ELSE fits
<1>1. len \in Nat /\ len >= 1 /\ DOMAIN v = 1 .. len
  BY Length
<1>2. need \in Nat
  BY DEF AtLeastOne
<1>3. held \in 1 .. len + 1 /\ Picked(v, need, big, len, held)
  BY <1>2, LoopPicks
<1>4. LoopAlloc(v, request, big, owner) = AllocIn(v, held, need, owner)
  BY DEF LoopAlloc, AtLeastOne
<1>5. Alloc(bs, request, big, owner)
        = IF fits = {} THEN [seg |-> 0, blocks |-> bs]
          ELSE [seg |-> Least(K) + 1, blocks |-> Claim(Trim(bs, Least(K), need), Least(K), owner)]
  BY DEF Alloc
<1>6. /\ DOMAIN bs = {v[j].seg : j \in DOMAIN v}
      /\ \A j \in DOMAIN v : bs[v[j].seg].used = v[j].used /\ bs[v[j].seg].paras = v[j].paras
  BY ArenaOf
<1> HIDE DEF need, held, len
<1>7. /\ \A j \in 1 .. len : HasRoom(v, need, j) => v[j].seg \in fits
      /\ \A y \in fits : \E j \in 1 .. len : HasRoom(v, need, j) /\ y = v[j].seg
  BY <1>1, <1>6 DEF Fitting, HasRoom
<1>8. CASE held > len
  <2>1. \A j \in 1 .. len : ~HasRoom(v, need, j)
    BY <1>3, <1>8 DEF Picked, len
  <2>2. fits = {}
    BY <1>7, <2>1
  <2>3. AllocIn(v, held, need, owner) = [seg |-> 0, list |-> v]
    BY <1>8 DEF AllocIn, len
  <2> QED BY <1>4, <1>5, <2>2, <2>3
<1>9. CASE ~(held > len)
  <2>1. held \in 1 .. len /\ HasRoom(v, need, held) /\ \A j \in 1 .. len : HasRoom(v, need, j) => Ahead(v, big, held, j)
    BY <1>3, <1>9 DEF Picked, len
  <2>2. v[held].seg \in fits /\ fits # {}
    BY <1>7, <2>1
  <2>3. \A j \in 1 .. len : v[j].seg \in Nat /\ v[j].paras \in Nat
    BY <1>1, RowFacts
  <2>4. fits \subseteq Nat
    BY <1>7, <2>3
  <2> HIDE DEF fits
  <2>5. Least(K) = v[held].seg
    <3>1. CASE ~big
      <4>1. \A y \in fits : v[held].seg <= y
        <5> SUFFICES ASSUME NEW j \in 1 .. len, HasRoom(v, need, j) PROVE v[held].seg <= v[j].seg
          BY <1>7
        <5>1. held <= j
          BY <2>1, <3>1 DEF Ahead
        <5>2. held < j \/ held = j
          BY <2>1, <5>1
        <5>3. held < j => v[held].seg < v[j].seg
          BY <1>1, <2>1, SegsDiffer
        <5> QED BY <2>1, <2>3, <5>2, <5>3
      <4>2. K = fits
        BY <3>1
      <4> QED BY <2>2, <2>4, <4>1, <4>2, LeastIs
    <3>2. CASE big
      <4>0. K = Roomiest(bs, fits)
        BY <3>2
      <4>1. \A y \in fits : bs[y].paras <= bs[v[held].seg].paras
        <5> SUFFICES ASSUME NEW j \in 1 .. len, HasRoom(v, need, j) PROVE bs[v[j].seg].paras <= bs[v[held].seg].paras
          BY <1>7
        <5> QED BY <1>1, <1>6, <2>1, <3>2 DEF Ahead
      <4>2. v[held].seg \in K
        BY <2>2, <4>0, <4>1 DEF Roomiest
      <4>3. \A y \in K : v[held].seg <= y
        <5> SUFFICES ASSUME NEW y \in K PROVE v[held].seg <= y
          OBVIOUS
        <5>1. y \in fits /\ bs[v[held].seg].paras <= bs[y].paras
          BY <2>2, <4>0 DEF Roomiest
        <5>2. PICK j \in 1 .. len : HasRoom(v, need, j) /\ y = v[j].seg
          BY <1>7, <5>1
        <5>3. v[held].paras <= v[j].paras /\ v[j].paras <= v[held].paras
              /\ (v[j].paras = v[held].paras => held <= j)
          BY <1>1, <1>6, <2>1, <3>2, <5>1, <5>2 DEF Ahead
        <5>4. held <= j
          BY <2>1, <2>3, <5>3
        <5>5. held < j \/ held = j
          BY <2>1, <5>4
        <5>6. held < j => v[held].seg < v[j].seg
          BY <1>1, <2>1, SegsDiffer
        <5> QED BY <2>1, <2>3, <5>2, <5>5, <5>6
      <4>4. K \subseteq Nat
        BY <2>4, <4>0 DEF Roomiest
      <4> HIDE DEF K
      <4> QED BY <4>2, <4>3, <4>4, LeastIs
    <3> QED BY <3>1, <3>2
  <2> HIDE DEF K
  <2>6. AllocIn(v, held, need, owner)
          = [seg |-> v[held].seg + 1, list |-> Taken(v, held, need, owner)]
    BY <1>9 DEF AllocIn, len
  <2>7. /\ InOrder(Taken(v, held, need, owner))
        /\ ToArena(Taken(v, held, need, owner)) = Claim(Trim(bs, v[held].seg, need), v[held].seg, owner)
    BY <1>1, <1>2, <2>1, TakenAgrees
  <2> DEFINE w == Taken(v, held, need, owner)
             cs == Claim(Trim(bs, v[held].seg, need), v[held].seg, owner)
  <2>8. /\ AllocIn(v, held, need, owner) = [seg |-> v[held].seg + 1, list |-> w]
        /\ InOrder(w) /\ ToArena(w) = cs
        /\ Alloc(bs, request, big, owner) = [seg |-> v[held].seg + 1, blocks |-> cs]
    BY <1>5, <2>2, <2>5, <2>6, <2>7
  <2> HIDE DEF w, cs
  <2> QED BY <1>4, <2>8
<1> QED BY <1>8, <1>9

(* mem_free.                                                               *)
LEMMA LoopFreeAgrees ==
  ASSUME NEW v, InOrder(v), NEW seg \in Nat, NEW bs, bs = ToArena(v)
  PROVE  /\ InOrder(LoopFree(v, seg).list)
         /\ LoopFree(v, seg).ok = Free(bs, seg).ok
         /\ ToArena(LoopFree(v, seg).list) = Free(bs, seg).blocks
<1> DEFINE i == LoopFind(v, seg)  w == [v EXCEPT ![i].used = FALSE]
<1>1. /\ seg - 1 \in DOMAIN bs => i \in DOMAIN v /\ v[i].seg = seg - 1 /\ i <= Len(v)
      /\ seg - 1 \notin DOMAIN bs => i > Len(v)
  BY FindFails
<1>2. Len(v) \in Nat /\ DOMAIN v = 1 .. Len(v)
  BY Length
<1> HIDE DEF i
<1>3. LoopFree(v, seg) = IF i > Len(v) THEN [ok |-> FALSE, list |-> v]
                         ELSE IF ~v[i].used THEN [ok |-> FALSE, list |-> v]
                         ELSE [ok |-> TRUE, list |-> LoopCoalesce(w)]
  BY DEF LoopFree, i
<1>4. CASE seg - 1 \notin DOMAIN bs
  BY <1>1, <1>3, <1>4 DEF Free, IsUsed
<1>5. CASE seg - 1 \in DOMAIN bs
  <2>1. i \in DOMAIN v /\ v[i].seg = seg - 1 /\ ~(i > Len(v)) /\ bs[seg - 1].used = v[i].used
    <3>1. i \in DOMAIN v /\ v[i].seg = seg - 1 /\ i <= Len(v)
      BY <1>1, <1>5
    <3>2. ~(i > Len(v))
      BY <1>2, <3>1
    <3>3. \A j \in DOMAIN v : bs[v[j].seg].used = v[j].used
      BY ArenaOf
    <3> QED BY <3>1, <3>2, <3>3
  <2>2. CASE ~v[i].used
    BY <1>3, <1>5, <2>1, <2>2 DEF Free, IsUsed
  <2>3. CASE v[i].used
    <3>1. InOrder(w) /\ ToArena(w) = [bs EXCEPT ![seg - 1] = FreeBlock(bs[seg - 1].paras)]
      BY <2>1, FreedAgrees
    <3> HIDE DEF w
    <3>2. InOrder(LoopCoalesce(w)) /\ ToArena(LoopCoalesce(w)) = Coalesce(ToArena(w))
      BY <3>1, LoopCoalesceAgrees
    <3> DEFINE fs == [bs EXCEPT ![seg - 1] = FreeBlock(bs[seg - 1].paras)]
    <3>3. Free(bs, seg) = [ok |-> TRUE, blocks |-> Coalesce(fs)]
      BY <1>5, <2>1, <2>3 DEF Free, IsUsed
    <3>4. ToArena(LoopCoalesce(w)) = Coalesce(fs)
      BY <3>1, <3>2
    <3> HIDE DEF fs
    <3> QED BY <1>3, <2>1, <2>3, <3>2, <3>3, <3>4
  <2> QED BY <2>2, <2>3
<1> QED BY <1>4, <1>5

(* The end of mem_own, once the block at index j begins at seg.            *)
LEMMA TakeAtAgrees ==
  ASSUME NEW v, InOrder(v), NEW j \in DOMAIN v, NEW seg \in Nat, v[j].seg = seg - 1,
         NEW need \in Nat, NEW owner \in Word, NEW bs, bs = ToArena(v)
  PROVE  /\ InOrder(TakeAt(v, j, seg, need, owner))
         /\ ToArena(TakeAt(v, j, seg, need, owner)) = Coalesce(Claim(Trim(bs, seg - 1, need), seg - 1, owner))
<1> DEFINE w == Taken(v, j, need, owner)
<1>1. InOrder(w) /\ ToArena(w) = Claim(Trim(bs, v[j].seg, need), v[j].seg, owner)
  BY TakenAgrees
<1> HIDE DEF w
<1>2. InOrder(LoopCoalesce(w)) /\ ToArena(LoopCoalesce(w)) = Coalesce(ToArena(w))
  BY <1>1, LoopCoalesceAgrees
<1>3. ~(j > Len(v)) /\ v[j].seg + 1 = seg
  BY Length
<1>4. TakeAt(v, j, seg, need, owner) = LoopCoalesce(w)
  BY <1>3 DEF TakeAt, w
<1> QED BY <1>1, <1>2, <1>4

(* mem_own.                                                                *)
LEMMA LoopOwnAgrees ==
  ASSUME NEW v, InOrder(v), NEW seg \in Nat, NEW need \in Nat, NEW owner \in Word,
         NEW bs, bs = ToArena(v)
  PROVE  /\ InOrder(LoopOwn(v, seg, need, owner))
         /\ ToArena(LoopOwn(v, seg, need, owner)) = Own(bs, seg, need, owner)
<1> DEFINE at == {j \in DOMAIN v : v[j].seg + 1 <= seg /\ seg < v[j].seg + 1 + v[j].paras}
           i  == First(v, at)  len == Len(v)
<1>1. len \in Nat /\ len >= 1 /\ DOMAIN v = 1 .. len
  BY Length
<1>2. at \subseteq 1 .. len
  BY <1>1
<1>3. /\ DOMAIN bs = {v[j].seg : j \in DOMAIN v}
      /\ \A j \in DOMAIN v : bs[v[j].seg].used = v[j].used /\ End(bs, v[j].seg) = v[j].seg + 1 + v[j].paras
      /\ IsTiling(bs)
  BY ArenaOf
<1>4. /\ \A j \in at : v[j].seg \in Containing(bs, seg)
      /\ \A s \in Containing(bs, seg) : \E j \in at : s = v[j].seg
  BY <1>3 DEF Containing
<1>5. LoopOwn(v, seg, need, owner) = IF need = 0 THEN v ELSE OwnIn(v, i, seg, need, owner)
  BY DEF LoopOwn
<1>6. /\ at # {} => i \in at
      /\ at = {} => i = len + 1
  <2> HIDE DEF at
  <2> QED BY <1>1, <1>2, FirstFacts
<1> HIDE DEF i
<1>7. CASE need = 0
  BY <1>5, <1>7 DEF Own
<1>8. CASE need # 0 /\ at = {}
  <2>1. i > Len(v) /\ Containing(bs, seg) = {}
    BY <1>1, <1>4, <1>6, <1>8
  <2>2. Own(bs, seg, need, owner) = bs
    BY <2>1 DEF Own
  <2>3. LoopOwn(v, seg, need, owner) = v
    BY <1>5, <1>8, <2>1 DEF OwnIn
  <2> QED BY <2>2, <2>3
<1>9. CASE need # 0 /\ at # {}
  <2> DEFINE s == v[i].seg
  <2>1. /\ i \in DOMAIN v /\ s + 1 <= seg /\ seg < s + 1 + v[i].paras /\ s \in Containing(bs, seg)
        /\ i \in 1 .. len /\ ~(i > Len(v)) /\ s \in DOMAIN bs
    <3>1. i \in at
      BY <1>6, <1>9
    <3> QED BY <1>1, <1>4, <3>1 DEF Containing
  <2>2. s \in Nat /\ v[i].paras \in Nat /\ bs[s].used = v[i].used
    BY <1>3, <2>1, RowFacts
  <2> HIDE DEF at
  <2>3. \A t \in Containing(bs, seg) : t = s
    BY <1>3, <2>1, ContainingUnique
  <2>4. CASE v[i].used
    <3>1. Own(bs, seg, need, owner) = bs
      BY <2>2, <2>3, <2>4 DEF Own
    <3>2. LoopOwn(v, seg, need, owner) = v
      BY <1>5, <1>9, <2>4 DEF OwnIn
    <3> QED BY <3>1, <3>2
  <2>5. CASE ~v[i].used
    <3> DEFINE k == seg - s - 2
    <3>1. OwnIn(v, i, seg, need, owner)
            = TakeAt(SplitBefore(v, i, seg), IF seg > s + 1 THEN i + 1 ELSE i, seg, need, owner)
      BY <2>1, <2>5 DEF OwnIn
    <3>2. (CHOOSE t \in Containing(bs, seg) : TRUE) = s
      BY <2>1, <2>3
    <3>3. ~(need = 0 \/ \A t \in Containing(bs, seg) : bs[t].used)
      BY <1>9, <2>1, <2>2, <2>5
    <3>4. Own(bs, seg, need, owner)
            = Coalesce(Claim(Trim(IF seg > s + 1 THEN Split(bs, s, k) ELSE bs, seg - 1, need), seg - 1, owner))
      BY <3>2, <3>3 DEF Own
    <3>5. CASE seg > s + 1
      <4>1. k \in Nat /\ k < v[i].paras /\ s + 1 + k = seg - 1 /\ seg - 1 - s - 1 = k
        <5>1. PICK x \in Nat : x = s
          BY <2>2
        <5>2. PICK y \in Nat : y = v[i].paras
          BY <2>2
        <5>3. x + 1 <= seg /\ seg < x + 1 + y /\ seg > x + 1 /\ k = seg - x - 2
          BY <2>1, <3>5, <5>1, <5>2
        <5> HIDE DEF k
        <5>4. k \in Nat /\ k < y /\ x + 1 + k = seg - 1 /\ seg - 1 - x - 1 = k
          BY <5>3
        <5> QED BY <5>1, <5>2, <5>4
      <4> HIDE DEF k
      <4> DEFINE u == LoopSplit(v, v[i].seg, k)
      <4>2. u \in Seq(Rows) /\ IsCut(v, i, k, u)
        BY <2>1, <4>1, LoopSplitCuts
      <4>3. InOrder(u) /\ ToArena(u) = Split(bs, v[i].seg, k)
        <5> HIDE DEF u
        <5> QED BY <2>1, <4>1, <4>2, CutAgrees
      <4>4. SplitBefore(v, i, seg) = u
        BY <3>5, <4>1 DEF SplitBefore
      <4> HIDE DEF u
      <4>5. i + 1 \in DOMAIN u /\ u[i + 1].seg = seg - 1
        <5>1. Len(u) = len + 1 /\ DOMAIN u = 1 .. Len(u)
          BY <4>2, <4>3, Length DEF IsCut
        <5>2. u[i + 1] = Row(s + 1 + k, FreeBlock(v[i].paras - k - 1))
          BY <4>2 DEF IsCut
        <5>3. u[i + 1].seg = s + 1 + k
          BY <5>2 DEF Row
        <5> QED BY <1>1, <2>1, <4>1, <5>1, <5>3
      <4>6. /\ InOrder(TakeAt(u, i + 1, seg, need, owner))
            /\ ToArena(TakeAt(u, i + 1, seg, need, owner))
                 = Coalesce(Claim(Trim(ToArena(u), seg - 1, need), seg - 1, owner))
        BY <4>3, <4>5, TakeAtAgrees
      <4>7. LoopOwn(v, seg, need, owner) = TakeAt(u, i + 1, seg, need, owner)
        BY <1>5, <1>9, <3>1, <3>5, <4>4
      <4>8. Own(bs, seg, need, owner) = Coalesce(Claim(Trim(Split(bs, s, k), seg - 1, need), seg - 1, owner))
        BY <3>4, <3>5
      <4> QED BY <4>3, <4>6, <4>7, <4>8
    <3>6. CASE ~(seg > s + 1)
      <4>1. s = seg - 1
        BY <2>1, <2>2, <3>6
      <4>2. SplitBefore(v, i, seg) = v
        BY <3>6 DEF SplitBefore
      <4>3. /\ InOrder(TakeAt(v, i, seg, need, owner))
            /\ ToArena(TakeAt(v, i, seg, need, owner))
                 = Coalesce(Claim(Trim(bs, seg - 1, need), seg - 1, owner))
        BY <2>1, <4>1, TakeAtAgrees
      <4>4. LoopOwn(v, seg, need, owner) = TakeAt(v, i, seg, need, owner)
        BY <1>5, <1>9, <3>1, <3>6, <4>2
      <4>5. Own(bs, seg, need, owner) = Coalesce(Claim(Trim(bs, seg - 1, need), seg - 1, owner))
        BY <3>4, <3>6
      <4> QED BY <4>3, <4>4, <4>5
    <3> QED BY <3>5, <3>6
  <2> QED BY <2>4, <2>5
<1> QED BY <1>7, <1>8, <1>9

Edge(v, k) == IF k <= Len(v) THEN v[k].seg ELSE HeapEnd

(* The free run behind a block stops where the loop stops.                 *)
LEMMA RunStops ==
  ASSUME NEW v, InOrder(v), NEW i \in DOMAIN v
  PROVE  /\ RunStop(v, i) \in i + 1 .. Len(v) + 1
         /\ RunEnd(ToArena(v), v[i].seg) = Edge(v, RunStop(v, i))
<1> DEFINE at == {k \in DOMAIN v : k > i /\ v[k].used}  k == RunStop(v, i)  len == Len(v)
           bs == ToArena(v)  s == v[i].seg
           E == {e \in {End(bs, t) : t \in {u \in DOMAIN bs : u >= s}} : ~IsFree(bs, e)}
<1>1. len \in Nat /\ len >= 1 /\ DOMAIN v = 1 .. len /\ i \in Nat /\ i <= len /\ i >= 1
  BY Length
<1>2. k = First(v, at) /\ at \subseteq 1 .. len
  BY <1>1 DEF RunStop
<1>3. /\ k \in at \union {len + 1} /\ k \in 1 .. len + 1
      /\ \A x \in at : k <= x
  <2> HIDE DEF at, k
  <2> QED BY <1>1, <1>2, FirstFacts
<1> HIDE DEF k
<1>4. k \in i + 1 .. len + 1 /\ k \in Nat /\ k - 1 \in i .. len /\ k - 1 \in 1 .. len
  BY <1>1, <1>3
<1>5. \A j \in i + 1 .. k - 1 : j \in DOMAIN v /\ ~v[j].used
  <2>1. \A j \in i + 1 .. k - 1 : j \in DOMAIN v /\ j > i /\ ~(k <= j)
    BY <1>1, <1>4
  <2> QED BY <1>3, <2>1
<1>6. k <= len => v[k].used /\ k \in DOMAIN v
  BY <1>1, <1>3
<1>7. /\ DOMAIN bs = {v[j].seg : j \in DOMAIN v}
      /\ \A j \in DOMAIN v : bs[v[j].seg].used = v[j].used /\ End(bs, v[j].seg) = v[j].seg + 1 + v[j].paras
  BY ArenaOf
<1> HIDE DEF bs, at
<1>8. \A j \in DOMAIN v : /\ End(bs, v[j].seg) = Edge(v, j + 1) /\ v[j].seg \in Nat /\ v[j].seg < HeapEnd
                          /\ v[j].seg < Edge(v, j + 1) /\ Edge(v, j + 1) \in Nat
  <2> SUFFICES ASSUME NEW j \in DOMAIN v
               PROVE  /\ End(bs, v[j].seg) = Edge(v, j + 1) /\ v[j].seg \in Nat /\ v[j].seg < HeapEnd
                      /\ v[j].seg < Edge(v, j + 1) /\ Edge(v, j + 1) \in Nat
    OBVIOUS
  <2>1. /\ v[j].seg + 1 + v[j].paras = Stop(v, j) /\ v[j].seg \in Nat /\ v[j].paras \in Nat
        /\ v[j].seg < HeapEnd
    BY RowFacts, InArena
  <2>2. Stop(v, j) = Edge(v, j + 1)
    <3>1. j < Len(v) <=> j + 1 <= Len(v)
      BY <1>1
    <3> QED BY <3>1 DEF Stop, Edge
  <2> QED BY <1>7, <2>1, <2>2
<1>9. Edge(v, k) \in E
  <2>1. k - 1 \in DOMAIN v /\ (k - 1) + 1 = k
    BY <1>1, <1>4
  <2>2. Edge(v, k) = End(bs, v[k - 1].seg)
    BY <1>8, <2>1
  <2>3. v[k - 1].seg >= s
    <3>1. i < k - 1 \/ i = k - 1
      BY <1>1, <1>4
    <3>2. i < k - 1 => s < v[k - 1].seg
      BY <2>1, SegsDiffer
    <3> QED BY <1>8, <2>1, <3>1, <3>2
  <2>4. ~IsFree(bs, Edge(v, k))
    <3>1. CASE k <= len
      BY <1>6, <1>7, <3>1 DEF IsFree, Edge
    <3>2. CASE ~(k <= len)
      <4>1. Edge(v, k) = HeapEnd
        BY <3>2 DEF Edge
      <4>2. HeapEnd \notin DOMAIN bs
        <5> SUFFICES ASSUME NEW j \in DOMAIN v, HeapEnd = v[j].seg PROVE FALSE
          BY <1>7
        <5> QED BY <1>8
      <4> QED BY <4>1, <4>2 DEF IsFree
    <3> QED BY <3>1, <3>2
  <2>5. v[k - 1].seg \in {u \in DOMAIN bs : u >= s}
    BY <1>7, <2>1, <2>3
  <2> QED BY <2>2, <2>4, <2>5
<1>10. \A e \in E : e \in Nat /\ Edge(v, k) <= e
  <2> SUFFICES ASSUME NEW j \in DOMAIN v, v[j].seg >= s, ~IsFree(bs, End(bs, v[j].seg))
               PROVE  Edge(v, j + 1) \in Nat /\ Edge(v, k) <= Edge(v, j + 1)
    BY <1>7, <1>8
  <2>1. j \in Nat /\ j <= len /\ i <= j
    <3>1. j < i => v[j].seg < s
      BY SegsDiffer
    <3>2. s \in Nat /\ v[j].seg \in Nat
      BY <1>8
    <3> QED BY <1>1, <3>1, <3>2
  <2>2. ~(j + 1 \in i + 1 .. k - 1)
    <3> SUFFICES ASSUME j + 1 \in i + 1 .. k - 1 PROVE FALSE
      OBVIOUS
    <3>1. j + 1 \in DOMAIN v /\ ~v[j + 1].used /\ j + 1 <= Len(v)
      BY <1>1, <1>5
    <3>2. End(bs, v[j].seg) = v[j + 1].seg
      BY <1>8, <3>1 DEF Edge
    <3> QED BY <1>7, <3>1, <3>2 DEF IsFree
  <2>3. k <= j + 1
    BY <1>1, <1>4, <2>1, <2>2
  <2>4. CASE k = j + 1
    BY <1>8, <2>4
  <2>5. CASE k < j + 1
    <3>1. k \in DOMAIN v /\ k <= len /\ (k < j \/ k = j)
      BY <1>1, <1>4, <2>1, <2>5
    <3>2. k < j => v[k].seg < v[j].seg
      BY <3>1, SegsDiffer
    <3>3. Edge(v, k) = v[k].seg
      BY <3>1 DEF Edge
    <3>4. /\ v[k].seg \in Nat /\ v[j].seg \in Nat /\ v[j].seg < Edge(v, j + 1)
          /\ Edge(v, j + 1) \in Nat
      BY <1>8, <3>1
    <3> QED BY <3>1, <3>2, <3>3, <3>4
  <2> QED BY <1>1, <1>4, <2>1, <2>3, <2>4, <2>5
<1>11. RunEnd(bs, s) = Least(E)
  BY DEF RunEnd
<1> HIDE DEF E
<1>12. Least(E) = Edge(v, k)
  BY <1>9, <1>10, LeastIs
<1> QED BY <1>4, <1>11, <1>12 DEF bs, k

(* mem_resize's avail.                                                     *)
LEMMA LoopAvailAgrees ==
  ASSUME NEW v, InOrder(v), NEW i \in DOMAIN v
  PROVE  /\ LoopAvail(v, i) = Avail(ToArena(v), v[i].seg)
         /\ LoopAvail(v, i) = Edge(v, RunStop(v, i)) - v[i].seg - 1
         /\ LoopAvail(v, i) \in Nat
<1> DEFINE len == Len(v)  a == v[i].paras
           S == [x \in (1 .. len) \X Nat |-> IF x[1] <= i THEN a ELSE x[2] + 1 + v[x[1]].paras]
<1>1. len \in Nat /\ len >= 1 /\ DOMAIN v = 1 .. len /\ i \in Nat /\ i >= 1 /\ i <= len
  BY Length
<1>2. \A k \in 1 .. len : v[k].paras \in Nat /\ v[k].seg \in Nat /\ v[k].seg + 1 + v[k].paras = Edge(v, k + 1)
  <2>1. \A k \in 1 .. len : v[k].paras \in Nat /\ v[k].seg \in Nat /\ v[k].seg + 1 + v[k].paras = Stop(v, k)
    BY <1>1, RowFacts
  <2>2. \A k \in 1 .. len : Stop(v, k) = Edge(v, k + 1)
    <3>1. \A k \in 1 .. len : k < Len(v) <=> k + 1 <= Len(v)
      BY <1>1
    <3> QED BY <3>1 DEF Stop, Edge
  <2> QED BY <2>1, <2>2
<1>3. a \in Nat
  BY <1>1, <1>2
<1> HIDE DEF a
<1>4. \A k \in 1 .. len : \A x \in Nat :
        S[<<k, x>>] = (IF k <= i THEN a ELSE x + 1 + v[k].paras) /\ S[<<k, x>>] \in Nat
  BY <1>2, <1>3, SMTT(20)
<1>5. Turning(S, len, Nat)
  BY <1>4 DEF Turning
<1> HIDE DEF S
<1>6. PICK f : IsRun(f, len, Nat, a, S)
  <2> HIDE DEF len
  <2> QED BY <1>1, <1>3, <1>5, LoopRuns
<1>7. f = [k \in 0 .. len |-> IF k <= i THEN a ELSE f[k - 1] + 1 + v[k].paras]
  <2>1. \A k \in 0 .. len : (k = 0 /\ k <= i) \/ k \in 1 .. len
    BY <1>1
  <2>2. \A k \in 1 .. len : k - 1 \in 0 .. len
    BY <1>1
  <2> HIDE DEF len
  <2>3. \A k \in 1 .. len : f[k - 1] \in Nat
    BY <1>6, <2>2 DEF IsRun
  <2>4. \A k \in 1 .. len : f[k] = (IF k <= i THEN a ELSE f[k - 1] + 1 + v[k].paras)
    BY <1>4, <1>6, <2>3 DEF IsRun
  <2>5. \A k \in 0 .. len : f[k] = (IF k <= i THEN a ELSE f[k - 1] + 1 + v[k].paras)
    BY <1>6, <2>1, <2>4 DEF IsRun
  <2> QED BY <1>6, <2>5 DEF IsRun
<1> DEFINE avail[k \in 0 .. Len(v)] == IF k <= i THEN v[i].paras ELSE avail[k-1] + 1 + v[k].paras
<1>8. avail = [k \in 0 .. Len(v) |-> IF k <= i THEN v[i].paras ELSE avail[k-1] + 1 + v[k].paras]
  BY <1>7, Zenon DEF a
<1>9. LoopAvail(v, i) = avail[RunStop(v, i) - 1]
  BY DEF LoopAvail
<1> HIDE DEF avail
<1> DEFINE D == {d \in Nat : i + d <= len => avail[i + d] + v[i].seg + 1 = Edge(v, i + d + 1) /\ avail[i + d] \in Nat}
<1>10. 0 \in D
  <2>1. i + 0 = i /\ i \in 0 .. len /\ i <= i
    BY <1>1
  <2>2. avail[i] = v[i].paras
    BY <1>8, <2>1
  <2>3. v[i].seg + 1 + v[i].paras = Edge(v, i + 1) /\ v[i].seg \in Nat /\ v[i].paras \in Nat
    BY <1>1, <1>2
  <2>4. avail[i] + v[i].seg + 1 = Edge(v, i + 1)
    BY <2>2, <2>3
  <2> QED BY <2>1, <2>2, <2>3, <2>4
<1>11. ASSUME NEW d \in Nat, d \in D PROVE d + 1 \in D
  <2> SUFFICES ASSUME i + (d + 1) <= len
               PROVE  /\ avail[i + (d + 1)] + v[i].seg + 1 = Edge(v, i + (d + 1) + 1)
                      /\ avail[i + (d + 1)] \in Nat
    OBVIOUS
  <2> DEFINE k == i + d + 1
  <2>1. /\ i + (d + 1) = k /\ i + d <= len /\ k - 1 = i + d /\ k \in 0 .. len /\ ~(k <= i)
        /\ k \in 1 .. len /\ k <= Len(v) /\ k \in Nat
    BY <1>1
  <2>2. avail[k - 1] + v[i].seg + 1 = Edge(v, k) /\ avail[k - 1] \in Nat
    BY <1>11, <2>1
  <2> HIDE DEF k, D
  <2>3. avail[k] = avail[k - 1] + 1 + v[k].paras
    BY <1>8, <2>1
  <2>4. Edge(v, k) = v[k].seg /\ v[k].seg + 1 + v[k].paras = Edge(v, k + 1)
        /\ v[k].seg \in Nat /\ v[k].paras \in Nat
    BY <1>2, <2>1 DEF Edge
  <2>5. v[i].seg \in Nat
    BY <1>1, <1>2
  <2>6. avail[k] + v[i].seg + 1 = Edge(v, k + 1) /\ avail[k] \in Nat
    <3>1. PICK x \in Nat : x = avail[k - 1]
      BY <2>2
    <3>2. PICK y \in Nat : y = v[k].seg
      BY <2>4
    <3>3. PICK z \in Nat : z = v[k].paras
      BY <2>4
    <3>4. PICK t \in Nat : t = v[i].seg
      BY <2>5
    <3>5. PICK q \in Nat : q = avail[k]
      <4>1. avail[k] \in Nat
        BY <2>2, <2>3, <2>4, SMTT(20)
      <4> QED BY <4>1
    <3>6. x + t + 1 = y /\ q = x + 1 + z /\ y + 1 + z = Edge(v, k + 1)
      BY <2>2, <2>3, <2>4, <3>1, <3>2, <3>3, <3>4, <3>5
    <3>7. q + t + 1 = y + 1 + z
      BY <3>6
    <3> QED BY <3>4, <3>5, <3>6, <3>7
  <2> QED BY <2>1, <2>6
<1> HIDE DEF D
<1>12. \A d \in Nat : d \in D
  BY <1>10, <1>11, Upwards
<1>13. RunStop(v, i) \in i + 1 .. len + 1 /\ RunEnd(ToArena(v), v[i].seg) = Edge(v, RunStop(v, i))
  BY RunStops
<1> DEFINE k == RunStop(v, i)
<1> HIDE DEF k
<1>14. k - 1 - i \in Nat /\ i + (k - 1 - i) = k - 1 /\ k - 1 <= len /\ (k - 1) + 1 = k
  BY <1>1, <1>13 DEF k
<1>15. avail[k - 1] + v[i].seg + 1 = Edge(v, k) /\ avail[k - 1] \in Nat
  <2>1. i + (k - 1 - i) + 1 = k
    BY <1>1, <1>13 DEF k
  <2>2. k - 1 - i \in D
    BY <1>12, <1>14
  <2>3. avail[i + (k - 1 - i)] + v[i].seg + 1 = Edge(v, i + (k - 1 - i) + 1) /\ avail[i + (k - 1 - i)] \in Nat
    BY <1>14, <2>2 DEF D
  <2> QED BY <1>14, <2>1, <2>3
<1>16. LoopAvail(v, i) = avail[k - 1]
  BY <1>9 DEF k
<1>17. v[i].seg \in Nat
  BY <1>1, <1>2
<1>18. avail[k - 1] = Edge(v, k) - v[i].seg - 1
  BY <1>15, <1>17
<1>19. Avail(ToArena(v), v[i].seg) = Edge(v, k) - v[i].seg - 1
  BY <1>13 DEF Avail, k
<1> QED BY <1>15, <1>16, <1>18, <1>19 DEF k

(* Absorbing the run behind a block.                                       *)
LEMMA ExtendAgrees ==
  ASSUME NEW v, InOrder(v), NEW i \in DOMAIN v, NEW bs, bs = ToArena(v),
         NEW w, w = Erase([v EXCEPT ![i].paras = LoopAvail(v, i)], i + 1, RunStop(v, i))
  PROVE  InOrder(w) /\ i \in DOMAIN w /\ w[i].seg = v[i].seg /\ ToArena(w) = Extend(bs, v[i].seg)
<1> DEFINE k == RunStop(v, i)  q == LoopAvail(v, i)  s == v[i].seg  len == Len(v)
<1>1. len \in Nat /\ len >= 1 /\ DOMAIN v = 1 .. len /\ i \in Nat /\ i >= 1 /\ i <= len
  BY Length
<1>2. k \in i + 1 .. len + 1 /\ RunEnd(bs, s) = Edge(v, k)
  BY RunStops
<1>3. q = Avail(bs, s) /\ q = Edge(v, k) - s - 1 /\ q \in Nat
  BY LoopAvailAgrees
<1>4. w = Erase([v EXCEPT ![i].paras = q], i + 1, k)
  OBVIOUS
<1> HIDE DEF k, q
<1>5. IsSwallowed(v, i, k, q, w)
  <2>1. q = (IF k <= Len(v) THEN v[k].seg ELSE HeapEnd) - v[i].seg - 1
    BY <1>3 DEF Edge
  <2>2. IsSwallowed(v, i, k, q, Erase([v EXCEPT ![i].paras = q], i + 1, k))
    BY <1>2, <2>1, SwallowAgrees
  <2> QED BY <1>4, <2>2
<1>6. /\ DOMAIN bs = {v[j].seg : j \in DOMAIN v}
      /\ bs = [t \in DOMAIN bs |-> bs[t]]
  BY ArenaCells
<1>7. {v[j].seg : j \in i + 1 .. k - 1} = {u \in DOMAIN bs : s < u /\ u < RunEnd(bs, s)}
  <2>1. ASSUME NEW j \in DOMAIN v PROVE j \in i + 1 .. k - 1 <=> s < v[j].seg /\ v[j].seg < Edge(v, k)
    <3>1. i < j <=> s < v[j].seg
      BY SegsDiffer
    <3>2. j < k <=> v[j].seg < Edge(v, k)
      <4>1. CASE k <= len
        <5>1. k \in DOMAIN v /\ Edge(v, k) = v[k].seg
          BY <1>1, <1>2, <4>1 DEF Edge
        <5> QED BY <5>1, SegsDiffer
      <4>2. CASE ~(k <= len)
        <5>1. Edge(v, k) = HeapEnd /\ v[j].seg < HeapEnd
          BY <4>2, InArena DEF Edge
        <5>2. j < k
          BY <1>1, <1>2, <4>2
        <5> QED BY <5>1, <5>2
      <4> QED BY <4>1, <4>2
    <3>3. j \in Nat /\ k \in Nat /\ (j \in i + 1 .. k - 1 <=> i < j /\ j < k)
      BY <1>1, <1>2
    <3> QED BY <3>1, <3>2, <3>3
  <2>2. \A j \in i + 1 .. k - 1 : j \in DOMAIN v
    BY <1>1, <1>2
  <2> HIDE DEF s
  <2> QED BY <1>2, <1>6, <2>1, <2>2
<1>8. ToArena(w) = [t \in DOMAIN bs \ {v[j].seg : j \in i + 1 .. k - 1} |->
                      IF t = s THEN [bs[t] EXCEPT !.paras = q] ELSE bs[t]]
  BY <1>5 DEF IsSwallowed
<1>9. Extend(bs, s) = [t \in DOMAIN bs \ {u \in DOMAIN bs : s < u /\ u < RunEnd(bs, s)} |->
                      IF t = s THEN [bs[s] EXCEPT !.paras = q] ELSE bs[t]]
  BY <1>3 DEF Extend
<1>10. ToArena(w) = Extend(bs, s)
  <2> DEFINE D == DOMAIN bs \ {v[j].seg : j \in i + 1 .. k - 1}
  <2>1. D = DOMAIN bs \ {u \in DOMAIN bs : s < u /\ u < RunEnd(bs, s)}
    BY <1>7
  <2>2. Extend(bs, s) = [t \in D |-> IF t = s THEN [bs[s] EXCEPT !.paras = q] ELSE bs[t]]
    BY <1>9, <2>1
  <2>3. ToArena(w) = [t \in D |-> IF t = s THEN [bs[t] EXCEPT !.paras = q] ELSE bs[t]]
    BY <1>8
  <2> HIDE DEF D, s
  <2>4. [t \in D |-> IF t = s THEN [bs[t] EXCEPT !.paras = q] ELSE bs[t]]
          = [t \in D |-> IF t = s THEN [bs[s] EXCEPT !.paras = q] ELSE bs[t]]
    OBVIOUS
  <2> QED BY <2>2, <2>3, <2>4
<1>11. w[i].seg = s
  <2>1. v[i] \in Rows /\ w[i] = [v[i] EXCEPT !.paras = q]
    BY <1>5, RowFacts DEF IsSwallowed
  <2>2. [v[i] EXCEPT !.paras = q].seg = v[i].seg
    BY <1>3, <2>1, RowResized, Zenon
  <2> QED BY <2>1, <2>2
<1> QED BY <1>5, <1>10, <1>11 DEF IsSwallowed

(* mem_resize, from the list in which the block has been found.            *)
ResizeOf(b1, s, need) ==
  CASE s \notin DOMAIN b1 -> [ok |-> FALSE, blocks |-> b1]
    [] s \in DOMAIN b1 /\ need = b1[s].paras -> [ok |-> TRUE, blocks |-> b1]
    [] s \in DOMAIN b1 /\ need < b1[s].paras -> [ok |-> TRUE, blocks |-> Coalesce(Split(b1, s, need))]
    [] s \in DOMAIN b1 /\ need > b1[s].paras /\ need > Avail(b1, s) -> [ok |-> FALSE, blocks |-> b1]
    [] OTHER -> [ok |-> TRUE, blocks |-> Coalesce(Trim(Extend(b1, s), s, need))]

(* mem_resize once the block is found: it shrinks, stays, grows over the   *)
(* free run behind it, or fails.                                           *)
LEMMA ResizeInAgrees ==
  ASSUME NEW v, InOrder(v), NEW seg \in Nat, NEW need \in Nat, NEW bs, bs = ToArena(v)
  PROVE  /\ InOrder(ResizeIn(v, seg, need).list)
         /\ ResizeIn(v, seg, need).ok = ResizeOf(bs, seg - 1, need).ok
         /\ ToArena(ResizeIn(v, seg, need).list) = ResizeOf(bs, seg - 1, need).blocks
<1> DEFINE i == LoopFind(v, seg)  s == seg - 1
<1>1. /\ s \in DOMAIN bs => i \in DOMAIN v /\ v[i].seg = s /\ i <= Len(v)
      /\ s \notin DOMAIN bs => i > Len(v)
  BY FindFails
<1> DEFINE r == ResizeIn(v, seg, need)  z == ResizeOf(bs, s, need)
<1>2. r = ResizeAt(v, i, need) /\ z = ResizeOf(bs, s, need)
  BY DEF ResizeIn
<1>3. Len(v) \in Nat /\ DOMAIN v = 1 .. Len(v)
  BY Length
<1> HIDE DEF i, s, r, z
<1> SUFFICES InOrder(r.list) /\ r.ok = z.ok /\ ToArena(r.list) = z.blocks
  BY DEF r, z, s
<1>4. CASE s \notin DOMAIN bs
  <2>1. ResizeAt(v, i, need) = [ok |-> FALSE, list |-> v]
    BY <1>1, <1>4 DEF ResizeAt
  <2>2. ResizeOf(bs, s, need) = [ok |-> FALSE, blocks |-> bs]
    BY <1>4 DEF ResizeOf
  <2> QED BY <1>2, <2>1, <2>2
<1>5. CASE s \in DOMAIN bs
  <2>1. i \in DOMAIN v /\ v[i].seg = s /\ ~(i > Len(v))
    BY <1>1, <1>3, <1>5
  <2>2. \A j \in DOMAIN v : bs[v[j].seg].paras = v[j].paras /\ v[j].paras \in Nat
    BY ArenaOf, RowFacts
  <2>3. bs[s].paras = v[i].paras /\ v[i].paras \in Nat
    BY <2>1, <2>2
  <2>4. CASE need = v[i].paras
    <3>1. ResizeAt(v, i, need) = [ok |-> TRUE, list |-> v]
      BY <2>1, <2>3, <2>4 DEF ResizeAt
    <3>2. ResizeOf(bs, s, need) = [ok |-> TRUE, blocks |-> bs]
      BY <1>5, <2>3, <2>4 DEF ResizeOf
    <3> QED BY <1>2, <3>1, <3>2
  <2>5. CASE need < v[i].paras
    <3> DEFINE w == LoopSplit(v, v[i].seg, need)
    <3>1. w \in Seq(Rows) /\ IsCut(v, i, need, w)
      BY <2>1, <2>5, LoopSplitCuts
    <3> HIDE DEF w
    <3>2. InOrder(w) /\ ToArena(w) = Split(bs, v[i].seg, need)
      BY <2>1, <2>5, <3>1, CutAgrees
    <3>3. InOrder(LoopCoalesce(w)) /\ ToArena(LoopCoalesce(w)) = Coalesce(ToArena(w))
      BY <3>2, LoopCoalesceAgrees
    <3>4. ResizeAt(v, i, need) = [ok |-> TRUE, list |-> LoopCoalesce(w)]
      BY <2>1, <2>5 DEF ResizeAt, w
    <3>5. ResizeOf(bs, s, need) = [ok |-> TRUE, blocks |-> Coalesce(Split(bs, s, need))]
      <4>1. need # bs[s].paras /\ need < bs[s].paras /\ ~(need > bs[s].paras)
        BY <2>3, <2>5
      <4> QED BY <1>5, <4>1 DEF ResizeOf
    <3> QED BY <1>2, <2>1, <3>2, <3>3, <3>4, <3>5
  <2>6. CASE need > v[i].paras
    <3>1. need # bs[s].paras /\ ~(need < bs[s].paras) /\ need > bs[s].paras
      BY <2>3, <2>6
    <3>2. LoopAvail(v, i) = Avail(bs, s) /\ LoopAvail(v, i) \in Nat
      BY <2>1, LoopAvailAgrees
    <3>3. ResizeAt(v, i, need) = GrowOver(v, i, need)
      <4>1. need # v[i].paras /\ ~(need < v[i].paras)
        BY <2>3, <2>6
      <4> QED BY <2>1, <4>1 DEF ResizeAt
    <3>4. CASE need > Avail(bs, s)
      <4>1. GrowOver(v, i, need) = [ok |-> FALSE, list |-> v]
        BY <3>2, <3>4 DEF GrowOver
      <4>2. ResizeOf(bs, s, need) = [ok |-> FALSE, blocks |-> bs]
        BY <1>5, <3>1, <3>4 DEF ResizeOf
      <4> QED BY <1>2, <3>3, <4>1, <4>2
    <3>5. CASE ~(need > Avail(bs, s))
      <4> DEFINE u == Erase([v EXCEPT ![i].paras = LoopAvail(v, i)], i + 1, RunStop(v, i))
                 w == SplitAfter(u, i, need)
      <4>1. InOrder(u) /\ i \in DOMAIN u /\ u[i].seg = v[i].seg /\ ToArena(u) = Extend(bs, v[i].seg)
        BY <2>1, ExtendAgrees
      <4>2. GrowOver(v, i, need) = [ok |-> TRUE, list |-> LoopCoalesce(w)]
        <5>1. ~(LoopAvail(v, i) < need)
          BY <3>2, <3>5
        <5> QED BY <5>1 DEF GrowOver
      <4> HIDE DEF u
      <4>3. InOrder(w) /\ ToArena(w) = Trim(ToArena(u), u[i].seg, need)
        BY <4>1, TrimAgrees
      <4> HIDE DEF w
      <4>4. InOrder(LoopCoalesce(w)) /\ ToArena(LoopCoalesce(w)) = Coalesce(ToArena(w))
        BY <4>3, LoopCoalesceAgrees
      <4>5. ResizeOf(bs, s, need) = [ok |-> TRUE, blocks |-> Coalesce(Trim(Extend(bs, s), s, need))]
        BY <1>5, <3>1, <3>5 DEF ResizeOf
      <4> QED BY <1>2, <2>1, <3>3, <4>1, <4>2, <4>3, <4>4, <4>5
    <3> QED BY <3>4, <3>5
  <2> QED BY <2>3, <2>4, <2>5, <2>6
<1> QED BY <1>4, <1>5

(* mem_resize, which first asserts a block it does not find.               *)
LEMMA LoopResizeAgrees ==
  ASSUME NEW v, InOrder(v), NEW seg \in Nat, NEW need \in Nat, NEW owner \in Word,
         NEW bs, bs = ToArena(v)
  PROVE  /\ InOrder(LoopResize(v, seg, need, owner).list)
         /\ LoopResize(v, seg, need, owner).ok = Resize(bs, seg, need, owner).ok
         /\ ToArena(LoopResize(v, seg, need, owner).list) = Resize(bs, seg, need, owner).blocks
<1> DEFINE u == IF LoopFind(v, seg) > Len(v) THEN LoopOwn(v, seg, 1, owner) ELSE v
           b1 == IF IsBlock(bs, seg) THEN bs ELSE Own(bs, seg, 1, owner)
<1>1. LoopResize(v, seg, need, owner) = ResizeIn(u, seg, need)
  BY DEF LoopResize
<1>2. Resize(bs, seg, need, owner) = ResizeOf(b1, seg - 1, need)
  BY DEF Resize, ResizeOf
<1>3. LoopFind(v, seg) > Len(v) <=> ~IsBlock(bs, seg)
  <2>1. /\ seg - 1 \in DOMAIN bs => LoopFind(v, seg) \in DOMAIN v /\ LoopFind(v, seg) <= Len(v)
        /\ seg - 1 \notin DOMAIN bs => LoopFind(v, seg) > Len(v)
    BY FindFails
  <2>2. Len(v) \in Nat /\ DOMAIN v = 1 .. Len(v)
    BY Length
  <2>3. LoopFind(v, seg) \in DOMAIN v => ~(LoopFind(v, seg) > Len(v))
    BY <2>2
  <2> QED BY <2>1, <2>3 DEF IsBlock
<1>4. 1 \in Nat
  OBVIOUS
<1>5. InOrder(LoopOwn(v, seg, 1, owner)) /\ ToArena(LoopOwn(v, seg, 1, owner)) = Own(bs, seg, 1, owner)
  BY <1>4, LoopOwnAgrees
<1>6. InOrder(u) /\ ToArena(u) = b1
  BY <1>3, <1>5
<1> HIDE DEF u, b1
<1>7. /\ InOrder(ResizeIn(u, seg, need).list)
      /\ ResizeIn(u, seg, need).ok = ResizeOf(b1, seg - 1, need).ok
      /\ ToArena(ResizeIn(u, seg, need).list) = ResizeOf(b1, seg - 1, need).blocks
  BY <1>6, ResizeInAgrees, ZenonT(60)
<1> QED BY <1>1, <1>2, <1>7

(* What a call returns, as the two parts compared.                         *)
LEMMA AllocParts ==
  ASSUME NEW bs, NEW need, NEW big, NEW owner
  PROVE  Alloc(bs, need, big, owner)
           = [seg |-> Alloc(bs, need, big, owner).seg, blocks |-> Alloc(bs, need, big, owner).blocks]
<1> DEFINE k == AtLeastOne(need)  fits == Fitting(bs, k)
           held == Least(IF big THEN Roomiest(bs, fits) ELSE fits)
<1>1. Alloc(bs, need, big, owner)
        = IF fits = {} THEN [seg |-> 0, blocks |-> bs]
          ELSE [seg |-> held + 1, blocks |-> Claim(Trim(bs, held, k), held, owner)]
  BY DEF Alloc
<1> HIDE DEF k, fits, held
<1> QED BY <1>1

(* What Free and Resize return is their two parts.                         *)
LEMMA FreeParts ==
  ASSUME NEW bs, NEW seg
  PROVE  Free(bs, seg) = [ok |-> Free(bs, seg).ok, blocks |-> Free(bs, seg).blocks]
<1> DEFINE cs == Coalesce([bs EXCEPT ![seg - 1] = FreeBlock(@.paras)])
           r  == Free(bs, seg)
<1>1. r = IF IsUsed(bs, seg - 1) THEN [ok |-> TRUE, blocks |-> cs] ELSE [ok |-> FALSE, blocks |-> bs]
  BY DEF Free
<1> HIDE DEF cs, r
<1>2. r = [ok |-> r.ok, blocks |-> r.blocks]
  BY <1>1
<1> QED BY <1>2 DEF r

(* The same of Resize.                                                     *)
LEMMA ResizeParts ==
  ASSUME NEW bs, NEW seg, NEW need, NEW owner
  PROVE  Resize(bs, seg, need, owner)
           = [ok |-> Resize(bs, seg, need, owner).ok, blocks |-> Resize(bs, seg, need, owner).blocks]
<1> DEFINE b1 == IF IsBlock(bs, seg) THEN bs ELSE Own(bs, seg, 1, owner)  s == seg - 1
           r == Resize(bs, seg, need, owner)
           x == Coalesce(Split(b1, s, need))  y == Coalesce(Trim(Extend(b1, s), s, need))
<1>1. r = ResizeOf(b1, s, need)
  BY DEF Resize, ResizeOf
<1>2. ResizeOf(b1, s, need) \in {[ok |-> FALSE, blocks |-> b1], [ok |-> TRUE, blocks |-> b1],
                              [ok |-> TRUE, blocks |-> x], [ok |-> TRUE, blocks |-> y]}
  <2> HIDE DEF b1, s, r
  <2> QED BY DEF ResizeOf
<1> HIDE DEF b1, s, x, y, r
<1>3. r = [ok |-> r.ok, blocks |-> r.blocks]
  BY <1>1, <1>2
<1> QED BY <1>3 DEF r

(* The arguments the calls are compared on.                                *)
LEMMA ArgumentsAreNat == Segments \subseteq Nat /\ Sizes \subseteq Nat /\ Owners \subseteq Word
BY ArenaAssumption, OwnersAssumption DEF Segments, Sizes

(* The loops agree on every vector in order.                               *)
LEMMA InOrderAgrees == InOrder(list) => LoopsAgree
<1> SUFFICES ASSUME InOrder(list) PROVE LoopsAgree
  OBVIOUS
<1> DEFINE bs == ToArena(list)
<1>1. ListInOrder
  BY RowFacts DEF ListInOrder, Stop
<1>2. ToArena(LoopCoalesce(list)) = Coalesce(bs)
  BY LoopCoalesceAgrees
<1>3. LoopLargest(list) = Largest(bs)
  BY LoopLargestAgrees
<1>4. ASSUME NEW need \in Sizes, NEW o \in Owners, NEW b \in BOOLEAN
      PROVE  [seg |-> LoopAlloc(list, need, b, o).seg, blocks |-> ToArena(LoopAlloc(list, need, b, o).list)]
               = Alloc(bs, need, b, o)
  <2>1. need \in Nat /\ o \in Word
    BY ArgumentsAreNat
  <2>2. /\ LoopAlloc(list, need, b, o).seg = Alloc(bs, need, b, o).seg
        /\ ToArena(LoopAlloc(list, need, b, o).list) = Alloc(bs, need, b, o).blocks
    BY <2>1, LoopAllocAgrees
  <2>3. Alloc(bs, need, b, o) = [seg |-> Alloc(bs, need, b, o).seg, blocks |-> Alloc(bs, need, b, o).blocks]
    BY AllocParts, Zenon
  <2> QED BY <2>2, <2>3, Zenon
<1>5. ASSUME NEW need \in Sizes, NEW o \in Owners, NEW s \in Segments
      PROVE  /\ [ok |-> LoopResize(list, s, need, o).ok, blocks |-> ToArena(LoopResize(list, s, need, o).list)]
                  = Resize(bs, s, need, o)
             /\ ToArena(LoopOwn(list, s, need, o)) = Own(bs, s, need, o)
  <2>1. need \in Nat /\ o \in Word /\ s \in Nat
    BY ArgumentsAreNat
  <2>2. /\ LoopResize(list, s, need, o).ok = Resize(bs, s, need, o).ok
        /\ ToArena(LoopResize(list, s, need, o).list) = Resize(bs, s, need, o).blocks
    BY <2>1, LoopResizeAgrees
  <2>3. Resize(bs, s, need, o) = [ok |-> Resize(bs, s, need, o).ok, blocks |-> Resize(bs, s, need, o).blocks]
    BY ResizeParts, Zenon
  <2>4. ToArena(LoopOwn(list, s, need, o)) = Own(bs, s, need, o)
    BY <2>1, LoopOwnAgrees
  <2> QED BY <2>2, <2>3, <2>4, Zenon
<1>6. ASSUME NEW s \in Segments
      PROVE  [ok |-> LoopFree(list, s).ok, blocks |-> ToArena(LoopFree(list, s).list)] = Free(bs, s)
  <2>1. s \in Nat
    BY ArgumentsAreNat
  <2>2. /\ LoopFree(list, s).ok = Free(bs, s).ok
        /\ ToArena(LoopFree(list, s).list) = Free(bs, s).blocks
    BY <2>1, LoopFreeAgrees
  <2>3. Free(bs, s) = [ok |-> Free(bs, s).ok, blocks |-> Free(bs, s).blocks]
    BY FreeParts, Zenon
  <2> QED BY <2>2, <2>3, Zenon
<1> HIDE DEF bs
<1>7. \A need \in Sizes, o \in Owners :
        /\ \A b \in BOOLEAN :
             [seg |-> LoopAlloc(list, need, b, o).seg, blocks |-> ToArena(LoopAlloc(list, need, b, o).list)]
               = Alloc(bs, need, b, o)
        /\ \A s \in Segments :
             /\ [ok |-> LoopResize(list, s, need, o).ok, blocks |-> ToArena(LoopResize(list, s, need, o).list)]
                  = Resize(bs, s, need, o)
             /\ ToArena(LoopOwn(list, s, need, o)) = Own(bs, s, need, o)
  BY <1>4, <1>5, Zenon
<1> QED BY <1>1, <1>2, <1>3, <1>6, <1>7, Zenon DEF LoopsAgree, bs

(* Each vector a behaviour begins with is in order.                        *)
LEMMA ListInitInOrder == ListInit => InOrder(list)
<1> SUFFICES ASSUME NEW k \in 1 .. HeapEnd - ArenaMcb, NEW at \in [1 .. k -> Paragraphs],
                    at[1] = ArenaMcb, \A i \in 1 .. k - 1 : at[i] < at[i+1],
                    NEW busy \in [1 .. k -> BOOLEAN],
                    list = [i \in 1 .. k |->
                              Row(at[i], [paras |-> (IF i < k THEN at[i+1] ELSE HeapEnd) - at[i] - 1,
                                          owner |-> 0, used |-> busy[i]])]
             PROVE  InOrder(list)
  BY DEF ListInit
<1>1. k \in Nat /\ k >= 1 /\ ArenaMcb \in Nat /\ HeapEnd \in Nat /\ 0 \in Word
  BY ArenaAssumption DEF Word, MaxWord
<1>2. \A i \in 1 .. k : at[i] \in Nat /\ at[i] < HeapEnd
  BY <1>1 DEF Paragraphs
<1> DEFINE Above(i) == IF i < k THEN at[i+1] ELSE HeapEnd
<1>3. \A i \in 1 .. k : Above(i) \in Nat /\ at[i] < Above(i)
  <2> SUFFICES ASSUME NEW i \in 1 .. k PROVE Above(i) \in Nat /\ at[i] < Above(i)
    OBVIOUS
  <2>1. CASE i < k
    <3>1. i \in 1 .. k - 1 /\ i + 1 \in 1 .. k
      BY <1>1, <2>1
    <3> QED BY <1>2, <2>1, <3>1
  <2>2. CASE ~(i < k)
    BY <1>1, <1>2, <2>2
  <2> QED BY <2>1, <2>2
<1> DEFINE gap == [i \in 1 .. k |-> Above(i) - at[i] - 1]
<1>4. \A i \in 1 .. k : gap[i] \in Nat /\ at[i] + 1 + gap[i] = Above(i)
  <2> SUFFICES ASSUME NEW i \in 1 .. k PROVE gap[i] \in Nat /\ at[i] + 1 + gap[i] = Above(i)
    OBVIOUS
  <2>1. gap[i] = Above(i) - at[i] - 1
    OBVIOUS
  <2> HIDE DEF gap, Above
  <2> QED BY <1>2, <1>3, <2>1
<1>5. list = [i \in 1 .. k |-> Row(at[i], [paras |-> gap[i], owner |-> 0, used |-> busy[i]])]
  OBVIOUS
<1> HIDE DEF gap
<1>6. list = [i \in 1 .. k |-> [seg |-> at[i], paras |-> gap[i], owner |-> 0, used |-> busy[i]]]
  BY <1>5 DEF Row
<1>7. \A i \in 1 .. k : [seg |-> at[i], paras |-> gap[i], owner |-> 0, used |-> busy[i]] \in Rows
  BY <1>1, <1>2, <1>4 DEF Rows
<1>8. list \in Seq(Rows) /\ Len(list) = k
  <2>1. list \in [1 .. k -> Rows]
    BY <1>6, <1>7
  <2> QED BY <1>1, <2>1, LenProperties, SeqDef
<1>9. \A i \in 1 .. k : list[i].seg = at[i] /\ list[i].paras = gap[i]
  BY <1>6
<1>10. \A i \in 1 .. k : Stop(list, i) = Above(i)
  <2>1. \A i \in 1 .. k : i < k => i + 1 \in 1 .. k
    BY <1>1
  <2> QED BY <1>8, <1>9, <2>1 DEF Stop
<1> QED BY <1>1, <1>4, <1>8, <1>9, <1>10 DEF InOrder

(* Each call leaves a vector in order.                                     *)
LEMMA ListStepInOrder == InOrder(list) /\ [ListNext]_list => InOrder(list)'
<1> SUFFICES ASSUME InOrder(list), [ListNext]_list PROVE InOrder(list')
  BY DEF InOrder, Stop
<1>1. ASSUME NEW need \in Sizes, NEW b \in BOOLEAN, NEW o \in Owners, list' = LoopAlloc(list, need, b, o).list
      PROVE  InOrder(list')
  <2>1. need \in Nat /\ o \in Word
    BY ArgumentsAreNat
  <2>2. InOrder(LoopAlloc(list, need, b, o).list)
    BY <2>1, LoopAllocAgrees
  <2> QED BY <1>1, <2>2, Zenon
<1>2. ASSUME NEW s \in Segments, list' = LoopFree(list, s).list PROVE InOrder(list')
  <2>1. InOrder(LoopFree(list, s).list)
    BY ArgumentsAreNat, LoopFreeAgrees
  <2> QED BY <1>2, <2>1, Zenon
<1>3. ASSUME NEW s \in Segments, NEW need \in Sizes, NEW o \in Owners, list' = LoopResize(list, s, need, o).list
      PROVE  InOrder(list')
  <2>1. need \in Nat /\ o \in Word /\ s \in Nat
    BY ArgumentsAreNat
  <2>2. InOrder(LoopResize(list, s, need, o).list)
    BY <2>1, LoopResizeAgrees
  <2> QED BY <1>3, <2>2, Zenon
<1>4. ASSUME NEW s \in Segments, NEW need \in Sizes, NEW o \in Owners, list' = LoopOwn(list, s, need, o)
      PROVE  InOrder(list')
  <2>1. need \in Nat /\ o \in Word /\ s \in Nat
    BY ArgumentsAreNat
  <2>2. InOrder(LoopOwn(list, s, need, o))
    BY <2>1, LoopOwnAgrees
  <2> QED BY <1>4, <2>2, Zenon
<1>5. CASE list' = list
  BY <1>5, Zenon
<1> QED BY <1>1, <1>2, <1>3, <1>4, <1>5, Zenon DEF ListNext

(* However the guest calls the allocator, mem_own, mem_alloc_at, mem_free, *)
(* mem_resize, mem_largest and mem_coalesce (src/dos.cpp) do to the vector *)
(* what module Arena says of the function of MCBs it stands for, for an    *)
(* arena of any size and a vector of any length.                           *)
THEOREM LoopsDoAgree == ListSpec => []LoopsAgree
<1>1. ListInit => InOrder(list)
  BY ListInitInOrder
<1>2. InOrder(list) /\ [ListNext]_list => InOrder(list)'
  BY ListStepInOrder
<1>3. InOrder(list) => LoopsAgree
  BY InOrderAgrees
<1> QED BY <1>1, <1>2, <1>3, PTL DEF ListSpec

=============================================================================
