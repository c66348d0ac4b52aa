------------------------------ MODULE CpuProofs ------------------------------
(***************************************************************************)
(* Theorems about the interpreter's control transfers (CpuGates) and its   *)
(* floating-point stack (FpuStack).                                        *)
(***************************************************************************)
EXTENDS CpuGates, FpuStack, TLAPS

----------------------------------------------------------------------------
(* Calls within calls.  A call in progress, and the ring its handler       *)
(* entered: that of the next call's caller, or of what runs now.           *)
Call == [how : {"int", "far"}, cs : Rings, ip : Places, ss : Rings, sp : 0 .. Top,
         intOn : BOOLEAN, drop : 0 .. MaxParams, frame : 0 .. Top]

Words == [Rings -> [0 .. Top - 1 -> Int]]

Entered(cl, here, k) == IF k < Len(cl) THEN cl[k + 1].cs ELSE here

(* The words call c left on ring r's stack are still there.                *)
Holds(st, r, c) ==
  /\ c.frame + 2 <= Top
  /\ st[r][c.frame] = c.ip /\ st[r][c.frame + 1] = c.cs
  /\ c.how = "far" => r = c.cs /\ c.frame + 2 + c.drop = c.sp
  /\ c.how = "int" =>
       /\ c.frame + 3 <= Top
       /\ st[r][c.frame + 2] = Bit(c.intOn)
       /\ r = c.cs => c.frame + 3 = c.sp
       /\ r # c.cs => /\ c.frame + 5 = Top
                      /\ st[r][c.frame + 3] = c.sp /\ st[r][c.frame + 4] = c.ss

(* Calls go inwards only, each finds its words intact, and on one ring a   *)
(* later call is below an earlier one; what runs now is below them all.    *)
Nesting(cl, st, here, top) ==
  /\ \A k \in DOMAIN cl : cl[k].ss = cl[k].cs /\ cl[k].cs >= here
  /\ \A j, k \in DOMAIN cl : j < k => cl[j].cs >= cl[k].cs
  /\ \A k \in DOMAIN cl : Holds(st, Entered(cl, here, k), cl[k])
  /\ \A j, k \in DOMAIN cl :
       j < k /\ Entered(cl, here, j) = cl[k].cs => cl[k].sp <= cl[j].frame
  /\ \A k \in DOMAIN cl : Entered(cl, here, k) = here => top <= cl[k].frame

GatesInv ==
  /\ cs \in Rings /\ ss = cs /\ sp \in 0 .. Top /\ ip \in Places /\ intOn \in BOOLEAN
  /\ stacks \in Words
  /\ calls \in Seq(Call)
  /\ Nesting(calls, stacks, cs, sp)

(* Facts the arithmetic needs.                                             *)
LEMMA GateNumbers ==
  /\ Rings \subseteq Int /\ 0 \in Rings /\ Outer \in Rings /\ 0 < Outer
  /\ Top \in Nat /\ MaxParams \in Nat /\ Places \subseteq Int
  /\ \A r \in Rings : r = 0 \/ r = Outer
BY GatesAssumption DEF Rings

(* The fields of a call that is outstanding have their types.              *)
LEMMA CallFields ==
  ASSUME NEW c \in Call
  PROVE  /\ c.cs \in Rings /\ c.cs \in Int /\ c.ss \in Rings /\ c.ip \in Places
         /\ c.frame \in Nat /\ c.frame <= Top /\ c.sp \in Nat /\ c.sp <= Top
         /\ c.frame \in Int /\ c.sp \in Int
         /\ c.how \in {"int", "far"} /\ c.intOn \in BOOLEAN /\ c.drop \in Nat
<1>1. /\ c.cs \in Rings /\ c.ss \in Rings /\ c.ip \in Places /\ c.frame \in 0 .. Top
      /\ c.sp \in 0 .. Top /\ c.drop \in 0 .. MaxParams
      /\ c.how \in {"int", "far"} /\ c.intOn \in BOOLEAN
  BY DEF Call
<1>2. /\ c.cs \in Int /\ c.frame \in Nat /\ c.frame <= Top /\ c.sp \in Nat /\ c.sp <= Top
      /\ c.frame \in Int /\ c.sp \in Int /\ c.drop \in Nat
  <2>1. /\ c.cs \in Rings /\ c.frame \in 0 .. Top /\ c.sp \in 0 .. Top /\ c.drop \in 0 .. MaxParams
    BY <1>1
  <2>2. c.cs \in Int
    BY <2>1, GateNumbers
  <2>3. Top \in Nat /\ MaxParams \in Nat
    BY GateNumbers
  <2>4. c.frame \in Nat /\ c.frame <= Top
    BY <2>1, <2>3
  <2>5. c.sp \in Nat /\ c.sp <= Top
    BY <2>1, <2>3
  <2>6. c.drop \in Nat
    BY <2>1, <2>3
  <2> QED BY <2>2, <2>4, <2>5, <2>6
<1> QED BY <1>1, <1>2

(* Holding depends on the words from the frame up only.                    *)
LEMMA HoldsStill ==
  ASSUME NEW st \in Words, NEW st2 \in Words, NEW r \in Rings, NEW c \in Call, Holds(st, r, c),
         \A a \in 0 .. Top - 1 : a >= c.frame => st2[r][a] = st[r][a]
  PROVE  Holds(st2, r, c)
<1>1. c.frame \in Nat /\ Top \in Nat
  BY GateNumbers DEF Call
<1>2. st2[r][c.frame] = st[r][c.frame] /\ st2[r][c.frame + 1] = st[r][c.frame + 1]
  BY <1>1 DEF Holds
<1>3. c.how = "int" => st2[r][c.frame + 2] = st[r][c.frame + 2]
  BY <1>1 DEF Holds
<1>4. c.how = "int" /\ r # c.cs => /\ st2[r][c.frame + 3] = st[r][c.frame + 3]
                                   /\ st2[r][c.frame + 4] = st[r][c.frame + 4]
  BY <1>1 DEF Holds
<1> QED BY <1>2, <1>3, <1>4 DEF Holds

(* A call's frame is below where SP was.                                   *)
LEMMA FrameBelow ==
  ASSUME NEW st, NEW r, NEW c \in Call, Holds(st, r, c), r = c.cs
  PROVE  c.frame < c.sp
BY GateNumbers DEF Holds, Call

(* The rings entered go inwards like the calls.                            *)
LEMMA EnteredInwards ==
  ASSUME NEW cl \in Seq(Call), NEW here \in Rings, NEW st, NEW top,
         Nesting(cl, st, here, top), NEW k \in DOMAIN cl
  PROVE  /\ Entered(cl, here, k) \in Rings
         /\ Entered(cl, here, k) >= here
         /\ \A m \in DOMAIN cl : k < m => Entered(cl, here, k) >= cl[m].cs
<1>1. \A j \in DOMAIN cl : cl[j].cs \in Rings /\ cl[j].cs \in Int
  <2>1. \A j \in DOMAIN cl : cl[j] \in Call
    OBVIOUS
  <2> QED BY <2>1, CallFields
<1>2. here \in Int
  BY GateNumbers
<1>3. CASE k < Len(cl)
  <2>1. k + 1 \in DOMAIN cl /\ Entered(cl, here, k) = cl[k + 1].cs
    BY <1>3 DEF Entered
  <2>2. \A m \in DOMAIN cl : k < m => cl[k + 1].cs >= cl[m].cs
    <3> TAKE m \in DOMAIN cl
    <3>1. CASE m = k + 1
      BY <1>1, <3>1
    <3>2. CASE m # k + 1
      BY <2>1, <3>2 DEF Nesting
    <3> QED BY <3>1, <3>2
  <2> QED BY <1>1, <2>1, <2>2 DEF Nesting
<1>4. CASE ~(k < Len(cl))
  BY <1>2, <1>4 DEF Entered
<1> QED BY <1>3, <1>4

(* A call, to the same ring or inwards.                                    *)
LEMMA CallNests ==
  ASSUME NEW cl \in Seq(Call), NEW st \in Words, NEW here \in Rings, NEW top \in 0 .. Top,
         Nesting(cl, st, here, top),
         NEW c \in Call, c.cs = here, c.ss = here, c.sp = top,
         NEW inner \in Rings, inner <= here,
         NEW st2 \in Words, Holds(st2, inner, c),
         \A r \in Rings, a \in 0 .. Top - 1 :
           r # inner \/ (inner = here /\ a >= top) => st2[r][a] = st[r][a]
  PROVE  Nesting(Append(cl, c), st2, inner, c.frame)
<1> DEFINE n == Len(cl)
           dl == Append(cl, c)
<1>1. /\ n \in Nat /\ Len(dl) = n + 1 /\ DOMAIN dl = 1 .. n + 1 /\ DOMAIN cl = 1 .. n
      /\ \A k \in 1 .. n : dl[k] = cl[k] /\ cl[k] \in Call
      /\ dl[n + 1] = c
  OBVIOUS
<1>2. /\ here \in Int /\ inner \in Int /\ top \in Int
      /\ \A d \in Call : d.cs \in Int /\ d.frame \in Int /\ d.sp \in Int
  BY GateNumbers, CallFields
<1> HIDE DEF dl, n
<1>3. \A k \in 1 .. n : Entered(dl, inner, k) = Entered(cl, here, k)
  BY <1>1 DEF Entered, n
<1>4. Entered(dl, inner, n + 1) = inner
  BY <1>1 DEF Entered
<1>5. \A k \in 1 .. n : /\ Entered(cl, here, k) \in Rings /\ Entered(cl, here, k) \in Int
                        /\ Entered(cl, here, k) >= here
  BY <1>1, EnteredInwards, GateNumbers
<1>6. \A k \in DOMAIN dl : dl[k].ss = dl[k].cs /\ dl[k].cs >= inner
  <2> TAKE k \in DOMAIN dl
  <2>1. CASE k \in 1 .. n
    BY <1>1, <1>2, <2>1 DEF Nesting
  <2>2. CASE k = n + 1
    BY <1>1, <1>2, <2>2
  <2> QED BY <1>1, <2>1, <2>2
<1>7. \A j, k \in DOMAIN dl : j < k => dl[j].cs >= dl[k].cs
  <2> SUFFICES ASSUME NEW j \in DOMAIN dl, NEW k \in DOMAIN dl, j < k PROVE dl[j].cs >= dl[k].cs
    OBVIOUS
  <2>1. CASE k \in 1 .. n
    BY <1>1, <2>1 DEF Nesting
  <2>2. CASE k = n + 1
    BY <1>1, <1>2, <2>2 DEF Nesting
  <2> QED BY <1>1, <2>1, <2>2
<1>8. \A k \in DOMAIN dl : Holds(st2, Entered(dl, inner, k), dl[k])
  <2> TAKE k \in DOMAIN dl
  <2>1. CASE k \in 1 .. n
    <3> DEFINE r == Entered(cl, here, k)
    <3>1. Holds(st, r, cl[k]) /\ r \in Rings
      BY <1>1, <1>5, <2>1 DEF Nesting
    <3>2. \A a \in 0 .. Top - 1 : a >= cl[k].frame => st2[r][a] = st[r][a]
      <4>1. CASE r # inner
        BY <3>1, <4>1
      <4>2. CASE r = inner
        <5>1. inner = here
          BY <1>2, <1>5, <2>1, <4>2
        <5>2. top <= cl[k].frame
          BY <1>1, <2>1, <4>2, <5>1 DEF Nesting
        <5>3. cl[k].frame \in Int
          BY <1>1, <1>2, <2>1
        <5> HIDE DEF r
        <5> QED BY <1>2, <3>1, <5>1, <5>2, <5>3, GateNumbers
      <4> QED BY <4>1, <4>2
    <3> HIDE DEF r
    <3>3. cl[k] \in Call
      BY <1>1, <2>1
    <3>4. Holds(st2, r, cl[k])
      BY <3>1, <3>2, <3>3, HoldsStill
    <3> QED BY <1>1, <1>3, <2>1, <3>4 DEF r
  <2>2. CASE k = n + 1
    BY <1>1, <1>4, <2>2
  <2> QED BY <1>1, <2>1, <2>2
<1>9. \A j, k \in DOMAIN dl :
        j < k /\ Entered(dl, inner, j) = dl[k].cs => dl[k].sp <= dl[j].frame
  <2> SUFFICES ASSUME NEW j \in DOMAIN dl, NEW k \in DOMAIN dl, j < k,
                      Entered(dl, inner, j) = dl[k].cs
               PROVE  dl[k].sp <= dl[j].frame
    OBVIOUS
  <2>1. j \in 1 .. n /\ Entered(cl, here, j) = dl[k].cs
    BY <1>1, <1>3
  <2>2. CASE k \in 1 .. n
    BY <1>1, <2>1, <2>2 DEF Nesting
  <2>3. CASE k = n + 1
    BY <1>1, <2>1, <2>3 DEF Nesting
  <2> QED BY <1>1, <2>2, <2>3
<1>10. \A k \in DOMAIN dl : Entered(dl, inner, k) = inner => c.frame <= dl[k].frame
  <2> SUFFICES ASSUME NEW k \in DOMAIN dl, Entered(dl, inner, k) = inner PROVE c.frame <= dl[k].frame
    OBVIOUS
  <2>1. CASE k \in 1 .. n
    <3>1. inner = here
      BY <1>2, <1>3, <1>5, <2>1
    <3>2. top <= cl[k].frame
      BY <1>1, <1>3, <2>1, <3>1 DEF Nesting
    <3>3. c.frame < c.sp
      BY <3>1, FrameBelow
    <3> QED BY <1>1, <1>2, <2>1, <3>2, <3>3
  <2>2. CASE k = n + 1
    BY <1>1, <1>2, <2>2
  <2> QED BY <1>1, <2>1, <2>2
<1> QED BY <1>6, <1>7, <1>8, <1>9, <1>10 DEF Nesting, dl

(* A return, to the caller's ring and SP.                                  *)
LEMMA ReturnNests ==
  ASSUME NEW cl \in Seq(Call), NEW st \in Words, NEW here \in Rings, NEW top,
         Nesting(cl, st, here, top), cl # <<>>,
         NEW c \in Call, c = cl[Len(cl)],
         NEW st2 \in Words,
         \A r \in Rings, a \in 0 .. Top - 1 :
           r # here \/ (here = c.cs /\ a >= c.sp) => st2[r][a] = st[r][a]
  PROVE  Nesting(SubSeq(cl, 1, Len(cl) - 1), st2, c.cs, c.sp)
<1> DEFINE n == Len(cl)
           dl == SubSeq(cl, 1, n - 1)
<1>1. /\ n \in Nat /\ n > 0 /\ Len(dl) = n - 1 /\ DOMAIN dl = 1 .. n - 1 /\ DOMAIN cl = 1 .. n
      /\ \A k \in 1 .. n - 1 : dl[k] = cl[k]
      /\ \A k \in 1 .. n : cl[k] \in Call
  <2>1. n \in Nat /\ n > 0 /\ DOMAIN cl = 1 .. n /\ \A k \in 1 .. n : cl[k] \in Call
    OBVIOUS
  <2>2. Len(dl) = n - 1 /\ DOMAIN dl = 1 .. n - 1 /\ \A k \in 1 .. n - 1 : dl[k] = cl[k]
    BY <2>1
  <2> QED BY <2>1, <2>2
<1>2. /\ here \in Int /\ \A d \in Call : d.cs \in Int /\ d.frame \in Int /\ d.sp \in Int
  BY GateNumbers, CallFields
<1> HIDE DEF dl, n
<1>3. \A k \in 1 .. n - 1 : /\ Entered(dl, c.cs, k) = Entered(cl, here, k)
                            /\ Entered(cl, here, k) = cl[k + 1].cs
  BY <1>1 DEF Entered, n
<1>4. \A k \in 1 .. n - 1 : /\ Entered(cl, here, k) \in Rings
                            /\ Entered(cl, here, k) >= here /\ Entered(cl, here, k) >= c.cs
  BY <1>1, EnteredInwards DEF n
<1>5. \A k \in 1 .. n - 1 : Holds(st2, Entered(dl, c.cs, k), dl[k])
  <2> TAKE k \in 1 .. n - 1
  <2> DEFINE r == Entered(cl, here, k)
  <2>1. Holds(st, r, cl[k]) /\ r \in Rings /\ cl[k] \in Call
    BY <1>1, <1>4 DEF Nesting
  <2>2. \A a \in 0 .. Top - 1 : a >= cl[k].frame => st2[r][a] = st[r][a]
    <3>1. CASE r # here
      BY <2>1, <3>1
    <3>2. CASE r = here
      <4>1. c.cs >= here
        BY <1>1 DEF Nesting, n
      <4>2. r = c.cs
        BY <1>2, <1>4, <3>2, <4>1
      <4>3. c.sp <= cl[k].frame
        <5>1. k \in 1 .. n /\ n \in 1 .. n /\ k < n /\ r = cl[n].cs /\ cl[n] = c
          BY <1>1, <4>2 DEF n
        <5>2. \A i, j \in 1 .. n : i < j /\ Entered(cl, here, i) = cl[j].cs => cl[j].sp <= cl[i].frame
          BY <1>1 DEF Nesting
        <5> QED BY <5>1, <5>2
      <4>4. cl[k].frame \in Int /\ c.sp \in Int
        BY <1>2, <2>1
      <4> HIDE DEF r
      <4> QED BY <2>1, <3>2, <4>2, <4>3, <4>4, GateNumbers
    <3> QED BY <3>1, <3>2
  <2> HIDE DEF r
  <2>3. Holds(st2, r, cl[k])
    BY <2>1, <2>2, HoldsStill
  <2> QED BY <1>1, <1>3, <2>3 DEF r
<1>6. \A k \in 1 .. n - 1 : k \in 1 .. n
  BY <1>1
<1>0. c = cl[n] /\ n \in 1 .. n
  BY <1>1 DEF n
<1>7. \A k \in 1 .. n - 1 : dl[k].ss = dl[k].cs /\ dl[k].cs >= c.cs
  <2> TAKE k \in 1 .. n - 1
  <2>1. k \in 1 .. n /\ k < n
    BY <1>1
  <2>2. cl[k].ss = cl[k].cs /\ cl[k].cs >= cl[n].cs
    BY <1>0, <1>1, <2>1 DEF Nesting
  <2> QED BY <1>0, <1>1, <2>2
<1>8. \A j, k \in 1 .. n - 1 : j < k => dl[j].cs >= dl[k].cs
  BY <1>1, <1>6 DEF Nesting
<1>9. \A j, k \in 1 .. n - 1 :
        j < k /\ Entered(dl, c.cs, j) = dl[k].cs => dl[k].sp <= dl[j].frame
  BY <1>1, <1>3, <1>6 DEF Nesting
<1>10. \A k \in 1 .. n - 1 : Entered(dl, c.cs, k) = c.cs => c.sp <= dl[k].frame
  <2> TAKE k \in 1 .. n - 1
  <2>1. k \in 1 .. n /\ k < n
    BY <1>1
  <2>2. Entered(cl, here, k) = cl[n].cs => cl[n].sp <= cl[k].frame
    BY <1>0, <1>1, <2>1 DEF Nesting
  <2> QED BY <1>0, <1>1, <1>3, <2>2
<1> QED BY <1>1, <1>5, <1>7, <1>8, <1>9, <1>10 DEF Nesting, dl, n

----------------------------------------------------------------------------
(* What a push changes.                                                    *)
LEMMA PushedGives ==
  ASSUME stacks \in Words, NEW r \in Rings, NEW top \in 0 .. Top, NEW words \in Seq(Int)
  PROVE  /\ Pushed(r, top, words) \in Words
         /\ \A q \in Rings, a \in 0 .. Top - 1 :
              q # r \/ a >= top => Pushed(r, top, words)[q][a] = stacks[q][a]
         /\ \A a \in 0 .. Top - 1 :
              a < top /\ a >= top - Len(words) => Pushed(r, top, words)[r][a] = words[top - a]
<1> DEFINE col == [a \in 0 .. Top - 1 |->
                     IF a < top /\ a >= top - Len(words) THEN words[top - a] ELSE stacks[r][a]]
<1>1. Pushed(r, top, words) = [stacks EXCEPT ![r] = col]
  BY DEF Pushed
<1>2. ASSUME NEW a \in 0 .. Top - 1 PROVE col[a] \in Int
  <2>1. a < top /\ a >= top - Len(words) => words[top - a] \in Int
    BY GateNumbers
  <2>2. stacks[r][a] \in Int
    BY DEF Words
  <2> QED BY <2>1, <2>2
<1>3. \A a \in 0 .. Top - 1 : a >= top => col[a] = stacks[r][a]
  BY GateNumbers
<1>4. \A a \in 0 .. Top - 1 : a < top /\ a >= top - Len(words) => col[a] = words[top - a]
  OBVIOUS
<1>5. col \in [0 .. Top - 1 -> Int]
  BY <1>2
<1> HIDE DEF col
<1>6. /\ [stacks EXCEPT ![r] = col] \in Words /\ [stacks EXCEPT ![r] = col][r] = col
      /\ \A q \in Rings : q # r => [stacks EXCEPT ![r] = col][q] = stacks[q]
  BY <1>5 DEF Words
<1> QED BY <1>1, <1>3, <1>4, <1>6

(* What forgetting changes.                                                *)
LEMMA ForgottenGives ==
  ASSUME stacks \in Words, NEW r \in Rings, NEW below \in 0 .. Top
  PROVE  /\ Forgotten(r, below) \in Words
         /\ \A q \in Rings, a \in 0 .. Top - 1 :
              q # r \/ a >= below => Forgotten(r, below)[q][a] = stacks[q][a]
<1> DEFINE col == [a \in 0 .. Top - 1 |-> IF a < below THEN Junk ELSE stacks[r][a]]
<1>1. Forgotten(r, below) = [stacks EXCEPT ![r] = col]
  BY DEF Forgotten
<1>2. \A a \in 0 .. Top - 1 : a >= below => col[a] = stacks[r][a]
  BY GateNumbers
<1>3. col \in [0 .. Top - 1 -> Int]
  <2>1. \A a \in 0 .. Top - 1 : stacks[r][a] \in Int
    BY DEF Words
  <2> QED BY <2>1 DEF Junk
<1> HIDE DEF col
<1>4. /\ [stacks EXCEPT ![r] = col] \in Words /\ [stacks EXCEPT ![r] = col][r] = col
      /\ \A q \in Rings : q # r => [stacks EXCEPT ![r] = col][q] = stacks[q]
  BY <1>3 DEF Words
<1> QED BY <1>1, <1>2, <1>4

(* The call in progress, and where it finds the caller.                    *)
LEMMA LastCall ==
  ASSUME GatesInv, calls # <<>>
  PROVE  /\ Last \in Call /\ Last.cs >= cs /\ Last.ss = Last.cs
         /\ Holds(stacks, cs, Last) /\ sp <= Last.frame
<1>1. Len(calls) \in DOMAIN calls /\ calls[Len(calls)] \in Call
  BY DEF GatesInv
<1>2. Entered(calls, cs, Len(calls)) = cs
  BY <1>1 DEF Entered, GatesInv
<1> QED BY <1>1, <1>2 DEF GatesInv, Nesting, Last

(* At the level it returned to, the words above SP are the frame the call  *)
(* pushed.                                                                 *)
LEMMA PopsBack ==
  ASSUME GatesInv, calls # <<>>, sp = Last.frame
  PROVE  /\ Popped(0) = Last.ip /\ Popped(1) = Last.cs
         /\ Last.how = "far" => cs = Last.cs /\ sp + 2 + Last.drop = Last.sp
         /\ Last.how = "int" =>
              /\ Popped(2) = Bit(Last.intOn)
              /\ cs = Last.cs => sp + 3 = Last.sp
              /\ cs # Last.cs => Popped(3) = Last.sp /\ Popped(4) = Last.ss
<1>1. Holds(stacks, cs, Last) /\ ss = cs /\ sp \in Int
  BY LastCall, GateNumbers DEF GatesInv
<1>2. sp + 0 = Last.frame
  BY <1>1
<1> QED BY <1>1, <1>2 DEF Holds, Popped

(* A return to where the call was made keeps the invariant.                *)
LEMMA ReturnInv ==
  ASSUME GatesInv, calls # <<>>, calls' = WithoutLast,
         stacks' = Forgotten(ss, IF Last.cs > cs THEN Top ELSE Last.sp),
         cs' = Last.cs, ip' = Last.ip, ss' = Last.ss, sp' = Last.sp, intOn' \in BOOLEAN
  PROVE  GatesInv'
<1>1. /\ Last \in Call /\ Last.cs >= cs /\ Last.ss = Last.cs /\ Last = calls[Len(calls)]
      /\ cs \in Rings /\ ss = cs /\ stacks \in Words /\ calls \in Seq(Call)
      /\ Nesting(calls, stacks, cs, sp)
  BY LastCall DEF GatesInv, Last
<1>2. Last.cs \in Rings /\ Last.ip \in Places /\ Last.sp \in 0 .. Top /\ Last.cs \in Int /\ cs \in Int
  BY <1>1, CallFields, GateNumbers
<1> DEFINE below == IF Last.cs > cs THEN Top ELSE Last.sp
<1>3. below \in 0 .. Top
  BY <1>2, GateNumbers
<1>4. cs = Last.cs => below = Last.sp
  BY <1>2
<1>5. /\ stacks' \in Words
      /\ \A q \in Rings, a \in 0 .. Top - 1 : q # cs \/ a >= below => stacks'[q][a] = stacks[q][a]
  BY <1>1, <1>3, ForgottenGives
<1> HIDE DEF below
<1>6. \A q \in Rings, a \in 0 .. Top - 1 :
        q # cs \/ (cs = Last.cs /\ a >= Last.sp) => stacks'[q][a] = stacks[q][a]
  BY <1>4, <1>5
<1>7. Nesting(SubSeq(calls, 1, Len(calls) - 1), stacks', Last.cs, Last.sp)
  BY <1>1, <1>5, <1>6, ReturnNests
<1>8. calls' = SubSeq(calls, 1, Len(calls) - 1) /\ calls' \in Seq(Call)
  BY <1>1 DEF WithoutLast
<1> QED BY <1>1, <1>2, <1>5, <1>7, <1>8 DEF GatesInv

(* A call keeps the invariant.                                             *)
LEMMA CallKeeps ==
  ASSUME GatesInv, NEW how \in {"int", "far"}, NEW drop \in 0 .. MaxParams,
         NEW frame \in 0 .. Top, NEW inner \in Rings, inner <= cs,
         Calls(how, drop, frame),
         stacks' \in Words,
         \A r \in Rings, a \in 0 .. Top - 1 :
           r # inner \/ (inner = cs /\ a >= sp) => stacks'[r][a] = stacks[r][a],
         Holds(stacks', inner, [how |-> how, cs |-> cs, ip |-> ip, ss |-> ss, sp |-> sp,
                                intOn |-> intOn, drop |-> drop, frame |-> frame]),
         cs' = inner, ss' = inner, sp' = frame, ip' \in Places, intOn' \in BOOLEAN
  PROVE  GatesInv'
<1> DEFINE c == [how |-> how, cs |-> cs, ip |-> ip, ss |-> ss, sp |-> sp,
                 intOn |-> intOn, drop |-> drop, frame |-> frame]
<1>1. c \in Call
  BY DEF Call, GatesInv
<1>2. c.cs = cs /\ c.ss = cs /\ c.sp = sp /\ c.frame = frame
  BY DEF GatesInv
<1>3. calls' = Append(calls, c)
  BY DEF Calls
<1>4. Holds(stacks', inner, c)
  OBVIOUS
<1> HIDE DEF c
<1>5. /\ cs \in Rings /\ sp \in 0 .. Top /\ stacks \in Words /\ calls \in Seq(Call)
      /\ Nesting(calls, stacks, cs, sp)
  BY DEF GatesInv
<1>6. Nesting(Append(calls, c), stacks', inner, c.frame)
  BY <1>1, <1>2, <1>4, <1>5, CallNests
<1>7. Append(calls, c) \in Seq(Call)
  BY <1>1, <1>5
<1> QED BY <1>2, <1>3, <1>6, <1>7 DEF GatesInv

(* What a procedure does above the last frame disturbs no call.            *)
LEMMA LocalInv ==
  ASSUME GatesInv, UNCHANGED <<cs, ss, intOn, calls>>, ip' \in Places,
         sp' \in 0 .. Top, stacks' \in Words, sp' <= Floor,
         \A r \in Rings, a \in 0 .. Top - 1 : r # cs \/ a >= Floor => stacks'[r][a] = stacks[r][a]
  PROVE  GatesInv'
<1>1. /\ cs \in Rings /\ stacks \in Words /\ calls \in Seq(Call) /\ ss = cs /\ intOn \in BOOLEAN
      /\ Nesting(calls, stacks, cs, sp)
  BY DEF GatesInv
<1>2. ASSUME NEW k \in DOMAIN calls, Entered(calls, cs, k) = cs
      PROVE  Floor <= calls[k].frame
  <2>1. /\ Last = calls[Len(calls)] /\ Last \in Call /\ Holds(stacks, cs, Last)
        /\ Len(calls) \in DOMAIN calls /\ calls[k] \in Call /\ calls # <<>> /\ Last.cs >= cs
    BY <1>1, LastCall DEF Last
  <2>2. Floor = Last.frame /\ Last.frame \in Int /\ Last.cs \in Int /\ Last.sp \in Int
    BY <2>1, CallFields DEF Floor
  <2>3. CASE k = Len(calls)
    BY <2>1, <2>2, <2>3
  <2>4. CASE k # Len(calls)
    <3>1. k < Len(calls)
      BY <1>1, <2>4
    <3>2. Entered(calls, cs, k) >= Last.cs
      BY <1>1, <2>1, <3>1, EnteredInwards
    <3>3. Last.cs = cs
      BY <1>1, <1>2, <2>1, <2>2, <3>2, GateNumbers
    <3>4. Last.sp <= calls[k].frame
      BY <1>1, <1>2, <2>1, <3>1, <3>3 DEF Nesting
    <3>5. Last.frame < Last.sp
      BY <2>1, <3>3, FrameBelow
    <3>6. calls[k].frame \in Int
      BY <2>1, CallFields
    <3> QED BY <2>2, <3>4, <3>5, <3>6
  <2> QED BY <2>3, <2>4
<1>3. Floor \in Int
  <2>1. CASE calls = <<>>
    BY <2>1, GateNumbers DEF Floor
  <2>2. CASE calls # <<>>
    BY <2>2, LastCall, CallFields DEF Floor
  <2> QED BY <2>1, <2>2
<1>4. \A k \in DOMAIN calls : calls[k] \in Call /\ calls[k].frame \in Int
  <2>1. \A k \in DOMAIN calls : calls[k] \in Call
    BY <1>1
  <2> QED BY <2>1, CallFields
<1> HIDE DEF Floor
<1>5. ASSUME NEW k \in DOMAIN calls PROVE Holds(stacks', Entered(calls, cs, k), calls[k])
  <2> DEFINE r == Entered(calls, cs, k)
  <2>1. Holds(stacks, r, calls[k]) /\ r \in Rings
    BY <1>1, EnteredInwards DEF Nesting
  <2>2. \A a \in 0 .. Top - 1 : a >= calls[k].frame => stacks'[r][a] = stacks[r][a]
    <3>1. CASE r # cs
      BY <2>1, <3>1
    <3>2. CASE r = cs
      <4>1. Floor <= calls[k].frame
        BY <1>2, <3>2
      <4> HIDE DEF r
      <4> QED BY <1>3, <1>4, <2>1, <3>2, <4>1, GateNumbers
    <3> QED BY <3>1, <3>2
  <2> HIDE DEF r
  <2>3. Holds(stacks', r, calls[k])
    BY <1>1, <1>4, <2>1, <2>2, HoldsStill
  <2> QED BY <2>3 DEF r
<1>6. \A k \in DOMAIN calls : Entered(calls, cs, k) = cs => sp' <= calls[k].frame
  <2> SUFFICES ASSUME NEW k \in DOMAIN calls, Entered(calls, cs, k) = cs PROVE sp' <= calls[k].frame
    OBVIOUS
  <2> QED BY <1>2, <1>3, <1>4, GateNumbers
<1>7. Nesting(calls, stacks', cs, sp')
  BY <1>1, <1>5, <1>6 DEF Nesting
<1> QED BY <1>1, <1>7 DEF GatesInv

(* A gate in the caller's own ring.                                        *)
LEMMA InterruptHere ==
  ASSUME GatesInv, NEW h \in Places, NEW i \in BOOLEAN, Interrupt(cs, h, i)
  PROVE  GatesInv'
<1>1. /\ cs \in Rings /\ cs \in Int /\ ss = cs /\ sp \in 0 .. Top /\ sp \in Int /\ ip \in Int
      /\ stacks \in Words /\ intOn \in BOOLEAN /\ Bit(intOn) \in Int /\ Top \in Nat
  BY GateNumbers DEF GatesInv, Bit
<1> DEFINE words == <<Bit(intOn), cs, ip>>
<1>2. Gate(cs) = [ring |-> cs, sp |-> sp, words |-> words]
  BY <1>1 DEF Gate
<1>3. Len(words) = 3 /\ words \in Seq(Int) /\ words[1] = Bit(intOn) /\ words[2] = cs /\ words[3] = ip
  BY <1>1
<1>4. /\ sp - 3 >= 0 /\ stacks' = Pushed(cs, sp, words) /\ ss' = cs /\ sp' = sp - 3
      /\ intOn' = (intOn /\ ~i) /\ cs' = cs /\ ip' = h /\ Calls("int", 0, sp - 3)
  BY <1>2, <1>3 DEF Interrupt
<1> HIDE DEF words
<1>5. /\ stacks' \in Words
      /\ \A q \in Rings, a \in 0 .. Top - 1 : q # cs \/ a >= sp => stacks'[q][a] = stacks[q][a]
      /\ \A a \in 0 .. Top - 1 : a < sp /\ a >= sp - Len(words) => stacks'[cs][a] = words[sp - a]
  <2>1. stacks \in Words /\ cs \in Rings /\ sp \in 0 .. Top /\ words \in Seq(Int)
    BY <1>1, <1>3
  <2>2. /\ Pushed(cs, sp, words) \in Words
        /\ \A q \in Rings, a \in 0 .. Top - 1 :
             q # cs \/ a >= sp => Pushed(cs, sp, words)[q][a] = stacks[q][a]
        /\ \A a \in 0 .. Top - 1 :
             a < sp /\ a >= sp - Len(words) => Pushed(cs, sp, words)[cs][a] = words[sp - a]
    BY <2>1, PushedGives
  <2>3. stacks' = Pushed(cs, sp, words)
    BY <1>4
  <2> QED BY <2>2, <2>3
<1>6. /\ stacks'[cs][sp - 3] = ip /\ stacks'[cs][(sp - 3) + 1] = cs
      /\ stacks'[cs][(sp - 3) + 2] = Bit(intOn)
  <2>1. sp - 3 \in 0 .. Top - 1 /\ (sp - 3) + 1 \in 0 .. Top - 1 /\ (sp - 3) + 2 \in 0 .. Top - 1
    BY <1>1, <1>4
  <2>2. sp - (sp - 3) = 3 /\ sp - ((sp - 3) + 1) = 2 /\ sp - ((sp - 3) + 2) = 1
    <3>1. (sp - 3) + 1 = sp - 2 /\ (sp - 3) + 2 = sp - 1
      BY <1>1
    <3>2. sp - (sp - 3) = 3 /\ sp - (sp - 2) = 2 /\ sp - (sp - 1) = 1
      BY <1>1
    <3> QED BY <3>1, <3>2
  <2>3. /\ sp - 3 < sp /\ (sp - 3) + 1 < sp /\ (sp - 3) + 2 < sp
        /\ sp - 3 >= sp - Len(words) /\ (sp - 3) + 1 >= sp - Len(words) /\ (sp - 3) + 2 >= sp - Len(words)
    BY <1>1, <1>3
  <2> QED BY <1>3, <1>5, <2>1, <2>2, <2>3
<1>7. Holds(stacks', cs, [how |-> "int", cs |-> cs, ip |-> ip, ss |-> ss, sp |-> sp,
                          intOn |-> intOn, drop |-> 0, frame |-> sp - 3])
  BY <1>1, <1>4, <1>6 DEF Holds
<1>8. 0 \in 0 .. MaxParams /\ sp - 3 \in 0 .. Top /\ cs <= cs /\ intOn' \in BOOLEAN
  BY <1>1, <1>4, GateNumbers
<1> QED BY <1>1, <1>4, <1>5, <1>7, <1>8, CallKeeps

(* A gate inwards.                                                         *)
LEMMA InterruptInwards ==
  ASSUME GatesInv, NEW r \in Rings, r < cs, NEW h \in Places, NEW i \in BOOLEAN, Interrupt(r, h, i)
  PROVE  GatesInv'
<1>1. /\ cs \in Rings /\ cs \in Int /\ r \in Int /\ ss = cs /\ sp \in 0 .. Top /\ sp \in Int /\ ip \in Int
      /\ stacks \in Words /\ intOn \in BOOLEAN /\ Bit(intOn) \in Int /\ Top \in Nat
  BY GateNumbers DEF GatesInv, Bit
<1> DEFINE words == <<ss, sp, Bit(intOn), cs, ip>>
<1>2. Gate(r) = [ring |-> r, sp |-> Top, words |-> words]
  BY DEF Gate
<1>3. /\ Len(words) = 5 /\ words \in Seq(Int)
      /\ words[1] = ss /\ words[2] = sp /\ words[3] = Bit(intOn) /\ words[4] = cs /\ words[5] = ip
  BY <1>1
<1>4. /\ Top - 5 >= 0 /\ stacks' = Pushed(r, Top, words) /\ ss' = r /\ sp' = Top - 5
      /\ intOn' = (intOn /\ ~i) /\ cs' = r /\ ip' = h /\ Calls("int", 0, Top - 5)
  BY <1>2, <1>3 DEF Interrupt
<1> HIDE DEF words
<1>5. /\ stacks' \in Words
      /\ \A q \in Rings, a \in 0 .. Top - 1 : q # r \/ a >= Top => stacks'[q][a] = stacks[q][a]
      /\ \A a \in 0 .. Top - 1 : a < Top /\ a >= Top - Len(words) => stacks'[r][a] = words[Top - a]
  <2>1. stacks \in Words /\ r \in Rings /\ Top \in 0 .. Top /\ words \in Seq(Int)
    BY <1>1, <1>3
  <2>2. /\ Pushed(r, Top, words) \in Words
        /\ \A q \in Rings, a \in 0 .. Top - 1 :
             q # r \/ a >= Top => Pushed(r, Top, words)[q][a] = stacks[q][a]
        /\ \A a \in 0 .. Top - 1 :
             a < Top /\ a >= Top - Len(words) => Pushed(r, Top, words)[r][a] = words[Top - a]
    BY <2>1, PushedGives
  <2>3. stacks' = Pushed(r, Top, words)
    BY <1>4
  <2> QED BY <2>2, <2>3
<1>6. /\ stacks'[r][Top - 5] = ip /\ stacks'[r][(Top - 5) + 1] = cs
      /\ stacks'[r][(Top - 5) + 2] = Bit(intOn)
      /\ stacks'[r][(Top - 5) + 3] = sp /\ stacks'[r][(Top - 5) + 4] = ss
  <2>1. ASSUME NEW k \in 0 .. 4 PROVE stacks'[r][(Top - 5) + k] = words[5 - k]
    <3>1. (Top - 5) + k \in 0 .. Top - 1 /\ Top - ((Top - 5) + k) = 5 - k
          /\ (Top - 5) + k < Top /\ (Top - 5) + k >= Top - Len(words)
      BY <1>1, <1>3, <1>4
    <3> QED BY <1>5, <3>1
  <2>2. /\ stacks'[r][(Top - 5) + 0] = words[5 - 0] /\ stacks'[r][(Top - 5) + 1] = words[5 - 1]
        /\ stacks'[r][(Top - 5) + 2] = words[5 - 2] /\ stacks'[r][(Top - 5) + 3] = words[5 - 3]
        /\ stacks'[r][(Top - 5) + 4] = words[5 - 4]
    BY <2>1
  <2>3. (Top - 5) + 0 = Top - 5 /\ 5 - 0 = 5 /\ 5 - 1 = 4 /\ 5 - 2 = 3 /\ 5 - 3 = 2 /\ 5 - 4 = 1
    BY <1>1
  <2> QED BY <1>3, <2>2, <2>3
<1>7. Holds(stacks', r, [how |-> "int", cs |-> cs, ip |-> ip, ss |-> ss, sp |-> sp,
                         intOn |-> intOn, drop |-> 0, frame |-> Top - 5])
  BY <1>1, <1>4, <1>6 DEF Holds
<1>8. /\ 0 \in 0 .. MaxParams /\ Top - 5 \in 0 .. Top /\ r <= cs /\ intOn' \in BOOLEAN
      /\ \A q \in Rings, a \in 0 .. Top - 1 :
           q # r \/ (r = cs /\ a >= sp) => stacks'[q][a] = stacks[q][a]
  BY <1>1, <1>4, <1>5, GateNumbers
<1> QED BY <1>1, <1>4, <1>5, <1>7, <1>8, CallKeeps

(* A far call.                                                             *)
LEMMA FarCallKeeps ==
  ASSUME GatesInv, NEW t \in Places, NEW d \in 0 .. MaxParams, FarCall(t, d)
  PROVE  GatesInv'
<1>1. /\ cs \in Rings /\ cs \in Int /\ ss = cs /\ sp \in 0 .. Top /\ sp \in Int /\ ip \in Int
      /\ stacks \in Words /\ intOn \in BOOLEAN /\ Top \in Nat /\ d \in Nat
  BY GateNumbers DEF GatesInv
<1> DEFINE words == <<cs, ip>>
           top   == sp - d
           frame == sp - d - 2
<1>2. Len(words) = 2 /\ words \in Seq(Int) /\ words[1] = cs /\ words[2] = ip
  BY <1>1
<1>3. /\ sp >= d + 2 /\ stacks' = Pushed(cs, top, words) /\ ss' = cs /\ sp' = frame
      /\ intOn' = intOn /\ cs' = cs /\ ip' = t /\ Calls("far", d, frame)
  BY <1>1 DEF FarCall
<1>4. top \in 0 .. Top /\ frame \in 0 .. Top /\ top \in Int /\ frame \in Int /\ frame + 2 = top /\ top <= sp
      /\ frame + 2 + d = sp
  BY <1>1, <1>3
<1> HIDE DEF words, top, frame
<1>5. /\ stacks' \in Words
      /\ \A q \in Rings, a \in 0 .. Top - 1 : q # cs \/ a >= top => stacks'[q][a] = stacks[q][a]
      /\ \A a \in 0 .. Top - 1 : a < top /\ a >= top - Len(words) => stacks'[cs][a] = words[top - a]
  <2>1. stacks \in Words /\ cs \in Rings /\ top \in 0 .. Top /\ words \in Seq(Int)
    BY <1>1, <1>2, <1>4
  <2>2. /\ Pushed(cs, top, words) \in Words
        /\ \A q \in Rings, a \in 0 .. Top - 1 :
             q # cs \/ a >= top => Pushed(cs, top, words)[q][a] = stacks[q][a]
        /\ \A a \in 0 .. Top - 1 :
             a < top /\ a >= top - Len(words) => Pushed(cs, top, words)[cs][a] = words[top - a]
    BY <2>1, PushedGives
  <2>3. stacks' = Pushed(cs, top, words)
    BY <1>3
  <2> QED BY <2>2, <2>3
<1>6. stacks'[cs][frame] = ip /\ stacks'[cs][frame + 1] = cs
  <2>1. frame \in 0 .. Top - 1 /\ frame + 1 \in 0 .. Top - 1 /\ top - frame = 2 /\ top - (frame + 1) = 1
    BY <1>1, <1>4
  <2>2. /\ frame < top /\ frame + 1 < top /\ frame >= top - Len(words) /\ frame + 1 >= top - Len(words)
    BY <1>2, <1>4
  <2> QED BY <1>2, <1>5, <2>1, <2>2
<1>7. Holds(stacks', cs, [how |-> "far", cs |-> cs, ip |-> ip, ss |-> ss, sp |-> sp,
                          intOn |-> intOn, drop |-> d, frame |-> frame])
  BY <1>1, <1>4, <1>6 DEF Holds
<1>8. /\ cs <= cs
      /\ \A q \in Rings, a \in 0 .. Top - 1 :
           q # cs \/ (cs = cs /\ a >= sp) => stacks'[q][a] = stacks[q][a]
  BY <1>1, <1>4, <1>5
<1> QED BY <1>1, <1>3, <1>4, <1>5, <1>7, <1>8, CallKeeps

(* A return goes to the caller.                                            *)
LEMMA ReturnGoesBack ==
  ASSUME GatesInv, NEW how \in {"int", "far"}, NEW at, NEW drop,
         \/ how = "int" /\ at = sp + 3 /\ drop = 0 /\ Returns(how, Popped(1), at)
         \/ how = "far" /\ at = sp + 2 /\ drop = Last.drop /\ Returns(how, Popped(1), at + drop),
         FarRet(Popped(1), Popped(0), at, drop), intOn' \in BOOLEAN
  PROVE  /\ GatesInv' /\ calls # <<>>
         /\ cs' = Last.cs /\ ip' = Last.ip /\ ss' = Last.ss /\ sp' = Last.sp
<1>1. calls # <<>> /\ Last.how = how /\ sp = Last.frame /\ calls' = WithoutLast
  BY DEF Returns
<1>2. /\ Last \in Call /\ Last.cs >= cs /\ Last.ss = Last.cs /\ cs \in Int /\ ss = cs
      /\ Last.cs \in Int /\ sp \in Int /\ Last.sp \in Int
  BY <1>1, LastCall, CallFields, GateNumbers DEF GatesInv
<1>3. Popped(0) = Last.ip /\ Popped(1) = Last.cs
  BY <1>1, PopsBack
<1>4. cs' = Last.cs /\ ip' = Last.ip
  BY <1>3 DEF FarRet
<1>5. CASE Last.cs > cs
  <2>1. how = "int" /\ Popped(3) = Last.sp /\ Popped(4) = Last.ss
    BY <1>1, <1>2, <1>5, PopsBack
  <2>2. /\ at = sp + 3 /\ drop = 0
        /\ stacks' = Forgotten(ss, Top)
    BY <1>3, <1>5, <2>1 DEF Returns
  <2>3. sp' = stacks[ss][(sp + 3) + 0] + 0 /\ ss' = stacks[ss][(sp + 3) + 0 + 1]
    BY <1>3, <1>5, <2>2 DEF FarRet
  <2>4. (sp + 3) + 0 = sp + 3 /\ (sp + 3) + 0 + 1 = sp + 4
    BY <1>2
  <2>5. sp' = Last.sp /\ ss' = Last.ss
    BY <1>2, <2>1, <2>3, <2>4 DEF Popped
  <2> QED BY <1>1, <1>4, <1>5, <2>2, <2>5, ReturnInv
<1>6. CASE ~(Last.cs > cs)
  <2>1. cs = Last.cs
    BY <1>2, <1>6
  <2>2. at + drop = Last.sp
    <3>1. CASE how = "int"
      BY <1>1, <1>2, <2>1, <3>1, PopsBack
    <3>2. CASE how = "far"
      BY <1>1, <1>2, <2>1, <3>2, PopsBack
    <3> QED BY <3>1, <3>2
  <2>3. stacks' = Forgotten(ss, Last.sp)
    <3>1. CASE how = "int"
      <4>1. at + drop = at /\ at = sp + 3
        BY <1>2, <3>1
      <4> QED BY <1>3, <1>6, <2>2, <3>1, <4>1 DEF Returns
    <3>2. CASE how = "far"
      BY <1>3, <1>6, <2>2, <3>2 DEF Returns
    <3> QED BY <3>1, <3>2
  <2>4. sp' = Last.sp /\ ss' = Last.ss
    BY <1>2, <1>3, <1>6, <2>1, <2>2 DEF FarRet
  <2> QED BY <1>1, <1>4, <1>6, <2>3, <2>4, ReturnInv
<1> QED BY <1>1, <1>4, <1>5, <1>6

----------------------------------------------------------------------------
(* Nothing is outstanding at first.                                        *)
LEMMA GatesInitInv == GatesInit => GatesInv /\ ReturnsResume
<1> SUFFICES ASSUME GatesInit PROVE GatesInv /\ ReturnsResume
  OBVIOUS
<1>1. stacks \in Words
  BY DEF GatesInit, Words, Junk
<1>2. calls = <<>> /\ calls \in Seq(Call) /\ DOMAIN calls = {}
  BY DEF GatesInit
<1>3. Nesting(calls, stacks, cs, sp)
  BY <1>2 DEF Nesting
<1> QED BY <1>1, <1>2, <1>3, GateNumbers DEF GatesInit, GatesInv, ReturnsResume

(* Every instruction keeps the calls nested, and a return resumes.         *)
LEMMA GatesNextInv ==
  GatesInv /\ ReturnsResume /\ [GatesNext]_gateVars => GatesInv' /\ ReturnsResume'
<1> SUFFICES ASSUME GatesInv, ReturnsResume, [GatesNext]_gateVars PROVE GatesInv' /\ ReturnsResume'
  OBVIOUS
<1>0. /\ cs \in Rings /\ ss = cs /\ sp \in 0 .. Top /\ ip \in Places /\ intOn \in BOOLEAN
      /\ stacks \in Words /\ Top \in Nat /\ Rings \subseteq Int /\ sp \in Int
  BY GateNumbers DEF GatesInv
<1>1. ASSUME NEW r \in Rings, NEW h \in Places, NEW i \in BOOLEAN, Interrupt(r, h, i)
      PROVE  GatesInv' /\ ReturnsResume'
  <2>1. r <= cs
    BY <1>1 DEF Interrupt
  <2>2. CASE r = cs
    BY <1>1, <2>2, InterruptHere DEF Interrupt, ReturnsResume
  <2>3. CASE r # cs
    <3>1. r < cs
      BY <1>0, <2>1, <2>3
    <3> QED BY <1>1, <3>1, InterruptInwards DEF Interrupt, ReturnsResume
  <2> QED BY <2>2, <2>3
<1>2. ASSUME NEW t \in Places, NEW d \in 0 .. MaxParams, FarCall(t, d)
      PROVE  GatesInv' /\ ReturnsResume'
  BY <1>2, FarCallKeeps DEF FarCall, ReturnsResume
<1>3. CASE Iret
  <2>1. intOn' \in BOOLEAN /\ intOn' = (Popped(2) = 1)
    BY <1>3 DEF Iret
  <2>2. /\ GatesInv' /\ calls # <<>>
        /\ cs' = Last.cs /\ ip' = Last.ip /\ ss' = Last.ss /\ sp' = Last.sp
    BY <1>3, <2>1, ReturnGoesBack DEF Iret
  <2>3. Popped(2) = Bit(Last.intOn)
    BY <1>3, <2>2, PopsBack DEF Iret, Returns
  <2>4. Last \in Call /\ Last.intOn \in BOOLEAN
    BY <2>2, LastCall, CallFields
  <2>5. intOn' = Last.intOn
    BY <2>1, <2>3, <2>4 DEF Bit
  <2>6. back' = [Last EXCEPT !.how = "iret"]
    BY <1>3 DEF Iret
  <2>7. /\ back'.cs = Last.cs /\ back'.ip = Last.ip /\ back'.ss = Last.ss /\ back'.sp = Last.sp
        /\ back'.intOn = Last.intOn
    BY <2>4, <2>6 DEF Call
  <2> QED BY <2>2, <2>5, <2>7 DEF ReturnsResume
<1>4. ASSUME RetfFromInterrupt \/ Retf PROVE GatesInv' /\ ReturnsResume'
  <2>1. intOn' \in BOOLEAN /\ back' = Last
    BY <1>0, <1>4 DEF RetfFromInterrupt, Retf
  <2>2. /\ GatesInv' /\ calls # <<>>
        /\ cs' = Last.cs /\ ip' = Last.ip /\ ss' = Last.ss /\ sp' = Last.sp
    <3>1. CASE RetfFromInterrupt
      BY <2>1, <3>1, ReturnGoesBack DEF RetfFromInterrupt
    <3>2. CASE Retf
      BY <2>1, <3>2, ReturnGoesBack DEF Retf
    <3> QED BY <1>4, <3>1, <3>2
  <2>3. Last.how # "iret"
    BY <2>2, LastCall, CallFields
  <2> QED BY <2>1, <2>2, <2>3 DEF ReturnsResume
<1>5. CASE OtherInstruction
  <2>1. back' = Nowhere /\ UNCHANGED <<cs, ss, intOn, calls>>
    BY <1>5 DEF OtherInstruction
  <2>2. Floor \in Int /\ Floor <= Top /\ sp <= Floor /\ Floor >= 0
    <3>1. CASE calls = <<>>
      BY <1>0, <3>1 DEF Floor
    <3>2. CASE calls # <<>>
      BY <3>2, LastCall, CallFields DEF Floor
    <3> QED BY <3>1, <3>2
  <2>3. CASE Jump
    BY <1>0, <2>1, <2>2, <2>3, LocalInv DEF Jump, ReturnsResume
  <2>4. CASE PushLocal
    <3>1. /\ sp' = sp - 1 /\ sp > 0 /\ stacks' = Pushed(ss, sp, <<Junk>>) /\ ip' = ip
      BY <2>4 DEF PushLocal
    <3>2. <<Junk>> \in Seq(Int)
      BY DEF Junk
    <3>3. /\ Pushed(cs, sp, <<Junk>>) \in Words
          /\ \A q \in Rings, a \in 0 .. Top - 1 :
               q # cs \/ a >= sp => Pushed(cs, sp, <<Junk>>)[q][a] = stacks[q][a]
      BY <1>0, <3>2, PushedGives
    <3>4. stacks' = Pushed(cs, sp, <<Junk>>)
      BY <1>0, <3>1
    <3>5. /\ stacks' \in Words
          /\ \A q \in Rings, a \in 0 .. Top - 1 : q # cs \/ a >= sp => stacks'[q][a] = stacks[q][a]
      BY <3>3, <3>4
    <3>6. \A q \in Rings, a \in 0 .. Top - 1 : q # cs \/ a >= Floor => stacks'[q][a] = stacks[q][a]
      BY <1>0, <2>2, <3>5
    <3>7. sp' \in 0 .. Top /\ sp' <= Floor
      BY <1>0, <2>2, <3>1
    <3> QED BY <1>0, <2>1, <3>1, <3>5, <3>6, <3>7, LocalInv DEF ReturnsResume
  <2>5. CASE PopLocal
    <3>1. /\ sp' = sp + 1 /\ Floor - sp > 0 /\ stacks' = Forgotten(ss, sp + 1) /\ ip' = ip
      BY <2>5 DEF PopLocal, Locals
    <3>2. sp + 1 \in 0 .. Top /\ sp + 1 <= Floor
      BY <1>0, <2>2, <3>1
    <3>3. /\ Forgotten(cs, sp + 1) \in Words
          /\ \A q \in Rings, a \in 0 .. Top - 1 :
               q # cs \/ a >= sp + 1 => Forgotten(cs, sp + 1)[q][a] = stacks[q][a]
      BY <1>0, <3>2, ForgottenGives
    <3>4. stacks' = Forgotten(cs, sp + 1)
      BY <1>0, <3>1
    <3>5. /\ stacks' \in Words
          /\ \A q \in Rings, a \in 0 .. Top - 1 : q # cs \/ a >= sp + 1 => stacks'[q][a] = stacks[q][a]
      BY <3>3, <3>4
    <3>6. \A q \in Rings, a \in 0 .. Top - 1 : q # cs \/ a >= Floor => stacks'[q][a] = stacks[q][a]
      BY <1>0, <2>2, <3>2, <3>5
    <3> QED BY <1>0, <2>1, <3>1, <3>2, <3>5, <3>6, LocalInv DEF ReturnsResume
  <2> QED BY <1>5, <2>3, <2>4, <2>5 DEF OtherInstruction
<1>6. CASE UNCHANGED gateVars
  BY <1>6 DEF gateVars, GatesInv, ReturnsResume
<1> QED BY <1>1, <1>2, <1>3, <1>4, <1>5, <1>6 DEF GatesNext

(* However interrupts and calls nest, and whichever rings they cross, a    *)
(* return continues where the call was made, on its stack; IRET restores   *)
(* IF as well.                                                             *)
THEOREM ReturnsGoBack == GatesSpec => []ReturnsResume
BY GatesInitInv, GatesNextInv, PTL DEF GatesSpec

----------------------------------------------------------------------------
(* The floating-point stack.  Going round the registers is addition modulo *)
(* their number.                                                           *)
Reg(t, i) == (t + i) % Slots

(* Going round the register file: the sums modulo its size.                *)
LEMMA Around ==
  /\ Slots \in Nat /\ Slots >= 2
  /\ \A t, i \in Int : Reg(t, i) \in Registers
  /\ \A t, i, j \in Int : Reg(Reg(t, i), j) = Reg(t, i + j)
  /\ \A t \in Int, i, j \in Registers : Reg(t, i) = Reg(t, j) => i = j
  /\ \A t \in Registers : Reg(t, 0) = t
  /\ \A i \in Registers : i \in Int /\ 0 <= i /\ i < Slots
  /\ \A i \in Int : 0 <= i /\ i < Slots => i \in Registers
<1>1. CASE Slots = 2
  BY <1>1 DEF Registers, Reg
<1>2. CASE Slots = 4
  BY <1>2 DEF Registers, Reg
<1>3. CASE Slots = 8
  BY <1>3 DEF Registers, Reg
<1> QED BY <1>1, <1>2, <1>3, FpuAssumption

(* The d topmost registers, ST(0) first.                                   *)
Stacked(f, t, d) == [i \in 1 .. d |-> f[Reg(t, i - 1)]]

(* The registers in use, read from the top, are a sequence of values.      *)
LEMMA StackedType ==
  ASSUME NEW f \in [Registers -> FpuValues], NEW t \in Registers, NEW d \in 0 .. Slots
  PROVE  /\ Stacked(f, t, d) \in Seq(FpuValues) /\ Len(Stacked(f, t, d)) = d
         /\ DOMAIN Stacked(f, t, d) = 1 .. d /\ d \in Nat
         /\ \A i \in 1 .. d : /\ Stacked(f, t, d)[i] = f[Reg(t, i - 1)]
                              /\ i - 1 \in Registers /\ Reg(t, i - 1) \in Registers
<1>1. Slots \in Nat /\ d \in Nat /\ t \in Int
  BY Around
<1>2. ASSUME NEW i \in 1 .. d PROVE i - 1 \in Registers /\ Reg(t, i - 1) \in Registers
  <2>1. i - 1 \in Int /\ 0 <= i - 1 /\ i - 1 < Slots
    BY <1>1
  <2> QED BY <1>1, <2>1, Around
<1>3. \A i \in 1 .. d : f[Reg(t, i - 1)] \in FpuValues
  BY <1>2
<1>4. Stacked(f, t, d) \in [1 .. d -> FpuValues]
  BY <1>3 DEF Stacked
<1>5. Stacked(f, t, d) \in Seq(FpuValues) /\ Len(Stacked(f, t, d)) = d
  BY <1>1, <1>4
<1> QED BY <1>1, <1>2, <1>5 DEF Stacked

(* A push: one more operand, the others one deeper.                        *)
LEMMA StackedPush ==
  ASSUME NEW f \in [Registers -> FpuValues], NEW t \in Registers, NEW d \in 0 .. Slots, d < Slots,
         NEW v \in FpuValues
  PROVE  Stacked([f EXCEPT ![Reg(t, -1)] = v], Reg(t, -1), d + 1) = <<v>> \o Stacked(f, t, d)
<1> DEFINE u == Reg(t, -1)
           g == [f EXCEPT ![u] = v]
           s == Stacked(f, t, d)
           r == Stacked(g, u, d + 1)
<1>1. Slots \in Nat /\ d \in Nat /\ t \in Int /\ d + 1 \in 0 .. Slots /\ -1 \in Int
  BY Around
<1>2. u \in Registers /\ u \in Int
  BY <1>1, Around
<1>3. g \in [Registers -> FpuValues] /\ g[u] = v /\ \A x \in Registers : x # u => g[x] = f[x]
  BY <1>2
<1>4. s \in Seq(FpuValues) /\ Len(s) = d /\ \A i \in 1 .. d : s[i] = f[Reg(t, i - 1)]
  BY StackedType
<1> HIDE DEF g, s
<1>5. r \in Seq(FpuValues) /\ Len(r) = d + 1
      /\ \A i \in 1 .. d + 1 : r[i] = g[Reg(u, i - 1)] /\ Reg(u, i - 1) \in Registers
  <2> HIDE DEF u
  <2> QED BY <1>1, <1>2, <1>3, StackedType
<1>6. \A i \in Int : Reg(u, i) = Reg(t, -1 + i)
  BY <1>1, Around
<1> HIDE DEF u, r
<1>7. r[1] = v
  <2>1. Reg(u, 0) = u /\ 1 - 1 = 0 /\ 1 \in 1 .. d + 1
    BY <1>1, <1>2, Around
  <2> QED BY <1>3, <1>5, <2>1
<1>8. ASSUME NEW i \in 2 .. d + 1 PROVE r[i] = s[i - 1]
  <2>1. i \in 1 .. d + 1 /\ i - 1 \in 1 .. d /\ i - 1 # 0 /\ i - 1 \in Int
        /\ 0 <= i - 1 /\ i - 1 < Slots /\ 0 < Slots
    BY <1>1
  <2>2. Reg(u, i - 1) # u
    <3>1. i - 1 \in Registers /\ 0 \in Registers
      BY <1>1, <2>1, Around
    <3>2. Reg(u, 0) = u
      BY <1>2, Around
    <3> QED BY <1>2, <2>1, <3>1, <3>2, Around
  <2>3. Reg(u, i - 1) = Reg(t, (i - 1) - 1)
    <3>1. -1 + (i - 1) = (i - 1) - 1
      BY <2>1
    <3> QED BY <1>6, <2>1, <3>1
  <2> QED BY <1>3, <1>4, <1>5, <2>1, <2>2, <2>3
<1>9. <<v>> \o s \in Seq(FpuValues) /\ Len(<<v>> \o s) = d + 1
      /\ (<<v>> \o s)[1] = v /\ \A i \in 2 .. d + 1 : (<<v>> \o s)[i] = s[i - 1]
  BY <1>1, <1>4
<1>10. \A i \in 1 .. d + 1 : r[i] = (<<v>> \o s)[i]
  <2> TAKE i \in 1 .. d + 1
  <2>1. CASE i = 1
    BY <1>7, <1>9, <2>1
  <2>2. CASE i # 1
    <3>1. i \in 2 .. d + 1
      BY <1>1, <2>2
    <3> QED BY <1>8, <1>9, <3>1
  <2> QED BY <2>1, <2>2
<1>11. r = <<v>> \o s
  BY <1>5, <1>9, <1>10
<1> QED BY <1>11 DEF r, s, g, u

(* Pops: the topmost operands are gone.                                    *)
LEMMA StackedDrop ==
  ASSUME NEW f \in [Registers -> FpuValues], NEW t \in Registers, NEW d \in 0 .. Slots,
         NEW n \in 0 .. d
  PROVE  Stacked(f, Reg(t, n), d - n) = SubSeq(Stacked(f, t, d), n + 1, d)
<1> DEFINE u == Reg(t, n)
           s == Stacked(f, t, d)
           r == Stacked(f, u, d - n)
           p == SubSeq(s, n + 1, d)
<1>1. /\ Slots \in Nat /\ d \in Nat /\ n \in Nat /\ t \in Int /\ d - n \in 0 .. Slots /\ d - n \in Nat
  BY Around
<1>2. u \in Registers /\ u \in Int
  <2>1. t \in Int /\ n \in Int
    BY <1>1
  <2>2. Reg(t, n) \in Registers
    BY <2>1, Around
  <2> QED BY <2>2, Around
<1>3. s \in Seq(FpuValues) /\ Len(s) = d /\ \A i \in 1 .. d : s[i] = f[Reg(t, i - 1)]
  BY StackedType
<1>4. r \in Seq(FpuValues) /\ Len(r) = d - n /\ \A i \in 1 .. d - n : r[i] = f[Reg(u, i - 1)]
  <2> HIDE DEF u
  <2> QED BY <1>1, <1>2, StackedType
<1>5. \A i \in Int : Reg(u, i) = Reg(t, n + i)
  BY <1>1, Around
<1> HIDE DEF u, s, r, p
<1>6. p \in Seq(FpuValues) /\ Len(p) = d - n /\ \A i \in 1 .. d - n : p[i] = s[n + i]
  <2>1. p = SubSeq(s, n + 1, d) /\ n + 1 \in 1 .. d + 1
    BY <1>1 DEF p
  <2>2. Len(p) = d - n
    BY <1>1, <1>3, <2>1
  <2>3. \A i \in 1 .. d - n : p[i] = s[n + i]
    BY <1>1, <1>3, <2>1
  <2>4. p \in Seq(FpuValues)
    BY <1>1, <1>3, <2>1
  <2> QED BY <2>2, <2>3, <2>4
<1>7. ASSUME NEW i \in 1 .. d - n PROVE r[i] = p[i]
  <2>1. i \in Int /\ i - 1 \in Int /\ n + i \in 1 .. d
    BY <1>1
  <2>2. n + (i - 1) = (n + i) - 1
    BY <1>1, <2>1
  <2>3. Reg(u, i - 1) = Reg(t, (n + i) - 1)
    BY <1>5, <2>1, <2>2
  <2> QED BY <1>3, <1>4, <1>6, <2>1, <2>3
<1>8. r = p
  BY <1>4, <1>6, <1>7
<1> QED BY <1>8 DEF r, p, s, u

(* An operand is replaced.                                                 *)
Replaced(f, i, v) == [f EXCEPT ![i] = v]

(* Replacing a register in use replaces that place of the stack.           *)
LEMMA StackedSet ==
  ASSUME NEW f \in [Registers -> FpuValues], NEW t \in Registers, NEW d \in 0 .. Slots,
         NEW i \in Registers, i < d, NEW v \in FpuValues
  PROVE  /\ Replaced(f, Reg(t, i), v) \in [Registers -> FpuValues]
         /\ Stacked(Replaced(f, Reg(t, i), v), t, d) = Replaced(Stacked(f, t, d), i + 1, v)
<1> DEFINE u == Reg(t, i)
           g == [f EXCEPT ![u] = v]
           s == Stacked(f, t, d)
           r == Stacked(g, t, d)
<1>1. Slots \in Nat /\ d \in Nat /\ i \in Nat /\ t \in Int /\ i + 1 \in 1 .. d /\ i \in Int
  <2>1. Slots \in Nat /\ t \in Int /\ i \in Int /\ 0 <= i
    BY Around
  <2> QED BY <2>1
<1>2. u \in Registers
  BY <1>1, Around
<1>3. g \in [Registers -> FpuValues] /\ g[u] = v /\ \A x \in Registers : x # u => g[x] = f[x]
  BY <1>2
<1>4. s \in Seq(FpuValues) /\ Len(s) = d /\ DOMAIN s = 1 .. d
      /\ \A k \in 1 .. d : /\ s[k] = f[Reg(t, k - 1)] /\ k - 1 \in Registers
                           /\ Reg(t, k - 1) \in Registers
  BY StackedType
<1> HIDE DEF g, s
<1>5. r \in Seq(FpuValues) /\ Len(r) = d /\ DOMAIN r = 1 .. d
      /\ \A k \in 1 .. d : r[k] = g[Reg(t, k - 1)]
  BY <1>3, StackedType
<1>6. ASSUME NEW k \in 1 .. d, k # i + 1 PROVE Reg(t, k - 1) # u
  <2>1. k - 1 # i
    BY <1>1, <1>6
  <2> QED BY <1>1, <1>4, <2>1, Around
<1> HIDE DEF u, r
<1>7. ASSUME NEW k \in 1 .. d PROVE r[k] = [s EXCEPT ![i + 1] = v][k]
  <2>1. CASE k = i + 1
    <3>1. k - 1 = i
      BY <1>1, <2>1
    <3>2. Reg(t, k - 1) = u
      BY <3>1 DEF u
    <3> QED BY <1>3, <1>4, <1>5, <2>1, <3>2
  <2>2. CASE k # i + 1
    BY <1>3, <1>4, <1>5, <1>6, <2>2
  <2> QED BY <2>1, <2>2
<1>8. [s EXCEPT ![i + 1] = v] \in Seq(FpuValues) /\ Len([s EXCEPT ![i + 1] = v]) = d
  BY <1>1, <1>4
<1>9. r = [s EXCEPT ![i + 1] = v]
  BY <1>5, <1>7, <1>8
<1> QED BY <1>3, <1>9 DEF r, s, g, u, Replaced

----------------------------------------------------------------------------
(* What EvalStack sees, and its actions in these terms.                    *)
Shown     == [i \in 1 .. depth |-> fst[St(i - 1)]]
Compared  == OrderIn(C0 \in fsw, C2 \in fsw, C3 \in fsw)
Branching == OrderIn(CF \in lowFlags, PF \in lowFlags, ZF \in lowFlags)

(* A load maps to a push of the calculator of EvalStack.                   *)
LEMMA MapPush ==
  ASSUME NEW v \in FpuValues, Len(Shown) < Slots, Shown' = <<v>> \o Shown,
         Compared' = Compared, Branching' = Branching
  PROVE  Computed!Next
<1>1. Computed!Push(v)
  BY DEF Computed!Push, Shown, Compared, Branching
<1>2. v \in Computed!Values
  BY DEF Computed!Values, FpuValues
<1> QED BY <1>1, <1>2 DEF Computed!Next

(* A unary operation maps to one on the top of the stack.                  *)
LEMMA MapApply ==
  ASSUME NEW v \in FpuValues, Shown # <<>>, Shown' = <<v>> \o SubSeq(Shown, 1 + 1, Len(Shown)),
         Compared' = Compared, Branching' = Branching
  PROVE  Computed!Next
<1>1. Computed!Apply(v)
  BY DEF Computed!Apply, Computed!Drop, Shown, Compared, Branching
<1>2. v \in Computed!Values
  BY DEF Computed!Values, FpuValues
<1> QED BY <1>1, <1>2 DEF Computed!Next

(* A step that lets go of the top register maps to a pop.                  *)
LEMMA MapPop ==
  ASSUME Shown # <<>>, Shown' = SubSeq(Shown, 1 + 1, Len(Shown)),
         Compared' = Compared, Branching' = Branching
  PROVE  Computed!Next
<1>1. Computed!Pop
  BY DEF Computed!Pop, Computed!Drop, Shown, Compared, Branching
<1> QED BY <1>1 DEF Computed!Next

(* FNSTSW and SAHF map to the branch on the last comparison.               *)
LEMMA MapTest ==
  ASSUME Shown' = Shown, Compared' = Compared, Branching' = Compared
  PROVE  Computed!Next
<1>1. Computed!Test
  BY DEF Computed!Test, Shown, Compared, Branching
<1> QED BY <1>1 DEF Computed!Next

(* FNINIT, and what leaves the stack alone, map to clearing it or keeping  *)
(* it.                                                                     *)
LEMMA MapClear ==
  ASSUME Shown' \in {Shown, <<>>}, Branching' = Branching
  PROVE  Computed!Next
<1>1. Compared' \in {"less", "equal", "greater", "unordered"}
  BY DEF Compared, OrderIn
<1>2. Computed!Clear
  BY <1>1 DEF Computed!Clear, Computed!Orders, Shown, Compared, Branching
<1> QED BY <1>2 DEF Computed!Next

(* FXCH maps to an exchange.                                               *)
LEMMA MapExchange ==
  ASSUME NEW i \in 1 .. Len(Shown),
         Shown' = [Shown EXCEPT ![1] = Shown[i], ![i] = Shown[1]],
         Compared' = Compared, Branching' = Branching
  PROVE  Computed!Next
<1>1. Computed!Exchange(i)
  BY DEF Computed!Exchange, Shown, Compared, Branching
<1>2. i \in Computed!Depths
  BY DEF Computed!Depths, Shown
<1> QED BY <1>1, <1>2 DEF Computed!Next

(* FST and FSTP to a register map to a copy.                               *)
LEMMA MapCopyTo ==
  ASSUME NEW i \in 1 .. Len(Shown), NEW n \in {0, 1},
         LET s == [Shown EXCEPT ![i] = Shown[1]] IN Shown' = SubSeq(s, n + 1, Len(s)),
         Compared' = Compared, Branching' = Branching
  PROVE  Computed!Next
<1>1. Computed!CopyTo(i, n)
  BY DEF Computed!CopyTo, Shown, Compared, Branching
<1>2. i \in Computed!Depths
  BY DEF Computed!Depths, Shown
<1> QED BY <1>1, <1>2 DEF Computed!Next

(* The four subtractions map to one of the calculator.                     *)
LEMMA MapSubtract ==
  ASSUME NEW i \in 1 .. Len(Shown), NEW to \in {1, i}, NEW r \in BOOLEAN, NEW n \in {0, 1},
         to = i \/ n = 0,
         LET v == IF r THEN Minus(Shown[i], Shown[1]) ELSE Minus(Shown[1], Shown[i])
             s == [Shown EXCEPT ![to] = v]
         IN  Shown' = SubSeq(s, n + 1, Len(s)),
         Compared' = Compared, Branching' = Branching
  PROVE  Computed!Next
<1>1. Computed!Subtract(i, to, r, n)
  BY DEF Computed!Subtract, Computed!Difference, Minus, Shown, Compared, Branching
<1>2. i \in Computed!Depths
  BY DEF Computed!Depths, Shown
<1>3. Computed!Subtract(i, 1, r, 0) \/ Computed!Subtract(i, i, r, n)
  BY <1>1
<1> QED BY <1>2, <1>3 DEF Computed!Next

(* The comparisons, popping none, one or two, map to one of the            *)
(* calculator.                                                             *)
LEMMA MapCompare ==
  ASSUME Shown # <<>>, NEW v, NEW n \in 0 .. 2,
         \/ n \in {0, 1} /\ v \in FpuValues
         \/ n \in 0 .. Len(Shown) /\ \E i \in 1 .. Len(Shown) : v = Shown[i],
         Shown' = SubSeq(Shown, n + 1, Len(Shown)),
         Compared' = Computed!OrderOf(Shown[1], v), Branching' = Branching
  PROVE  Computed!Next
<1>1. Computed!Compare(v, n)
  BY DEF Computed!Compare, Computed!Drop, Shown, Compared, Branching
<1>2. CASE n \in {0, 1} /\ v \in FpuValues
  <2>1. v \in Computed!Values /\ Shown # <<>>
    BY <1>2 DEF Computed!Values, FpuValues
  <2> QED BY <1>1, <1>2, <2>1 DEF Computed!Next, Shown
<1>3. CASE n \in 0 .. Len(Shown) /\ \E i \in 1 .. Len(Shown) : v = Shown[i]
  <2>1. PICK i \in 1 .. Len(Shown) : v = Shown[i]
    BY <1>3
  <2>2. i \in Computed!Depths
    BY DEF Computed!Depths, Shown
  <2>0. n <= 2
    OBVIOUS
  <2>3. Computed!Compare(Shown[i], n)
    BY <1>1, <2>1
  <2> QED BY <1>3, <2>0, <2>2, <2>3 DEF Computed!Next, Shown
<1> QED BY <1>2, <1>3

----------------------------------------------------------------------------
(* The types of the registers, the pointer and the status word.            *)
LEMMA MinusType == \A a, b \in FpuValues : Minus(a, b) \in FpuValues
BY DEF Minus, FpuValues

(* The bits of the status word that hold TOP.                              *)
LEMMA TopBitsType == TopBits \subseteq {11, 12, 13}
<1>1. \A k \in 0 .. 2 : 11 + k \in {11, 12, 13}
  OBVIOUS
<1>2. \A x \in TopBits : \E k \in 0 .. 2 : x = 11 + k
  BY DEF TopBits
<1> QED BY <1>1, <1>2

(* What SAHF loads.                                                        *)
LEMMA SahfGives ==
  ASSUME fsw \subseteq {C0, C2, C3}, StatusToFlags
  PROVE  /\ lowFlags' \subseteq 0 .. 7
         /\ CF \in lowFlags' <=> C0 \in fsw
         /\ PF \in lowFlags' <=> C2 \in fsw
         /\ ZF \in lowFlags' <=> C3 \in fsw
<1>1. lowFlags' = {b - 8 : b \in {s \in Status : s >= 8}}
  BY DEF StatusToFlags
<1>2. Status = fsw \union TopBits
  BY TopBitsType DEF Status, C0, C2, C3
<1>3. Status \subseteq {8, 10, 14, 11, 12, 13}
  BY <1>2, TopBitsType DEF C0, C2, C3
<1>4. \A x \in {8, 10, 14} : x \in Status <=> x \in fsw
  BY <1>2, TopBitsType
<1>5. lowFlags' \subseteq 0 .. 7
  BY <1>1, <1>3
<1>6. \A x \in {8, 10, 14} : x - 8 \in lowFlags' <=> x \in Status
  <2> TAKE x \in {8, 10, 14}
  <2>1. x \in Status => x - 8 \in lowFlags'
    BY <1>1
  <2>2. ASSUME x - 8 \in lowFlags' PROVE x \in Status
    <3>1. PICK b \in Status : b >= 8 /\ x - 8 = b - 8
      BY <1>1, <2>2
    <3>2. b = x
      BY <1>3, <3>1
    <3> QED BY <3>1, <3>2
  <2> QED BY <2>1, <2>2
<1>7. 8 - 8 = 0 /\ 10 - 8 = 2 /\ 14 - 8 = 6
  OBVIOUS
<1> QED BY <1>4, <1>5, <1>6, <1>7 DEF C0, C2, C3, CF, PF, ZF

(* ST(i) is a register.                                                    *)
LEMMA StIs ==
  ASSUME ftop \in Registers
  PROVE  /\ ftop \in Int
         /\ \A i \in Registers : St(i) = Reg(ftop, i) /\ St(i) \in Registers
         /\ 0 \in Registers /\ 1 \in Registers /\ 0 < Slots /\ 1 < Slots
         /\ Down1 = Reg(ftop, -1) /\ Down1 \in Registers
         /\ \A n \in 0 .. 2 : (ftop + n) % Slots = Reg(ftop, n) /\ Reg(ftop, n) \in Registers
<1>1. ftop \in Int /\ -1 \in Int /\ ftop - 1 = ftop + (-1) /\ 0 < Slots /\ 1 < Slots
  BY Around
<1>2. \A i \in Registers : Reg(ftop, i) \in Registers
  BY <1>1, Around
<1>3. \A i \in Registers : St(i) = Reg(ftop, i)
  BY DEF St, Reg
<1>4. Down1 = Reg(ftop, -1)
  BY <1>1 DEF Down1, Reg
<1>5. Reg(ftop, -1) \in Registers
  BY <1>1, Around
<1>6. 0 \in Registers /\ 1 \in Registers
  BY <1>1, Around
<1>7. \A n \in 0 .. 2 : (ftop + n) % Slots = Reg(ftop, n)
  BY DEF Reg
<1>8. \A n \in 0 .. 2 : Reg(ftop, n) \in Registers
  BY <1>1, Around
<1> QED BY <1>1, <1>2, <1>3, <1>4, <1>5, <1>6, <1>7, <1>8

(* FNINIT leaves a typed state.                                            *)
LEMMA FpuInitOK == FpuInit => FpuTypeOK
<1> SUFFICES ASSUME FpuInit PROVE FpuTypeOK
  OBVIOUS
<1>1. 0 \in FpuValues /\ 0 \in Registers /\ 0 \in 0 .. Slots
  <2>1. Slots \in Nat /\ 0 < Slots
    BY Around
  <2> QED BY <2>1, FpuAssumption, Around DEF FpuValues
<1> QED BY <1>1 DEF FpuInit, FpuTypeOK

(* How each kind of instruction moves the pointer.                         *)
LEMMA PopsType ==
  ASSUME FpuTypeOK, NEW n \in 0 .. 2, Pops(n)
  PROVE  ftop' \in Registers /\ depth' \in 0 .. Slots
<1>1. ftop' = Reg(ftop, n)
  BY StIs DEF Pops, FpuTypeOK
<1>2. Reg(ftop, n) \in Registers
  BY StIs DEF FpuTypeOK
<1>3. depth' \in 0 .. Slots
  <2>1. Slots \in Nat /\ depth \in 0 .. Slots
    BY Around DEF FpuTypeOK
  <2>2. depth' = IF depth < n THEN 0 ELSE depth - n
    BY DEF Pops
  <2> QED BY <2>1, <2>2
<1> QED BY <1>1, <1>2, <1>3

(* A load keeps the types.                                                 *)
LEMMA PushType ==
  ASSUME FpuTypeOK, NEW v \in FpuValues, NEW need, Push(v, need)
  PROVE  FpuTypeOK'
<1>1. Down1 \in Registers
  BY StIs DEF FpuTypeOK
<1>2. depth' \in 0 .. Slots
  BY Around DEF Push, FpuTypeOK
<1>3. fpuRude' \in BOOLEAN
  BY DEF Push, FpuTypeOK
<1> QED BY <1>1, <1>2, <1>3 DEF Push, SameFlags, FpuTypeOK

(* The types hold in every state.                                          *)
LEMMA FpuNextOK == FpuTypeOK /\ [FpuNext]_fpuVars => FpuTypeOK'
<1> SUFFICES ASSUME FpuTypeOK, [FpuNext]_fpuVars PROVE FpuTypeOK'
  OBVIOUS
<1>0. /\ fst \in [Registers -> FpuValues] /\ ftop \in Registers /\ fsw \subseteq {C0, C2, C3}
      /\ lowFlags \subseteq 0 .. 7 /\ depth \in 0 .. Slots /\ fpuRude \in BOOLEAN
      /\ \A i \in Registers : St(i) \in Registers /\ fst[St(i)] \in FpuValues
      /\ 0 \in Registers /\ {0, 1, 2} = 0 .. 2
  BY StIs DEF FpuTypeOK
<1>1. ASSUME NEW g \in [Registers -> FpuValues], fst' = g, NEW n \in 0 .. 2, Pops(n),
             NEW need, Needs(need), SameFlags
      PROVE  FpuTypeOK'
  BY <1>0, <1>1, PopsType DEF Needs, SameFlags, FpuTypeOK
<1>2. ASSUME NEW v, NEW n \in 0 .. 2, Compares(v), Pops(n), NEW need, Needs(need),
             UNCHANGED <<fst, lowFlags>>
      PROVE  FpuTypeOK'
  <2>1. fsw' \subseteq {C0, C2, C3}
    BY <1>0, <1>2 DEF Compares, CompareBits
  <2> QED BY <1>0, <1>2, <2>1, PopsType DEF Needs, FpuTypeOK
<1>3. CASE StorePop
  BY <1>0, <1>1, <1>3 DEF StorePop
<1>4. CASE StatusToFlags
  BY <1>0, <1>4, SahfGives DEF StatusToFlags, FpuTypeOK
<1>5. CASE ClearExceptions
  BY <1>0, <1>5 DEF ClearExceptions, FpuTypeOK
<1>6. CASE Reset
  BY <1>0, <1>6, FpuAssumption DEF Reset, FpuTypeOK, FpuValues
<1>7. ASSUME NEW v \in FpuValues, WithValue(v) PROVE FpuTypeOK'
  <2>1. CASE LoadValue(v)
    BY <2>1, PushType DEF LoadValue
  <2>2. ASSUME NEW n \in {0, 1}, CompareValue(v, n) PROVE FpuTypeOK'
    BY <1>0, <1>2, <2>2 DEF CompareValue
  <2>3. ASSUME NEW n \in {1, 2}, ApplySt0(v, n) PROVE FpuTypeOK'
    <3>1. [fst EXCEPT ![St(0)] = v] \in [Registers -> FpuValues]
      BY <1>0
    <3> QED BY <1>0, <1>1, <2>3, <3>1 DEF ApplySt0
  <2> QED BY <1>7, <2>1, <2>2, <2>3 DEF WithValue
<1>8. ASSUME NEW i \in Registers, OnSt(i) PROVE FpuTypeOK'
  <2>0. \A v \in FpuValues : [fst EXCEPT ![St(i)] = v] \in [Registers -> FpuValues]
    BY <1>0
  <2>00. \A v \in FpuValues : [fst EXCEPT ![St(0)] = v] \in [Registers -> FpuValues]
    BY <1>0
  <2>1. CASE LoadSt(i)
    BY <1>0, <2>1, PushType DEF LoadSt
  <2>2. CASE ExchangeSt(i)
    <3>1. [fst EXCEPT ![St(0)] = fst[St(i)], ![St(i)] = fst[St(0)]] \in [Registers -> FpuValues]
      BY <1>0
    <3> QED BY <1>0, <1>1, <2>2, <3>1 DEF ExchangeSt
  <2>3. ASSUME NEW n \in {0, 1}, StoreSt(i, n) PROVE FpuTypeOK'
    BY <1>0, <1>1, <2>0, <2>3 DEF StoreSt
  <2>4. \A which, dst, src, rev : dst \in FpuValues /\ src \in FpuValues => Arith(which, dst, src, rev) \in FpuValues
    BY MinusType DEF Arith
  <2>5. ASSUME NEW n \in {0, 1}, SubSti(i, n) \/ SubrSti(i, n) PROVE FpuTypeOK'
    BY <1>0, <1>1, <2>0, <2>4, <2>5 DEF SubSti, SubrSti
  <2>6. ASSUME NEW which \in {4, 5}, ArithSt0(i, which) PROVE FpuTypeOK'
    BY <1>0, <1>1, <2>00, <2>4, <2>6 DEF ArithSt0
  <2>7. ASSUME NEW n \in 0 .. 2, CompareSt(i, n) PROVE FpuTypeOK'
    BY <1>2, <2>7 DEF CompareSt
  <2> QED BY <1>8, <2>1, <2>2, <2>3, <2>5, <2>6, <2>7 DEF OnSt
<1>9. CASE UNCHANGED fpuVars
  BY <1>9 DEF fpuVars, FpuTypeOK
<1> QED BY <1>3, <1>4, <1>5, <1>6, <1>7, <1>8, <1>9 DEF FpuNext

(* Values stay numbers, the pointer on the registers.                      *)
THEOREM FpuTypes == FpuSpec => []FpuTypeOK
BY FpuInitOK, FpuNextOK, PTL DEF FpuSpec

----------------------------------------------------------------------------
(* The registers as EvalStack's stack.                                     *)
LEMMA ShownIs ==
  ASSUME FpuTypeOK
  PROVE  /\ Shown = Stacked(fst, ftop, depth)
         /\ Shown \in Seq(FpuValues) /\ Len(Shown) = depth /\ DOMAIN Shown = 1 .. depth
         /\ depth \in Nat /\ (0 < depth => Shown # <<>> /\ Shown[1] = fst[St(0)])
         /\ \A i \in Registers : i < depth =>
              i + 1 \in 1 .. Len(Shown) /\ Shown[i + 1] = fst[St(i)]
<1>1. Shown = Stacked(fst, ftop, depth)
  BY DEF Shown, Stacked, St, Reg
<1>2. /\ Shown \in Seq(FpuValues) /\ Len(Shown) = depth /\ DOMAIN Shown = 1 .. depth
      /\ depth \in Nat
  BY <1>1, StackedType DEF FpuTypeOK
<1>3. \A i \in Registers : i < depth => i + 1 \in 1 .. Len(Shown) /\ Shown[i + 1] = fst[St(i)]
  <2> SUFFICES ASSUME NEW i \in Registers, i < depth
               PROVE  i + 1 \in 1 .. Len(Shown) /\ Shown[i + 1] = fst[St(i)]
    OBVIOUS
  <2>1. i \in Int /\ 0 <= i
    BY Around
  <2>2. i + 1 \in 1 .. depth /\ (i + 1) - 1 = i
    BY <1>2, <2>1
  <2> QED BY <1>2, <2>2 DEF Shown
<1>4. 0 < depth => Shown # <<>> /\ Shown[1] = fst[St(0)]
  <2>1. 0 \in Registers /\ 0 + 1 = 1
    BY StIs DEF FpuTypeOK
  <2> QED BY <1>2, <1>3, <2>1
<1> QED BY <1>1, <1>2, <1>3, <1>4

(* Pops, after the registers have changed to g.                            *)
LEMMA ShownPops ==
  ASSUME FpuTypeOK, NEW g \in [Registers -> FpuValues], fst' = g, NEW n \in 0 .. 2, n <= depth, Pops(n)
  PROVE  Shown' = SubSeq(Stacked(g, ftop, depth), n + 1, depth)
<1>1. Shown' = Stacked(fst', ftop', depth')
  BY DEF Shown, Stacked, St, Reg
<1>2. depth \in 0 .. Slots /\ n \in 0 .. depth /\ ftop \in Registers
  BY Around DEF FpuTypeOK
<1>3. ftop' = Reg(ftop, n) /\ depth' = depth - n
  <2>1. ftop' = Reg(ftop, n)
    BY StIs DEF Pops, FpuTypeOK
  <2>2. depth' = depth - n
    BY <1>2 DEF Pops
  <2> QED BY <2>1, <2>2
<1>4. Stacked(g, Reg(ftop, n), depth - n) = SubSeq(Stacked(g, ftop, depth), n + 1, depth)
  BY <1>2, StackedDrop
<1> QED BY <1>1, <1>3, <1>4

(* The comparison's bits say what the order was.                           *)
LEMMA ComparesAre ==
  ASSUME FpuTypeOK, NEW v \in FpuValues, Compares(v)
  PROVE  Compared' = Computed!OrderOf(fst[St(0)], v)
<1> DEFINE a == fst[St(0)]
<1>1. /\ C0 \in fsw' <=> C0 \in CompareBits(a, v)
      /\ C2 \in fsw' <=> C2 \in CompareBits(a, v)
      /\ C3 \in fsw' <=> C3 \in CompareBits(a, v)
  BY DEF Compares
<1>3. \A x \in FpuValues : x = NaN \/ x \in Int
  BY FpuAssumption DEF FpuValues
<1>4. a \in FpuValues
  BY StIs DEF FpuTypeOK
<1> HIDE DEF a
<1>2. OrderIn(C0 \in CompareBits(a, v), C2 \in CompareBits(a, v), C3 \in CompareBits(a, v))
        = Computed!OrderOf(a, v)
  <2>1. CASE a = NaN \/ v = NaN
    BY <2>1 DEF OrderIn, CompareBits, Computed!OrderOf, C0, C2, C3
  <2>2. CASE ~(a = NaN \/ v = NaN)
    <3>1. a \in Int /\ v \in Int
      BY <1>3, <1>4, <2>2
    <3> QED BY <2>2, <3>1 DEF OrderIn, CompareBits, Computed!OrderOf, C0, C2, C3
  <2> QED BY <2>1, <2>2
<1> QED BY <1>1, <1>2 DEF Compared, OrderIn, a

(* Each instruction that keeps within the registers is a step of the stack.*)
LEMMA FpuSteps ==
  ASSUME FpuTypeOK, FpuTypeOK', [FpuNext]_fpuVars, ~fpuRude'
  PROVE  [Computed!Next]_Computed!vars
<1>0. /\ fst \in [Registers -> FpuValues] /\ ftop \in Registers /\ fsw \subseteq {C0, C2, C3}
      /\ depth \in 0 .. Slots /\ depth \in Nat
      /\ \A i \in Registers : St(i) \in Registers /\ fst[St(i)] \in FpuValues /\ St(i) = Reg(ftop, i)
      /\ 0 \in Registers /\ 1 \in Registers
      /\ \A i \in Registers : i \in Int /\ 0 <= i
  BY StIs, ShownIs, Around DEF FpuTypeOK
<1>1. /\ Shown = Stacked(fst, ftop, depth)
      /\ Shown \in Seq(FpuValues) /\ Len(Shown) = depth
      /\ (0 < depth => Shown # <<>> /\ Shown[1] = fst[St(0)])
      /\ \A i \in Registers : i < depth => i + 1 \in 1 .. Len(Shown) /\ Shown[i + 1] = fst[St(i)]
  BY ShownIs
<1>2. SameFlags => Compared' = Compared /\ Branching' = Branching
  BY DEF SameFlags, Compared, Branching
<1>3. \A need : Needs(need) => ~(depth < need)
  BY DEF Needs
<1>4. ASSUME NEW v \in FpuValues, NEW need, Push(v, need) PROVE Computed!Next
  <2>1. depth < Slots
    <3>1. depth # Slots
      BY <1>4 DEF Push
    <3>2. Slots \in Nat /\ depth \in 0 .. Slots
      BY <1>0, Around
    <3> QED BY <3>1, <3>2
  <2>2. Shown' = Stacked(fst', ftop', depth')
    BY DEF Shown, Stacked, St, Reg
  <2>3. fst' = [fst EXCEPT ![Reg(ftop, -1)] = v] /\ ftop' = Reg(ftop, -1) /\ depth' = depth + 1
    BY <1>0, <1>4, <2>1, StIs DEF Push
  <2>4. Stacked([fst EXCEPT ![Reg(ftop, -1)] = v], Reg(ftop, -1), depth + 1)
          = <<v>> \o Stacked(fst, ftop, depth)
    BY <1>0, <2>1, StackedPush
  <2>5. Shown' = <<v>> \o Shown
    BY <1>1, <2>2, <2>3, <2>4
  <2> QED BY <1>1, <1>2, <1>4, <2>1, <2>5, MapPush DEF Push
<1>5. ASSUME NEW i \in Registers, NEW v \in FpuValues, NEW n \in 0 .. 2, n <= depth, i < depth,
             fst' = [fst EXCEPT ![St(i)] = v], Pops(n)
      PROVE  LET s == [Shown EXCEPT ![i + 1] = v] IN Shown' = SubSeq(s, n + 1, Len(s))
  <2> DEFINE g == Replaced(fst, Reg(ftop, i), v)
  <2>1. /\ g \in [Registers -> FpuValues]
        /\ Stacked(g, ftop, depth) = Replaced(Stacked(fst, ftop, depth), i + 1, v)
    <3>1. /\ fst \in [Registers -> FpuValues] /\ ftop \in Registers /\ depth \in 0 .. Slots
          /\ i \in Registers /\ i < depth /\ v \in FpuValues
      BY <1>0, <1>5
    <3> QED BY <3>1, StackedSet
  <2>2. fst' = g
    BY <1>0, <1>5 DEF Replaced
  <2> HIDE DEF g
  <2>3. Shown' = SubSeq(Stacked(g, ftop, depth), n + 1, depth)
    BY <1>5, <2>1, <2>2, ShownPops
  <2>4. Stacked(g, ftop, depth) = [Shown EXCEPT ![i + 1] = v]
    BY <1>1, <2>1 DEF Replaced
  <2>5. Len([Shown EXCEPT ![i + 1] = v]) = depth
    BY <1>1
  <2> QED BY <2>3, <2>4, <2>5
<1>6. ASSUME NEW s \in Seq(FpuValues) PROVE SubSeq(s, 0 + 1, Len(s)) = s
  OBVIOUS
<1>7. ASSUME NEW i \in Registers, NEW n \in 0 .. 2, n <= depth, Pops(n), UNCHANGED fst
      PROVE  Shown' = SubSeq(Shown, n + 1, Len(Shown))
  <2>1. Shown' = SubSeq(Stacked(fst, ftop, depth), n + 1, depth)
    BY <1>0, <1>7, ShownPops
  <2> QED BY <1>1, <2>1
<1>8. CASE StorePop
  <2>1. 1 <= depth /\ Pops(1) /\ UNCHANGED fst /\ SameFlags
    BY <1>0, <1>3, <1>8 DEF StorePop
  <2>2. Shown' = SubSeq(Shown, 1 + 1, Len(Shown))
    BY <1>0, <1>7, <2>1
  <2> QED BY <1>0, <1>1, <1>2, <2>1, <2>2, MapPop
<1>9. CASE StatusToFlags
  <2>1. Branching' = Compared
    BY <1>0, <1>9, SahfGives DEF Branching, Compared, OrderIn
  <2>2. Shown' = Shown /\ Compared' = Compared
    BY <1>9 DEF StatusToFlags, Shown, Compared, St
  <2> QED BY <2>1, <2>2, MapTest
<1>10. CASE ClearExceptions
  BY <1>10, MapClear DEF ClearExceptions, Shown, St, Branching
<1>11. CASE Reset
  <2>1. Branching' = Branching
    BY <1>11 DEF Reset, Branching
  <2>2. Shown' = <<>>
    <3>1. Shown' = Stacked(fst', ftop', depth')
      BY DEF Shown, Stacked, St, Reg
    <3>2. Shown' \in Seq(FpuValues) /\ Len(Shown') = depth'
      BY <3>1, StackedType DEF FpuTypeOK
    <3> QED BY <1>11, <3>2 DEF Reset
  <2> QED BY <2>1, <2>2, MapClear
<1>12. ASSUME NEW v \in FpuValues, WithValue(v) PROVE Computed!Next
  <2>1. CASE LoadValue(v)
    BY <1>4, <2>1 DEF LoadValue
  <2>2. ASSUME NEW n \in {0, 1}, CompareValue(v, n) PROVE Computed!Next
    <3>1. 1 <= depth /\ n <= depth /\ n \in 0 .. 2
      BY <1>0, <1>3, <2>2 DEF CompareValue
    <3>2. Shown' = SubSeq(Shown, n + 1, Len(Shown))
      BY <1>7, <1>0, <2>2, <3>1 DEF CompareValue
    <3>3. Compared' = Computed!OrderOf(Shown[1], v)
      BY <1>0, <1>1, <2>2, <3>1, ComparesAre DEF CompareValue
    <3>4. Branching' = Branching
      BY <2>2 DEF CompareValue, Branching
    <3>5. Shown # <<>> /\ n \in 0 .. 2 /\ n \in {0, 1} /\ v \in FpuValues
      BY <1>0, <1>1, <3>1
    <3> QED BY <3>2, <3>3, <3>4, <3>5, MapCompare
  <2>3. ASSUME NEW n \in {1, 2}, ApplySt0(v, n) PROVE Computed!Next
    <3>1. 0 < depth /\ 0 <= depth /\ 0 \in 0 .. 2
      BY <1>0, <1>3, <2>3 DEF ApplySt0
    <3>2. LET s == [Shown EXCEPT ![0 + 1] = v] IN Shown' = SubSeq(s, 0 + 1, Len(s))
      BY <1>0, <1>5, <2>3, <3>1 DEF ApplySt0
    <3>3. [Shown EXCEPT ![1] = v] \in Seq(FpuValues)
      BY <1>1, <3>1
    <3>4. Shown' = [Shown EXCEPT ![1] = v]
      BY <1>6, <3>2, <3>3
    <3>5. Shown' = <<v>> \o SubSeq(Shown, 1 + 1, Len(Shown))
      BY <1>1, <3>1, <3>3, <3>4
    <3> QED BY <1>1, <1>2, <2>3, <3>1, <3>5, MapApply DEF ApplySt0
  <2> QED BY <1>12, <2>1, <2>2, <2>3 DEF WithValue
<1>13. ASSUME NEW i \in Registers, OnSt(i) PROVE Computed!Next
  <2>0. /\ \A need : need = i + 1 /\ Needs(need) => i < depth /\ 0 < depth
        /\ \A n \in {0, 1} : n \in 0 .. 2 /\ (i < depth => n <= depth)
    BY <1>0, <1>3
  <2>1. CASE LoadSt(i)
    BY <1>0, <1>4, <2>1 DEF LoadSt
  <2>2. CASE ExchangeSt(i)
    <3> DEFINE a == fst[St(0)]
               b == fst[St(i)]
               g == Replaced(fst, Reg(ftop, 0), b)
               h == Replaced(g, Reg(ftop, i), a)
    <3>1. i < depth /\ 0 < depth /\ Pops(0) /\ SameFlags /\ 0 \in 0 .. 2 /\ 0 <= depth
      BY <1>0, <2>0, <2>2 DEF ExchangeSt
    <3>2. fst' = h
      BY <1>0, <2>2 DEF ExchangeSt, Replaced
    <3>3. a \in FpuValues /\ b \in FpuValues /\ a = Shown[1] /\ b = Shown[i + 1] /\ i + 1 \in 1 .. Len(Shown)
      BY <1>0, <1>1, <3>1
    <3> HIDE DEF a, b
    <3>4. /\ g \in [Registers -> FpuValues]
          /\ Stacked(g, ftop, depth) = Replaced(Stacked(fst, ftop, depth), 0 + 1, b)
      <4>1. /\ fst \in [Registers -> FpuValues] /\ ftop \in Registers /\ depth \in 0 .. Slots
            /\ 0 \in Registers /\ 0 < depth /\ b \in FpuValues
        BY <1>0, <3>1, <3>3
      <4> QED BY <4>1, StackedSet
    <3> HIDE DEF g
    <3>5. /\ h \in [Registers -> FpuValues]
          /\ Stacked(h, ftop, depth) = Replaced(Stacked(g, ftop, depth), i + 1, a)
      <4>1. /\ g \in [Registers -> FpuValues] /\ ftop \in Registers /\ depth \in 0 .. Slots
            /\ i \in Registers /\ i < depth /\ a \in FpuValues
        BY <1>0, <3>1, <3>3, <3>4
      <4> QED BY <4>1, StackedSet
    <3> HIDE DEF h
    <3>6. Shown' = SubSeq(Stacked(h, ftop, depth), 0 + 1, depth)
      BY <3>1, <3>2, <3>5, ShownPops
    <3>7. Stacked(h, ftop, depth) = [Shown EXCEPT ![1] = Shown[i + 1], ![i + 1] = Shown[1]]
      BY <1>1, <3>3, <3>4, <3>5 DEF Replaced
    <3>8. Stacked(h, ftop, depth) \in Seq(FpuValues) /\ Len(Stacked(h, ftop, depth)) = depth
      BY <1>0, <3>5, StackedType
    <3>9. Shown' = [Shown EXCEPT ![1] = Shown[i + 1], ![i + 1] = Shown[1]]
      BY <1>6, <3>6, <3>7, <3>8
    <3> QED BY <1>2, <3>1, <3>3, <3>9, MapExchange
  <2>3. ASSUME NEW n \in {0, 1}, StoreSt(i, n) PROVE Computed!Next
    <3>1. i < depth /\ 0 < depth /\ n \in 0 .. 2 /\ n <= depth
      BY <2>0, <2>3 DEF StoreSt
    <3>2. LET s == [Shown EXCEPT ![i + 1] = fst[St(0)]] IN Shown' = SubSeq(s, n + 1, Len(s))
      BY <1>0, <1>5, <2>3, <3>1 DEF StoreSt
    <3>3. LET s == [Shown EXCEPT ![i + 1] = Shown[1]] IN Shown' = SubSeq(s, n + 1, Len(s))
      BY <1>1, <3>1, <3>2
    <3>4. i + 1 \in 1 .. Len(Shown)
      BY <1>1, <3>1
    <3> QED BY <1>2, <2>3, <3>3, <3>4, MapCopyTo DEF StoreSt
  <2>4. ASSUME NEW to \in {0, i}, NEW n \in {0, 1}, to = i \/ n = 0, NEW r \in BOOLEAN, i < depth,
               NEW v, v = IF r THEN Minus(fst[St(i)], fst[St(0)]) ELSE Minus(fst[St(0)], fst[St(i)]),
               fst' = [fst EXCEPT ![St(to)] = v], Pops(n), SameFlags
        PROVE  Computed!Next
    <3>1. 0 < depth /\ n \in 0 .. 2 /\ n <= depth /\ to \in Registers /\ to < depth
      BY <1>0, <2>0, <2>4
    <3>2. v \in FpuValues
      BY <1>0, <2>4, MinusType
    <3>3. LET s == [Shown EXCEPT ![to + 1] = v] IN Shown' = SubSeq(s, n + 1, Len(s))
      BY <1>5, <2>4, <3>1, <3>2
    <3>4. i + 1 \in 1 .. Len(Shown) /\ to + 1 \in {1, i + 1} /\ (to + 1 = i + 1 \/ n = 0)
      BY <1>1, <2>4
    <3>5. v = IF r THEN Minus(Shown[i + 1], Shown[1]) ELSE Minus(Shown[1], Shown[i + 1])
      BY <1>1, <2>4, <3>1
    <3> QED BY <1>2, <2>4, <3>3, <3>4, <3>5, MapSubtract
  <2>5. ASSUME NEW n \in {0, 1}, SubSti(i, n) PROVE Computed!Next
    <3>1. /\ i < depth /\ Pops(n) /\ SameFlags
          /\ fst' = [fst EXCEPT ![St(i)] = Minus(fst[St(i)], fst[St(0)])]
      <4>1. Arith(5, fst[St(i)], fst[St(0)], TRUE) = Minus(fst[St(i)], fst[St(0)])
        <5>1. (5 = 4) <=> FALSE
          OBVIOUS
        <5> QED BY <5>1 DEF Arith
      <4> QED BY <2>0, <2>5, <4>1 DEF SubSti
    <3> QED BY <2>4, <3>1
  <2>6. ASSUME NEW n \in {0, 1}, SubrSti(i, n) PROVE Computed!Next
    <3>1. /\ i < depth /\ Pops(n) /\ SameFlags
          /\ fst' = [fst EXCEPT ![St(i)] = Minus(fst[St(0)], fst[St(i)])]
      BY <2>0, <2>6 DEF SubrSti, Arith
    <3> QED BY <2>4, <3>1
  <2>7. ASSUME NEW which \in {4, 5}, ArithSt0(i, which) PROVE Computed!Next
    <3>1. i < depth /\ Pops(0) /\ SameFlags
      BY <2>0, <2>7 DEF ArithSt0
    <3>2. fst' = [fst EXCEPT ![St(0)] = IF which = 4 THEN Minus(fst[St(0)], fst[St(i)])
                                                     ELSE Minus(fst[St(i)], fst[St(0)])]
      BY <2>7 DEF ArithSt0, Arith
    <3>3. CASE which = 4
      BY <2>4, <3>1, <3>2, <3>3
    <3>4. CASE which = 5
      BY <2>4, <3>1, <3>2, <3>4
    <3> QED BY <3>3, <3>4
  <2>8. ASSUME NEW n \in 0 .. 2, CompareSt(i, n) PROVE Computed!Next
    <3>1. i < depth /\ 0 < depth /\ n <= depth
      BY <1>0, <2>0, <2>8 DEF CompareSt
    <3>2. Shown' = SubSeq(Shown, n + 1, Len(Shown))
      BY <1>7, <2>8, <3>1 DEF CompareSt
    <3>3. Compared' = Computed!OrderOf(Shown[1], Shown[i + 1])
      BY <1>0, <1>1, <2>8, <3>1, ComparesAre DEF CompareSt
    <3>4. Branching' = Branching
      BY <2>8 DEF CompareSt, Branching
    <3>5. i + 1 \in 1 .. Len(Shown) /\ n \in 0 .. Len(Shown)
      BY <1>0, <1>1, <3>1
    <3> QED BY <1>1, <3>1, <3>2, <3>3, <3>4, <3>5, MapCompare
  <2> QED BY <1>13, <2>1, <2>2, <2>3, <2>5, <2>6, <2>7, <2>8 DEF OnSt
<1>14. CASE UNCHANGED fpuVars
  BY <1>14 DEF fpuVars, Computed!vars, St
<1> QED BY <1>8, <1>9, <1>10, <1>11, <1>12, <1>13, <1>14 DEF FpuNext

(* As long as a guest keeps within the registers they are a stack, and the *)
(* jump behind FNSTSW AX and SAHF goes the way of the last comparison.     *)
THEOREM RegistersAreAStack == FpuSpec => FpuIsStack
<1>1. FpuTypeOK /\ FpuTypeOK' /\ [FpuNext]_fpuVars
        => [~fpuRude' => [Computed!Next]_Computed!vars]_fpuVars
  BY FpuSteps
<1> QED BY <1>1, FpuTypes, PTL DEF FpuSpec, FpuIsStack
=============================================================================
